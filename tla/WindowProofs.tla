---------------------------- MODULE WindowProofs ----------------------------
(***************************************************************************)
(* The Linux window that takes a session's events, for any number of them: *)
(* it is never left with events and no redraw, shows the latest of         *)
(* everything, misses no damage and hears of the end last.                 *)
(***************************************************************************)
EXTENDS Window, TLAPS

-----------------------------------------------------------------------------
(* Mailbox: what a push does to the queue *)

\* r is q with e put at its end, and without the event at k that e supersedes, if any.
IsPush(q, r, e, k) ==
  /\ Len(r) = IF k > Len(q) THEN k ELSE Len(q)
  /\ r[Len(r)] = e
  /\ \A i \in 1..(Len(r) - 1) : r[i] = q[IF i < k THEN i ELSE i + 1]
  /\ k <= Len(q) => e.is \in StateKinds /\ q[k].is = e.is
  /\ k > Len(q) /\ e.is \in StateKinds => At(q, e.is) = {}

\* push takes out the unread event of its kind, if there is one, and puts the new one
\* at the end.
LEMMA PushShape ==
  ASSUME NEW E, NEW mail, {"queue", "state"} \subseteq DOMAIN mail, mail.queue \in Seq(E),
         NEW e \in E, Pushes(mail, e),
         \A kind \in StateKinds : \A i, j \in At(mail.queue, kind) : i = j
  PROVE  /\ Push(mail, e).queue \in Seq(E)
         /\ \E k \in 1..(Len(mail.queue) + 1) : IsPush(mail.queue, Push(mail, e).queue, e, k)
<1> DEFINE q == mail.queue
           r == Push(mail, e).queue
<1>1. r = Append(Supersede(q, e), e)
  BY DEF Push, Pushes
<1>2. CASE e.is \in StateKinds /\ At(q, e.is) # {}
  <2> DEFINE k == First(q, e.is)
  <2>1. k \in At(q, e.is)
    <3>1. PICK i \in At(q, e.is) : TRUE
      BY <1>2
    <3>2. i \in 1..Len(q)
      BY <3>1 DEF At
    <3>3. \A j \in At(q, e.is) : i <= j
      BY <1>2, <3>1, <3>2
    <3> QED
      BY <3>1, <3>3 DEF First
  <2>2. k \in 1..Len(q) /\ q[k].is = e.is
    BY <2>1 DEF At
  <2>3. r = Append(SubSeq(q, 1, k - 1) \o SubSeq(q, k + 1, Len(q)), e)
    BY <1>1, <1>2, Zenon DEF Supersede, WithoutFirst
  <2> HIDE DEF k, q, r
  <2>4. q \in Seq(E)
    BY DEF q
  <2>5. /\ r \in Seq(E) /\ Len(r) = Len(q) /\ r[Len(r)] = e
        /\ \A i \in 1..(Len(r) - 1) : r[i] = q[IF i < k THEN i ELSE i + 1]
    <3> DEFINE a == SubSeq(q, 1, k - 1)
               b == SubSeq(q, k + 1, Len(q))
    <3>1. /\ a \in Seq(E) /\ Len(a) = k - 1 /\ \A i \in 1..(k - 1) : a[i] = q[i]
      BY <2>2, <2>4
    <3>2. /\ b \in Seq(E) /\ Len(b) = Len(q) - k
          /\ \A i \in 1..(Len(q) - k) : b[i] = q[k + i]
      BY <2>2, <2>4
    <3> HIDE DEF a, b
    <3>3. /\ a \o b \in Seq(E) /\ Len(a \o b) = Len(q) - 1
          /\ \A i \in 1..(Len(q) - 1) : (a \o b)[i] = IF i < k THEN a[i] ELSE b[i - k + 1]
      <4>1. /\ a \o b \in Seq(E) /\ Len(a \o b) = Len(a) + Len(b)
            /\ \A i \in 1..(Len(a) + Len(b)) :
                 (a \o b)[i] = IF i <= Len(a) THEN a[i] ELSE b[i - Len(a)]
        <5>1. a \in Seq(E) /\ b \in Seq(E)
          BY <3>1, <3>2
        <5> QED
          BY <5>1
      <4>2. Len(q) \in Nat /\ k \in 1..Len(q)
        BY <2>2, <2>4
      <4> QED
        BY <3>1, <3>2, <4>1, <4>2
    <3>4. \A i \in 1..(Len(q) - 1) : (a \o b)[i] = q[IF i < k THEN i ELSE i + 1]
      BY <2>2, <2>4, <3>1, <3>2, <3>3
    <3>5. r = Append(a \o b, e)
      BY <2>3 DEF a, b
    <3> QED
      BY <2>4, <3>3, <3>4, <3>5
  <2> QED
    <3>1. k \in 1..(Len(q) + 1) /\ k <= Len(q) /\ ~(k > Len(q))
      BY <2>2, <2>4
    <3>2. IsPush(q, r, e, k)
      BY <1>2, <2>2, <2>5, <3>1, Zenon DEF IsPush
    <3> QED
      BY <2>5, <3>1, <3>2 DEF q, r
<1>3. CASE ~(e.is \in StateKinds /\ At(q, e.is) # {})
  <2>1. r = Append(q, e)
    BY <1>1, <1>3 DEF Supersede
  <2> HIDE DEF r
  <2>2. /\ r \in Seq(E) /\ Len(r) = Len(q) + 1 /\ r[Len(r)] = e
        /\ \A i \in 1..(Len(r) - 1) : r[i] = q[i]
    BY <2>1
  <2>3. Len(q) + 1 \in 1..(Len(q) + 1)
    BY <2>1
  <2> QED
    <3>1. IsPush(q, r, e, Len(q) + 1)
      BY <1>3, <2>2, <2>3 DEF IsPush
    <3> QED
      BY <2>2, <2>3, <3>1 DEF r
<1> QED
  BY <1>2, <1>3

-----------------------------------------------------------------------------
(* The window: what a push leaves of the properties of a queue *)

\* An event that is not a frame carries a number, and a frame its marks.
LEMMA SentFacts ==
  \A e \in Sent : /\ e.is \in {"size", "mode", "sound", "closed", "frame"}
                  /\ e.is # "frame" => e.v \in Nat
                  /\ e.is = "frame" => e.rects \in SUBSET Marks
<1> SUFFICES ASSUME NEW e \in Sent
             PROVE  /\ e.is \in {"size", "mode", "sound", "closed", "frame"}
                    /\ e.is # "frame" => e.v \in Nat
                    /\ e.is = "frame" => e.rects \in SUBSET Marks
  OBVIOUS
<1>1. CASE e \in [is : {"size", "mode", "sound", "closed"}, v : Nat]
  <2>1. e.is \in {"size", "mode", "sound", "closed"} /\ e.v \in Nat
    BY <1>1
  <2> QED
    BY <2>1
<1>2. CASE e \in [is : {"frame"}, rects : SUBSET Marks]
  <2>1. e.is = "frame" /\ e.rects \in SUBSET Marks
    BY <1>2
  <2> QED
    BY <2>1
<1> QED
  BY <1>1, <1>2 DEF Sent

\* Where the event at i was before the event at k was taken out, and where the event
\* at j is after.
Old(i, k) == IF i < k THEN i ELSE i + 1
New(j, k) == IF j < k THEN j ELSE j - 1
Moves(q, r, e, k) ==
  /\ Len(q) \in Nat /\ Len(r) \in Nat \ {0} /\ k \in 1..(Len(q) + 1)
  /\ DOMAIN r = 1..Len(r) /\ DOMAIN q = 1..Len(q)
  /\ r[Len(r)] = e
  /\ \A i \in 1..Len(q) : q[i] \in Sent
  /\ \A i \in 1..(Len(r) - 1) : Old(i, k) \in 1..Len(q) /\ r[i] = q[Old(i, k)]
  /\ \A j \in 1..Len(q) : j # k => New(j, k) \in 1..(Len(r) - 1) /\ r[New(j, k)] = q[j]
  /\ k \in 1..Len(q) => q[k].is = e.is /\ e.is \in StateKinds
  /\ e.is \in StateKinds => \A i \in 1..(Len(r) - 1) : r[i].is # e.is
  /\ OneOfAKind(q)

\* Every event but the superseded one moves up or stays.
LEMMA PushMoves ==
  ASSUME NEW q \in Seq(Sent), NEW r \in Seq(Sent), NEW e \in Sent,
         NEW k \in 1..(Len(q) + 1), IsPush(q, r, e, k), OneOfAKind(q)
  PROVE  Moves(q, r, e, k)
<1>1. /\ Len(q) \in Nat /\ Len(r) \in Nat /\ DOMAIN r = 1..Len(r) /\ DOMAIN q = 1..Len(q)
      /\ \A i \in 1..Len(q) : q[i] \in Sent
  OBVIOUS
<1>2. Len(r) # 0 /\ r[Len(r)] = e
  BY <1>1 DEF IsPush
<1>3. \A i \in 1..(Len(r) - 1) : Old(i, k) \in 1..Len(q) /\ r[i] = q[Old(i, k)]
  BY <1>1 DEF IsPush, Old
<1>4. \A j \in 1..Len(q) : j # k => New(j, k) \in 1..(Len(r) - 1) /\ r[New(j, k)] = q[j]
  <2> SUFFICES ASSUME NEW j \in 1..Len(q), j # k
               PROVE  New(j, k) \in 1..(Len(r) - 1) /\ r[New(j, k)] = q[j]
    OBVIOUS
  <2>1. New(j, k) \in 1..(Len(r) - 1) /\ Old(New(j, k), k) = j
    BY <1>1 DEF IsPush, New, Old
  <2> QED
    BY <1>3, <2>1
<1>5. k \in 1..Len(q) => q[k].is = e.is /\ e.is \in StateKinds
  BY <1>1 DEF IsPush
<1>6. e.is \in StateKinds => \A i \in 1..(Len(r) - 1) : r[i].is # e.is
  <2> SUFFICES ASSUME e.is \in StateKinds, NEW i \in 1..(Len(r) - 1), r[i].is = e.is
               PROVE  FALSE
    OBVIOUS
  <2>1. Old(i, k) \in At(q, e.is) /\ Old(i, k) # k
    BY <1>1, <1>3 DEF At, Old
  <2>2. k \in At(q, e.is)
    BY <1>1, <2>1 DEF IsPush, At
  <2> QED
    BY <2>1, <2>2 DEF OneOfAKind
<1> QED
  BY <1>1, <1>2, <1>3, <1>4, <1>5, <1>6 DEF Moves

\* Only the newest of a kind stays.
LEMMA PushOne ==
  ASSUME NEW q, NEW r, NEW e, NEW k, Moves(q, r, e, k)
  PROVE  OneOfAKind(r)
<1> USE DEF Moves
<1> SUFFICES ASSUME NEW kind \in StateKinds, NEW i \in At(r, kind), NEW j \in At(r, kind)
             PROVE  i = j
  BY DEF OneOfAKind
<1>1. i \in 1..Len(r) /\ j \in 1..Len(r) /\ r[i].is = kind /\ r[j].is = kind
  BY DEF At
<1>2. CASE e.is = kind
  BY <1>1, <1>2
<1>3. CASE e.is # kind
  <2>1. i \in 1..(Len(r) - 1) /\ j \in 1..(Len(r) - 1)
    BY <1>1, <1>3
  <2>2. Old(i, k) \in At(q, kind) /\ Old(j, k) \in At(q, kind)
    BY <1>1, <2>1 DEF At
  <2>3. Old(i, k) = Old(j, k)
    BY <2>2 DEF OneOfAKind
  <2> QED
    BY <2>1, <2>3 DEF Old
<1> QED
  BY <1>2, <1>3

\* An event of a kind that is not superseded stays where it was among the others, and
\* what is new is the last.
LEMMA PushAt ==
  ASSUME NEW q, NEW r, NEW e, NEW k, Moves(q, r, e, k), NEW kind,
         kind \notin StateKinds \/ kind # e.is
  PROVE  /\ \A i \in At(r, kind) :
               \/ i = Len(r) /\ r[i] = e /\ e.is = kind
               \/ i \in 1..(Len(r) - 1) /\ Old(i, k) \in At(q, kind) /\ r[i] = q[Old(i, k)]
         /\ \A j \in At(q, kind) : New(j, k) \in At(r, kind) /\ r[New(j, k)] = q[j] /\ j # k
         /\ e.is = kind => Len(r) \in At(r, kind)
<1> USE DEF Moves
<1>1. \A i \in At(r, kind) : i \in 1..Len(r) /\ r[i].is = kind
  BY DEF At
<1>2. \A j \in At(q, kind) : j \in 1..Len(q) /\ q[j].is = kind /\ j # k
  BY DEF At
<1>3. \A i \in At(r, kind) :
               \/ i = Len(r) /\ r[i] = e /\ e.is = kind
               \/ i \in 1..(Len(r) - 1) /\ Old(i, k) \in At(q, kind) /\ r[i] = q[Old(i, k)]
  BY <1>1 DEF At
<1>4. \A j \in At(q, kind) : New(j, k) \in At(r, kind) /\ r[New(j, k)] = q[j] /\ j # k
  BY <1>2 DEF At
<1>5. e.is = kind => Len(r) \in At(r, kind)
  BY DEF At
<1> QED
  BY <1>3, <1>4, <1>5

\* A new size is the newest and comes last.
LEMMA PushOrdered ==
  ASSUME NEW q, NEW r, NEW e \in Sent, NEW k, Moves(q, r, e, k),
         NEW lo \in Nat, NEW hi \in Nat, lo <= hi, Ordered(q, lo, hi),
         NEW top \in Nat, hi <= top, e.is = "size" => e.v = top /\ top > hi
  PROVE  Ordered(r, lo, top)
<1>1. /\ \A i \in At(r, "size") :
           \/ i = Len(r) /\ r[i] = e /\ e.is = "size"
           \/ i \in 1..(Len(r) - 1) /\ Old(i, k) \in At(q, "size") /\ r[i] = q[Old(i, k)]
  BY PushAt DEF StateKinds
<1>2. \A j \in At(q, "size") : q[j].v \in Nat
  BY SentFacts DEF Moves, At
<1>3. k \in Int /\ Len(r) \in Nat /\ \A i, j \in 1..Len(r) : i < j => Old(i, k) < Old(j, k)
  BY DEF Moves, Old
<1>4. \A i \in At(r, "size") : lo < r[i].v /\ r[i].v <= top
  BY <1>1, <1>2 DEF Ordered
<1>5. ASSUME NEW i \in At(r, "size"), NEW j \in At(r, "size"), i < j
      PROVE  r[i].v < r[j].v
  <2>1. i \in 1..(Len(r) - 1) /\ Old(i, k) \in At(q, "size") /\ r[i] = q[Old(i, k)]
    BY <1>1, <1>3, <1>5
  <2>2. CASE j = Len(r) /\ r[j] = e /\ e.is = "size"
    <3>1. q[Old(i, k)].v \in Nat /\ q[Old(i, k)].v <= hi
      BY <1>2, <2>1, Zenon DEF Ordered
    <3>2. q[Old(i, k)].v < top
      BY <2>2, <3>1
    <3> QED
      BY <2>1, <2>2, <3>2
  <2>3. CASE j \in 1..(Len(r) - 1) /\ Old(j, k) \in At(q, "size") /\ r[j] = q[Old(j, k)]
    <3>1. Old(i, k) < Old(j, k)
      BY <1>3, <1>5, <2>1, <2>3
    <3> QED
      BY <2>1, <2>3, <3>1, Zenon DEF Ordered
  <2> QED
    BY <1>1, <2>2, <2>3
<1> QED
  BY <1>4, <1>5 DEF Ordered

\* Two frames stay apart, and a new one comes only after a size.
LEMMA PushSpaced ==
  ASSUME NEW q, NEW r, NEW e, NEW k, Moves(q, r, e, k), Spaced(q),
         e.is = "frame" => Unread(q) = {}
  PROVE  Spaced(r)
<1> SUFFICES ASSUME NEW i \in At(r, "frame"), NEW j \in At(r, "frame"), i < j
             PROVE  \E g \in At(r, "size") : i < g /\ g < j
  BY DEF Spaced
<1>1. /\ \A h \in {i, j} :
           \/ h = Len(r) /\ e.is = "frame"
           \/ h \in 1..(Len(r) - 1) /\ Old(h, k) \in At(q, "frame")
      /\ \A g \in At(q, "size") : New(g, k) \in At(r, "size") /\ g # k
  BY PushAt DEF StateKinds
<1>2. Len(r) \in Nat /\ k \in Nat /\ \A g \in At(q, "size") : g \in 1..Len(q) /\ g \in Nat
  BY DEF Moves, At
<1>3. i \in 1..(Len(r) - 1) /\ Old(i, k) \in At(q, "frame")
  BY <1>1, <1>2
<1>4. CASE j \in 1..(Len(r) - 1) /\ Old(j, k) \in At(q, "frame")
  <2>1. Old(i, k) < Old(j, k)
    BY <1>2, <1>3, <1>4 DEF Old
  <2>2. PICK g \in At(q, "size") : Old(i, k) < g /\ g < Old(j, k)
    BY <1>3, <1>4, <2>1, Zenon DEF Spaced
  <2>3. i < New(g, k) /\ New(g, k) < j
    BY <1>1, <1>2, <1>3, <1>4, <2>2 DEF Old, New
  <2> QED
    BY <1>1, <2>2, <2>3
<1>5. CASE j = Len(r) /\ e.is = "frame"
  <2>1. PICK g \in At(q, "size") : ~(g < Old(i, k))
    BY <1>3, <1>5 DEF Unread
  <2>2. g # Old(i, k)
    BY <1>3, <2>1 DEF At
  <2>3. New(g, k) \in At(r, "size") /\ New(g, k) \in 1..(Len(r) - 1)
    BY <1>1, <1>2 DEF Moves
  <2>4. i < New(g, k) /\ New(g, k) < j
    BY <1>1, <1>2, <1>3, <1>5, <2>1, <2>2, <2>3 DEF Old, New
  <2> QED
    BY <2>3, <2>4
<1> QED
  BY <1>1, <1>4, <1>5

\* What came before a frame still does.
LEMMA PushBefore ==
  ASSUME NEW q, NEW r, NEW e, NEW k, Moves(q, r, e, k), NEW i \in At(r, "frame"), i # Len(r)
  PROVE  /\ Old(i, k) \in At(q, "frame") /\ r[i] = q[Old(i, k)]
         /\ \A size : Before(q, Old(i, k), size) => Before(r, i, size)
<1>1. /\ i \in 1..(Len(r) - 1) /\ Old(i, k) \in At(q, "frame") /\ r[i] = q[Old(i, k)]
      /\ \A g \in At(q, "size") : New(g, k) \in At(r, "size") /\ r[New(g, k)] = q[g] /\ g # k
  BY PushAt DEF StateKinds
<1>2. Len(r) \in Nat /\ k \in Nat /\ \A g \in At(q, "size") : g \in 1..Len(q) /\ g \in Nat
  BY DEF Moves, At
<1>3. ASSUME NEW size, Before(q, Old(i, k), size) PROVE Before(r, i, size)
  <2>1. PICK g \in At(q, "size") : g < Old(i, k) /\ size <= q[g].v
    BY <1>3 DEF Before
  <2>2. i \in Nat /\ g \in Nat /\ k \in Nat /\ g # k
    BY <1>1, <1>2
  <2>3. New(g, k) < i
    BY <2>1, <2>2 DEF Old, New
  <2> QED
    BY <1>1, <2>1, <2>3, Zenon DEF Before
<1> QED
  BY <1>1, <1>3

\* What would draw a mark still does.
LEMMA PushShows ==
  ASSUME NEW q, NEW r, NEW e, NEW k, Moves(q, r, e, k), NEW n,
         NEW j \in DOMAIN q, Shows(q[j], n)
  PROVE  \E i \in DOMAIN r : Shows(r[i], n)
<1>1. j \in 1..Len(q) /\ j # k
  BY DEF Moves, Shows, StateKinds
<1>2. New(j, k) \in 1..(Len(r) - 1) /\ r[New(j, k)] = q[j] /\ Len(r) \in Nat
  BY <1>1 DEF Moves
<1>3. New(j, k) \in DOMAIN r
  BY <1>2 DEF Moves
<1> QED
  BY <1>2, <1>3

-----------------------------------------------------------------------------
(* The window: an event is put *)

\* What the window's properties rest on, together.
WindowHolds ==
  WindowInv /\ NoLostWake /\ ClosedIsLast /\ Coalesced /\ NoDamageLost /\ FramesNotEarly

\* An event that push queues, and whoever queued it goes on to notify.
Putting(e) ==
  /\ e \in Sent /\ e.is # "frame" /\ box.state # "Closed"
  /\ box' = Push(box, e)
  /\ UNCHANGED <<woken, view, marks>>
  /\ e.is = "size" => e.v = box.size + 1
  /\ e.is = "mode" => e.v \in {0, 1}
  /\ sounds' \in Nat /\ sounds' = IF e.is = "sound" THEN e.v ELSE sounds
  /\ protocol' \in {"runs", "notify", "closing"} /\ sounder' \in {"runs", "notify"}
  /\ e.is = "closed" <=> protocol' = "closing"
  /\ protocol' \in {"notify", "closing"} \/ sounder' = "notify"

\* A kind of event other than the one that is put is as it was in the mailbox, and of
\* the one that is put the new event is the latest.
LEMMA PushComes ==
  ASSUME NEW q, NEW r, NEW e, NEW k, Moves(q, r, e, k), NEW kind
  PROVE  /\ kind = e.is => \E i \in At(r, kind) : r[i].v = e.v
         /\ kind # e.is =>
              /\ At(q, kind) = {} <=> At(r, kind) = {}
              /\ \A v : (\E j \in At(q, kind) : q[j].v = v) => \E i \in At(r, kind) : r[i].v = v
<1>1. ASSUME kind = e.is PROVE \E i \in At(r, kind) : r[i].v = e.v
  <2>1. Len(r) \in At(r, kind) /\ r[Len(r)] = e
    BY <1>1 DEF At, Moves
  <2> QED
    BY <2>1
<1>2. ASSUME kind # e.is
      PROVE  /\ At(q, kind) = {} <=> At(r, kind) = {}
             /\ \A v : (\E j \in At(q, kind) : q[j].v = v) => \E i \in At(r, kind) : r[i].v = v
  <2>1. /\ \A i \in At(r, kind) : Old(i, k) \in At(q, kind)
        /\ \A j \in At(q, kind) : New(j, k) \in At(r, kind) /\ r[New(j, k)] = q[j]
    BY <1>2, PushAt
  <2> QED
    BY <2>1
<1> QED
  BY <1>1, <1>2

\* on_desktop_size, on_pointer_mode, on_closed and on_sound keep it: push drops at most an
\* unread event of the same kind, which the new one makes up for.
LEMMA PutKeeps ==
  ASSUME WindowHolds, NEW e, Putting(e)
  PROVE  WindowHolds'
<1> USE DEF WindowHolds, WindowInv
<1>0. /\ box \in [queue : Seq(Sent), damage : SUBSET Marks, size : Nat,
                  state : {"Connecting", "Connected", "Closed"}, relative : {0, 1}]
      /\ took \in Seq(Sent) /\ shown.size \in Nat /\ e \in Sent
  BY DEF WindowTyped, Putting
<1>1. /\ box'.damage = box.damage
      /\ box'.size = IF e.is = "size" THEN box.size + 1 ELSE box.size
      /\ box'.relative = IF e.is = "mode" THEN e.v ELSE box.relative
      /\ box'.state = "Closed" <=> e.is = "closed"
      /\ box' \in [queue : {box'.queue}, damage : SUBSET Marks, size : Nat,
                   state : {"Connecting", "Connected", "Closed"}, relative : {0, 1}]
  <2>1. /\ box' = [box EXCEPT !.queue = box'.queue,
                             !.size = IF e.is = "size" THEN e.v ELSE @,
                             !.state = CASE e.is = "closed" -> "Closed"
                                         [] e.is = "size" /\ @ = "Connecting" -> "Connected"
                                         [] OTHER -> @,
                             !.relative = IF e.is = "mode" THEN e.v ELSE @]
        /\ e.is = "size" => e.v = box.size + 1
        /\ e.is = "mode" => e.v \in {0, 1}
        /\ box.state # "Closed"
    BY <1>0 DEF Putting, Push
  <2>2. /\ box'.damage = box.damage
        /\ box'.size = IF e.is = "size" THEN e.v ELSE box.size
        /\ box'.relative = IF e.is = "mode" THEN e.v ELSE box.relative
        /\ box'.state = CASE e.is = "closed" -> "Closed"
                          [] e.is = "size" /\ box.state = "Connecting" -> "Connected"
                          [] OTHER -> box.state
        /\ box' = [queue |-> box'.queue, damage |-> box'.damage, size |-> box'.size,
                   state |-> box'.state, relative |-> box'.relative]
    BY <1>0, <2>1, Zenon
  <2>3. /\ box'.damage \in SUBSET Marks /\ box'.size \in Nat /\ box'.relative \in {0, 1}
        /\ box'.state \in {"Connecting", "Connected", "Closed"}
        /\ box'.state = "Closed" <=> e.is = "closed"
    BY <1>0, <2>1, <2>2
  <2>4. box' \in [queue : {box'.queue}, damage : SUBSET Marks, size : Nat,
                  state : {"Connecting", "Connected", "Closed"}, relative : {0, 1}]
    BY <2>2, <2>3
  <2> QED
    BY <2>1, <2>2, <2>3, <2>4
<1>2. /\ box'.queue \in Seq(Sent)
      /\ \E k \in 1..(Len(box.queue) + 1) : IsPush(box.queue, box'.queue, e, k)
  <2>1. /\ Pushes(box, e) /\ {"queue", "state"} \subseteq DOMAIN box /\ box.queue \in Seq(Sent)
        /\ \A kind \in StateKinds : \A i, j \in At(box.queue, kind) : i = j
    BY <1>0 DEF Putting, Pushes, Coalesced, OneOfAKind
  <2> QED
    BY <1>0, <2>1, PushShape DEF Putting
<1>3. PICK k : Moves(box.queue, box'.queue, e, k)
  <2>1. PICK k \in 1..(Len(box.queue) + 1) : IsPush(box.queue, box'.queue, e, k)
    BY <1>2
  <2>2. box.queue \in Seq(Sent) /\ OneOfAKind(box.queue)
    BY <1>0 DEF Coalesced
  <2>3. Moves(box.queue, box'.queue, e, k)
    BY <1>0, <1>2, <2>1, <2>2, PushMoves
  <2> QED
    BY <2>3
<1>4. /\ took' = took /\ drawn' = drawn /\ shown' = shown /\ ended' = ended
      /\ marks' = marks /\ woken' = woken /\ e.is # "frame" /\ box.state # "Closed"
  BY DEF Putting, view
<1>5. WindowTyped'
  <2>1. box' \in [queue : Seq(Sent), damage : SUBSET Marks, size : Nat,
                  state : {"Connecting", "Connected", "Closed"}, relative : {0, 1}]
    BY <1>1, <1>2
  <2> QED
    BY <1>4, <2>1 DEF WindowTyped, Putting
<1>6. Sizes'
  <2>1. box'.size \in Nat /\ box.size \in Nat /\ box.size <= box'.size /\ shown.size <= box.size
    BY <1>0, <1>1 DEF Sizes
  <2>2. Ordered(box'.queue, shown.size, box'.size)
    BY <1>0, <1>1, <1>3, <2>1, PushOrdered DEF Sizes, Putting
  <2>3. \A i \in At(took, "size") : took[i].v \in Nat
    BY <1>0, SentFacts DEF At
  <2>4. Ordered(took, shown.size, box'.size)
    BY <2>1, <2>3 DEF Sizes, Ordered
  <2>5. \A i \in At(took, "size"), j \in At(box'.queue, "size") : took[i].v < box'.queue[j].v
    <3>1. \A j \in At(box'.queue, "size") :
            \/ box'.queue[j] = e /\ e.is = "size"
            \/ \E h \in At(box.queue, "size") : box'.queue[j] = box.queue[h]
      BY <1>3, PushAt DEF StateKinds
    <3>2. e.is = "size" => e.v = box.size + 1
      BY DEF Putting
    <3> QED
      BY <2>1, <2>3, <3>1, <3>2 DEF Sizes, Ordered
  <2>6. \A m \in box'.damage : m.size <= box'.size
    <3>1. \A m \in box.damage : m.size \in Nat
      BY <1>0 DEF Marks
    <3> QED
      BY <1>1, <2>1, <3>1 DEF Sizes
  <2>7. shown.size <= box'.size
    BY <1>0, <2>1
  <2> QED
    BY <1>4, <2>2, <2>4, <2>5, <2>6, <2>7 DEF Sizes
<1>7. LatestComes'
  <2>1. \A kind :
          /\ kind = e.is => \E i \in At(box'.queue, kind) : box'.queue[i].v = e.v
          /\ kind # e.is =>
               /\ At(box.queue, kind) = {} <=> At(box'.queue, kind) = {}
               /\ \A v : (\E j \in At(box.queue, kind) : box.queue[j].v = v)
                           => \E i \in At(box'.queue, kind) : box'.queue[i].v = v
    BY <1>3, PushComes
  <2>5. ASSUME NEW kind, kind # e.is, NEW v, NEW s, Comes(kind, v, s)
        PROVE  \/ \E i \in At(box'.queue, kind) : box'.queue[i].v = v
               \/ /\ At(box'.queue, kind) = {}
                  /\ \/ \E i \in At(took, kind) : took[i].v = v
                     \/ At(took, kind) = {} /\ s = v
    BY <2>1, <2>5, Zenon DEF Comes
  <2>2. Comes("size", box.size, shown.size)'
    <3>1. Comes("size", box.size, shown.size)
      BY <1>4 DEF LatestComes
    <3>2. box'.size = IF e.is = "size" THEN e.v ELSE box.size
      BY <1>1 DEF Putting
    <3>3. CASE e.is = "size"
      <4>1. box'.size = e.v /\ \E i \in At(box'.queue, "size") : box'.queue[i].v = e.v
        BY <2>1, <3>2, <3>3, Zenon
      <4> QED
        BY <4>1, Zenon DEF Comes
    <3>4. CASE e.is # "size"
      <4>1. box'.size = box.size /\ shown'.size = shown.size
        BY <1>4, <3>2, <3>4, Zenon
      <4>2. \/ \E i \in At(box'.queue, "size") : box'.queue[i].v = box.size
            \/ /\ At(box'.queue, "size") = {}
               /\ \/ \E i \in At(took, "size") : took[i].v = box.size
                  \/ At(took, "size") = {} /\ shown.size = box.size
        BY <2>5, <3>1, <3>4, Zenon
      <4> QED
        BY <1>4, <4>1, <4>2, Zenon DEF Comes
    <3> QED
      BY <3>3, <3>4
  <2>3. Comes("mode", box.relative, shown.relative)'
    <3>1. Comes("mode", box.relative, shown.relative)
      BY <1>4 DEF LatestComes
    <3>2. box'.relative = IF e.is = "mode" THEN e.v ELSE box.relative
      BY <1>1 DEF Putting
    <3>3. CASE e.is = "mode"
      <4>1. box'.relative = e.v /\ \E i \in At(box'.queue, "mode") : box'.queue[i].v = e.v
        BY <2>1, <3>2, <3>3, Zenon
      <4> QED
        BY <4>1, Zenon DEF Comes
    <3>4. CASE e.is # "mode"
      <4>1. box'.relative = box.relative /\ shown'.relative = shown.relative
        BY <1>4, <3>2, <3>4, Zenon
      <4>2. \/ \E i \in At(box'.queue, "mode") : box'.queue[i].v = box.relative
            \/ /\ At(box'.queue, "mode") = {}
               /\ \/ \E i \in At(took, "mode") : took[i].v = box.relative
                  \/ At(took, "mode") = {} /\ shown.relative = box.relative
        BY <2>5, <3>1, <3>4, Zenon
      <4> QED
        BY <1>4, <4>1, <4>2, Zenon DEF Comes
    <3> QED
      BY <3>3, <3>4
  <2>4. Comes("sound", sounds, shown.sound)'
    <3>1. Comes("sound", sounds, shown.sound)
      BY <1>4 DEF LatestComes
    <3>2. sounds' = IF e.is = "sound" THEN e.v ELSE sounds
      BY <1>1 DEF Putting
    <3>3. CASE e.is = "sound"
      <4>1. sounds' = e.v /\ \E i \in At(box'.queue, "sound") : box'.queue[i].v = e.v
        BY <2>1, <3>2, <3>3, Zenon
      <4> QED
        BY <4>1, Zenon DEF Comes
    <3>4. CASE e.is # "sound"
      <4>1. sounds' = sounds /\ shown'.sound = shown.sound
        BY <1>4, <3>2, <3>4, Zenon
      <4>2. \/ \E i \in At(box'.queue, "sound") : box'.queue[i].v = sounds
            \/ /\ At(box'.queue, "sound") = {}
               /\ \/ \E i \in At(took, "sound") : took[i].v = sounds
                  \/ At(took, "sound") = {} /\ shown.sound = sounds
        BY <2>5, <3>1, <3>4, Zenon
      <4> QED
        BY <1>4, <4>1, <4>2, Zenon DEF Comes
    <3> QED
      BY <3>3, <3>4
  <2> QED
    BY <1>4, <2>2, <2>3, <2>4 DEF LatestComes
<1>8. NothingAfter' /\ ClosedIsLast'
  <2>1. \A i \in At(box'.queue, "closed") : e.is = "closed" /\ i = Len(box'.queue)
    <3>1. At(box.queue, "closed") = {}
      BY <1>4 DEF NothingAfter
    <3> QED
      BY <1>3, <3>1, PushAt DEF StateKinds
  <2>2. At(took, "closed") = {} /\ ~ended
    BY <1>4 DEF NothingAfter
  <2>3. box'.state = "Closed" <=> protocol' \in {"closing", "over"}
    BY <1>1 DEF Putting
  <2>4. box'.state # "Closed" => At(box'.queue, "closed") = {}
    BY <1>1, <2>1
  <2> QED
    BY <1>4, <2>1, <2>2, <2>3, <2>4 DEF NothingAfter, ClosedIsLast
<1>9. Coalesced'
  <2>1. OneOfAKind(box'.queue)
    BY <1>3, PushOne
  <2>2. Spaced(box'.queue)
    BY <1>3, <1>4, PushSpaced DEF Coalesced
  <2> QED
    BY <2>1, <2>2 DEF Coalesced
<1>10. NoLostWake'
  BY DEF NoLostWake, Putting
<1>11. NoDamageLost'
  <2>1. \A n : (\E j \in DOMAIN box.queue : Shows(box.queue[j], n))
                 => \E i \in DOMAIN box'.queue : Shows(box'.queue[i], n)
    BY <1>3, PushShows
  <2> QED
    BY <1>1, <1>4, <2>1 DEF NoDamageLost
<1>12. FramesNotEarly'
  <2>1. ASSUME NEW i \in At(box'.queue, "frame"), NEW m \in box'.queue[i].rects
        PROVE  \/ m.size <= shown.size \/ Before(took, Len(took) + 1, m.size)
               \/ Before(box'.queue, i, m.size)
    <3>1. i # Len(box'.queue)
      BY <1>3, <1>4 DEF Moves, At
    <3>2. /\ Old(i, k) \in At(box.queue, "frame") /\ box'.queue[i] = box.queue[Old(i, k)]
          /\ \A size : Before(box.queue, Old(i, k), size) => Before(box'.queue, i, size)
      BY <1>3, <3>1, PushBefore
    <3> QED
      BY <3>2 DEF FramesNotEarly
  <2> QED
    BY <1>4, <2>1 DEF FramesNotEarly
<1> QED
  BY <1>5, <1>6, <1>7, <1>8, <1>9, <1>10, <1>11, <1>12

-----------------------------------------------------------------------------
(* The window: a frame ends *)

\* r is q with the marks d in the frame at last, the one of q that they join or a new
\* one at the end; no size waits behind it.
Frames(q, r, d, last) ==
  /\ Len(q) \in Nat /\ DOMAIN q = 1..Len(q) /\ last \in Nat
  /\ DOMAIN r = DOMAIN q \cup {last}
  /\ r[last].is = "frame"
  /\ r[last].rects = d \cup (IF last \in DOMAIN q THEN q[last].rects ELSE {})
  /\ \A i \in DOMAIN q : i # last => r[i] = q[i]
  /\ last \in DOMAIN q => q[last].is = "frame"
  /\ last \notin DOMAIN q => Unread(q) = {} /\ \A i \in DOMAIN q : i < last
  /\ \A j \in At(q, "size") : j < last

\* on_frame_end does that, of a mailbox whose frames are spaced: one frame is unread.
LEMMA FrameEndShape ==
  ASSUME NEW mail, mail.queue \in Seq(Sent), mail.damage \in SUBSET Marks,
         {"queue", "damage"} \subseteq DOMAIN mail, Spaced(mail.queue)
  PROVE  /\ FrameEnd(mail).queue \in Seq(Sent)
         /\ \E last : Frames(mail.queue, FrameEnd(mail).queue, mail.damage, last)
<1> DEFINE q == mail.queue
           r == FrameEnd(mail).queue
           d == mail.damage
<1>1. /\ Len(q) \in Nat /\ DOMAIN q = 1..Len(q)
      /\ \A i \in DOMAIN q : q[i] \in Sent
  OBVIOUS
<1>2. CASE Unread(q) = {}
  <2> DEFINE e == [is |-> "frame", rects |-> d]
             last == Len(q) + 1
  <2>1. r = Append(q, e)
    BY <1>2 DEF FrameEnd
  <2>2. e \in Sent
    BY DEF Sent
  <2> HIDE DEF r
  <2>3. r \in Seq(Sent) /\ Len(r) = last /\ r[last] = e /\ \A i \in DOMAIN q : r[i] = q[i]
    BY <2>1, <2>2
  <2>4. DOMAIN r = DOMAIN q \cup {last} /\ last \notin DOMAIN q
    BY <1>1, <2>3
  <2>5. \A i \in DOMAIN q : i < last
    BY <1>1
  <2>6. Frames(q, r, d, last)
    BY <1>1, <1>2, <2>3, <2>4, <2>5 DEF Frames, At
  <2> QED
    BY <2>3, <2>6 DEF r
<1>3. CASE Unread(q) # {}
  <2>1. PICK u : u \in Unread(q)
    BY <1>3
  <2>2. \A j \in Unread(q) : j = u
    <3> SUFFICES ASSUME NEW j \in Unread(q), j # u PROVE FALSE
      OBVIOUS
    <3>1. /\ j \in At(q, "frame") /\ u \in At(q, "frame") /\ j \in Nat /\ u \in Nat
          /\ \A g \in At(q, "size") : g \in Nat /\ g < j /\ g < u
      BY <1>1, <2>1 DEF Unread, At
    <3>2. CASE j < u
      BY <3>1, <3>2 DEF Spaced
    <3>3. CASE u < j
      BY <3>1, <3>3 DEF Spaced
    <3> QED
      BY <3>1, <3>2, <3>3
  <2> DEFINE last == CHOOSE i \in Unread(q) : \A j \in Unread(q) : j <= i
  <2>3. last = u
    <3>1. u <= u
      BY <1>1, <2>1 DEF Unread, At
    <3> QED
      BY <2>1, <2>2, <3>1
  <2>4. r = [q EXCEPT ![u] = [q[u] EXCEPT !.rects = @ \cup d]]
    <3>1. FrameEnd(mail) = [mail EXCEPT !.queue[u].rects = @ \cup mail.damage, !.damage = {}]
      BY <1>3, <2>3, Zenon DEF FrameEnd
    <3> QED
      BY <3>1
  <2> HIDE DEF last, r
  <2>5. u \in 1..Len(q) /\ q[u].is = "frame" /\ \A j \in At(q, "size") : j < u
    BY <1>1, <2>1 DEF Unread, At
  <2>6. q[u] \in [is : {"frame"}, rects : SUBSET Marks]
    <3>1. q[u] \in Sent
      BY <1>1, <2>5
    <3> QED
      BY <2>5, <3>1 DEF Sent
  <2> DEFINE f == [q[u] EXCEPT !.rects = @ \cup d]
  <2>7. f \in Sent /\ f.is = "frame" /\ f.rects = d \cup q[u].rects
    <3>1. f \in [is : {"frame"}, rects : SUBSET Marks] /\ f.rects = d \cup q[u].rects
      BY <2>6
    <3> QED
      BY <3>1 DEF Sent
  <2> HIDE DEF f
  <2>8. r = [q EXCEPT ![u] = f]
    BY <2>4 DEF f
  <2>9. r \in Seq(Sent) /\ r[u] = f /\ DOMAIN r = DOMAIN q /\ \A i \in DOMAIN q : i # u => r[i] = q[i]
    BY <1>1, <2>5, <2>7, <2>8
  <2>10. Frames(q, r, d, u)
    BY <1>1, <2>5, <2>7, <2>9 DEF Frames
  <2> QED
    BY <2>9, <2>10 DEF r
<1> QED
  BY <1>2, <1>3

\* The other events stay where they were.
LEMMA FramesAt ==
  ASSUME NEW q, NEW r, NEW d, NEW last, Frames(q, r, d, last)
  PROVE  /\ \A kind : kind # "frame" =>
              At(r, kind) = At(q, kind) /\ \A i \in At(q, kind) : r[i] = q[i]
         /\ At(r, "frame") = At(q, "frame") \cup {last}
  BY DEF Frames, At

\* on_frame_end keeps it: the frame that the marks join has no size behind it, so the size
\* they were marked under comes before it or is shown.
LEMMA FrameEndKeeps ==
  ASSUME WindowHolds, OnFrameEnd
  PROVE  WindowHolds'
<1> USE DEF WindowHolds, WindowInv
<1>0. /\ box \in [queue : Seq(Sent), damage : SUBSET Marks, size : Nat,
                  state : {"Connecting", "Connected", "Closed"}, relative : {0, 1}]
      /\ took \in Seq(Sent) /\ shown.size \in Nat /\ box' = FrameEnd(box)
  BY DEF WindowTyped, OnFrameEnd
<1>1. /\ box'.damage = {} /\ box'.size = box.size /\ box'.relative = box.relative
      /\ box'.state = box.state
      /\ box' \in [queue : {box'.queue}, damage : SUBSET Marks, size : Nat,
                   state : {"Connecting", "Connected", "Closed"}, relative : {0, 1}]
  BY <1>0, Zenon DEF FrameEnd
<1>2. box'.queue \in Seq(Sent) /\ \E last : Frames(box.queue, box'.queue, box.damage, last)
  <2>1. /\ box.queue \in Seq(Sent) /\ box.damage \in SUBSET Marks
        /\ {"queue", "damage"} \subseteq DOMAIN box /\ Spaced(box.queue)
    BY <1>0 DEF Coalesced
  <2> QED
    BY <1>0, <2>1, FrameEndShape
<1>3. PICK last : Frames(box.queue, box'.queue, box.damage, last)
  BY <1>2
<1>4. /\ took' = took /\ drawn' = drawn /\ shown' = shown /\ ended' = ended /\ woken' = woken
      /\ marks' = marks /\ sounds' = sounds /\ sounder' = sounder
      /\ protocol = "runs" /\ protocol' = "notify"
  BY DEF OnFrameEnd, Running, view, counts
<1>5. /\ \A kind : kind # "frame" =>
           /\ At(box'.queue, kind) = At(box.queue, kind)
           /\ \A i \in At(box.queue, kind) : box'.queue[i] = box.queue[i]
      /\ At(box'.queue, "frame") = At(box.queue, "frame") \cup {last}
  BY <1>3, FramesAt
<1>6. WindowTyped'
  <2>1. box' \in [queue : Seq(Sent), damage : SUBSET Marks, size : Nat,
                  state : {"Connecting", "Connected", "Closed"}, relative : {0, 1}]
    BY <1>1, <1>2
  <2> QED
    BY <1>4, <2>1 DEF WindowTyped
<1>7. Sizes'
  BY <1>1, <1>4, <1>5 DEF Sizes, Ordered
<1>8. LatestComes'
  BY <1>1, <1>4, <1>5 DEF LatestComes, Comes
<1>9. NothingAfter' /\ ClosedIsLast'
  BY <1>1, <1>4, <1>5 DEF NothingAfter, ClosedIsLast
<1>10. Coalesced'
  <2>1. OneOfAKind(box'.queue)
    BY <1>5 DEF Coalesced, OneOfAKind, StateKinds
  <2>2. ASSUME NEW i \in At(box'.queue, "frame"), NEW j \in At(box'.queue, "frame"), i < j
        PROVE  \E g \in At(box'.queue, "size") : i < g /\ g < j
    <3>1. i \in Nat /\ j \in Nat /\ last \in Nat /\ \A g \in At(box.queue, "size") : g \in Nat
      BY <1>3, <1>5 DEF Frames, At
    <3>2. CASE i \in At(box.queue, "frame") /\ j \in At(box.queue, "frame")
      BY <1>5, <2>2, <3>2 DEF Coalesced, Spaced
    <3>3. CASE i \in At(box.queue, "frame") /\ j \notin At(box.queue, "frame")
      <4>1. j = last /\ last \notin DOMAIN box.queue
        BY <1>3, <1>5, <3>3 DEF Frames, At
      <4>2. PICK g \in At(box.queue, "size") : ~(g < i)
        BY <1>3, <3>3, <4>1 DEF Frames, Unread
      <4>3. g # i /\ g < last
        BY <1>3, <3>3 DEF At, Frames
      <4> QED
        BY <1>5, <3>1, <4>1, <4>2, <4>3
    <3>4. CASE i \notin At(box.queue, "frame")
      <4>1. i = last /\ last \notin DOMAIN box.queue
        BY <1>3, <1>5, <3>4 DEF Frames, At
      <4>2. j \in DOMAIN box.queue
        BY <1>5, <2>2, <3>1, <4>1 DEF At
      <4> QED
        BY <1>3, <2>2, <3>1, <4>1, <4>2 DEF Frames
    <3> QED
      BY <3>2, <3>3, <3>4
  <2> QED
    BY <2>1, <2>2 DEF Coalesced, Spaced
<1>11. NoLostWake'
  BY <1>4 DEF NoLostWake
<1>12. NoDamageLost'
  <2>1. \A n : (\E j \in DOMAIN box.queue : Shows(box.queue[j], n))
                 => \E i \in DOMAIN box'.queue : Shows(box'.queue[i], n)
    BY <1>3 DEF Shows, Frames
  <2>2. \A n : (\E m \in box.damage : m.n = n)
                 => \E i \in DOMAIN box'.queue : Shows(box'.queue[i], n)
    BY <1>3 DEF Shows, Frames
  <2> QED
    BY <1>1, <1>4, <2>1, <2>2 DEF NoDamageLost
<1>13. FramesNotEarly'
  <2>1. \A i, size : Before(box.queue, i, size) => Before(box'.queue, i, size)
    BY <1>5 DEF Before
  <2>2. ASSUME NEW m \in box.damage
        PROVE  \/ m.size <= shown.size \/ Before(took, Len(took) + 1, m.size)
               \/ Before(box'.queue, last, m.size)
    <3>1. m.size <= box.size
      BY DEF Sizes
    <3>2. CASE \E g \in At(box.queue, "size") : box.queue[g].v = box.size
      <4>1. \A g \in At(box.queue, "size") : g < last
        BY <1>3 DEF Frames
      <4> QED
        BY <1>5, <3>1, <3>2, <4>1 DEF Before
    <3>3. CASE \E g \in At(took, "size") : took[g].v = box.size
      <4>1. \A g \in At(took, "size") : g < Len(took) + 1
        BY <1>0 DEF At
      <4> QED
        BY <3>1, <3>3, <4>1 DEF Before
    <3> QED
      BY <3>1, <3>2, <3>3 DEF LatestComes, Comes
  <2>3. ASSUME NEW i \in At(box'.queue, "frame"), NEW m \in box'.queue[i].rects
        PROVE  \/ m.size <= shown.size \/ Before(took, Len(took) + 1, m.size)
               \/ Before(box'.queue, i, m.size)
    <3>1. CASE i \in At(box.queue, "frame") /\ m \in box.queue[i].rects
      BY <2>1, <3>1 DEF FramesNotEarly
    <3>2. CASE i = last /\ m \in box.damage
      BY <2>2, <3>2
    <3>3. \/ i \in At(box.queue, "frame") /\ m \in box.queue[i].rects
          \/ i = last /\ m \in box.damage
      BY <1>3, <1>5, <2>3 DEF Frames, At
    <3> QED
      BY <3>1, <3>2, <3>3
  <2> QED
    BY <1>4, <2>3 DEF FramesNotEarly
<1> QED
  BY <1>6, <1>7, <1>8, <1>9, <1>10, <1>11, <1>12, <1>13

-----------------------------------------------------------------------------
(* The window: an event is handled *)

\* u is t without its first event, e.
Drops(t, u, e) ==
  /\ Len(t) \in Nat \ {0} /\ Len(u) = Len(t) - 1
  /\ DOMAIN t = 1..Len(t) /\ DOMAIN u = 1..Len(u)
  /\ e = t[1]
  /\ \A i \in 1..Len(u) : u[i] = t[i + 1]

\* The events behind the first keep their order.
LEMMA DropAt ==
  ASSUME NEW t, NEW u, NEW e, Drops(t, u, e), NEW kind
  PROVE  /\ \A i \in At(u, kind) : i \in 1..Len(u) /\ i + 1 \in At(t, kind) /\ u[i] = t[i + 1]
         /\ \A j \in At(t, kind) :
              \/ j = 1 /\ e.is = kind
              \/ j \in Nat /\ j > 1 /\ j - 1 \in At(u, kind) /\ u[j - 1] = t[j]
         /\ e.is = kind => 1 \in At(t, kind)
<1> USE DEF Drops
<1>1. \A i \in At(u, kind) : i \in 1..Len(u) /\ i + 1 \in At(t, kind) /\ u[i] = t[i + 1]
  BY DEF At
<1>2. ASSUME NEW j \in At(t, kind), j # 1
      PROVE  j \in Nat /\ j > 1 /\ j - 1 \in At(u, kind) /\ u[j - 1] = t[j]
  <2>1. j \in 1..Len(t) /\ j - 1 \in 1..Len(u) /\ (j - 1) + 1 = j
    BY <1>2 DEF At
  <2>2. u[j - 1] = t[j] /\ t[j].is = kind
    BY <2>1 DEF At
  <2> QED
    BY <1>2, <2>1, <2>2 DEF At
<1>3. \A j \in At(t, kind) : j = 1 => e.is = kind
  BY DEF At
<1>4. e.is = kind => 1 \in At(t, kind)
  BY DEF At
<1> QED
  BY <1>1, <1>2, <1>3, <1>4

\* A size that came before is still to come, or is the one handled.
LEMMA DropBefore ==
  ASSUME NEW t, NEW u, NEW e, Drops(t, u, e), NEW i \in Nat, NEW size,
         Before(t, i + 1, size)
  PROVE  (e.is = "size" /\ size <= e.v) \/ Before(u, i, size)
<1>1. PICK j \in At(t, "size") : j < i + 1 /\ size <= t[j].v
  BY DEF Before
<1>2. \/ j = 1 /\ e.is = "size"
      \/ j \in Nat /\ j > 1 /\ j - 1 \in At(u, "size") /\ u[j - 1] = t[j]
  BY DropAt
<1>3. CASE j = 1 /\ e.is = "size"
  BY <1>1, <1>3 DEF Drops
<1>4. CASE j \in Nat /\ j > 1 /\ j - 1 \in At(u, "size") /\ u[j - 1] = t[j]
  <2>1. j - 1 < i /\ size <= u[j - 1].v
    BY <1>1, <1>4
  <2> QED
    BY <1>4, <2>1 DEF Before
<1> QED
  BY <1>2, <1>3, <1>4

\* drain's loop keeps it, whatever event it handles: a size draws all, and the sizes
\* behind it are newer.
LEMMA HandleKeeps ==
  ASSUME WindowHolds, Handle
  PROVE  WindowHolds'
<1> USE DEF WindowHolds, WindowInv
<1> DEFINE e == Head(took)
<1>0. /\ box.size \in Nat /\ box.relative \in Nat /\ took \in Seq(Sent)
      /\ shown \in [size : Nat, relative : Nat, sound : Nat] /\ marks \in Nat
      /\ took # <<>> /\ took' = Tail(took)
  BY DEF WindowTyped, Handle
<1>1. Drops(took, took', e) /\ e \in Sent /\ took' \in Seq(Sent)
  BY <1>0 DEF Drops
<1>2. /\ box' = box /\ protocol' = protocol /\ sounder' = sounder /\ woken' = woken
      /\ marks' = marks /\ sounds' = sounds
  BY DEF Handle, counts
<1>3. /\ e.is \in {"size", "mode", "sound", "closed", "frame"}
      /\ e.is # "frame" => e.v \in Nat
      /\ e.is = "frame" => e.rects \in SUBSET Marks
  BY <1>1, SentFacts
<1> HIDE DEF e
<1>4. /\ shown' = CASE e.is = "size" -> [shown EXCEPT !.size = e.v, !.relative = box.relative]
                    [] e.is = "mode" -> [shown EXCEPT !.relative = e.v]
                    [] e.is = "sound" -> [shown EXCEPT !.sound = e.v]
                    [] OTHER -> shown
      /\ drawn \subseteq drawn'
      /\ e.is = "size" => 1..marks \subseteq drawn'
      /\ e.is = "frame" => \A m \in e.rects : m.n \in drawn'
      /\ e.is = "closed" => ended' = TRUE
      /\ e.is # "closed" => ended' = ended
  BY <1>3, Zenon DEF Handle, e
<1>5. /\ shown' \in [size : Nat, relative : Nat, sound : Nat]
      /\ shown'.size = IF e.is = "size" THEN e.v ELSE shown.size
      /\ shown'.relative = CASE e.is = "size" -> box.relative [] e.is = "mode" -> e.v
                             [] OTHER -> shown.relative
      /\ shown'.sound = IF e.is = "sound" THEN e.v ELSE shown.sound
  BY <1>0, <1>3, <1>4, Zenon
<1>6. \A kind :
        /\ \A i \in At(took', kind) :
             i \in 1..Len(took') /\ i + 1 \in At(took, kind) /\ took'[i] = took[i + 1]
        /\ \A j \in At(took, kind) :
             \/ j = 1 /\ e.is = kind
             \/ j \in Nat /\ j > 1 /\ j - 1 \in At(took', kind) /\ took'[j - 1] = took[j]
        /\ e.is = kind => 1 \in At(took, kind)
  BY <1>1, DropAt
<1>7. took[1] = e /\ Len(took) \in Nat \ {0} /\ Len(took') = Len(took) - 1
  BY <1>1 DEF Drops
<1>8. /\ \A i \in At(took, "size") : took[i].v \in Nat
      /\ \A i \in At(box.queue, "size") : box.queue[i].v \in Nat
  BY SentFacts DEF At, WindowTyped
<1>9. shown.size <= shown'.size
  BY <1>0, <1>3, <1>5, <1>6, <1>7 DEF Sizes, Ordered
<1>10. WindowTyped'
  BY <1>1, <1>2, <1>4, <1>5, Zenon DEF WindowTyped
<1>11. Sizes'
  <2>1. \A i \in At(took', "size") : shown'.size < took'[i].v /\ took'[i].v <= box.size
    <3> SUFFICES ASSUME NEW i \in At(took', "size")
                 PROVE  shown'.size < took'[i].v /\ took'[i].v <= box.size
      OBVIOUS
    <3>1. i \in 1..Len(took') /\ i + 1 \in At(took, "size") /\ took'[i] = took[i + 1]
      BY <1>6
    <3>2. e.is = "size" => e.v < took[i + 1].v
      <4>1. 1 < i + 1
        BY <1>7, <3>1
      <4> QED
        BY <1>6, <1>7, <3>1, <4>1 DEF Sizes, Ordered
    <3> QED
      BY <1>5, <3>1, <3>2 DEF Sizes, Ordered
  <2>2. \A i, j \in At(took', "size") : i < j => took'[i].v < took'[j].v
    <3> SUFFICES ASSUME NEW i \in At(took', "size"), NEW j \in At(took', "size"), i < j
                 PROVE  took'[i].v < took'[j].v
      OBVIOUS
    <3>1. /\ i \in 1..Len(took') /\ i + 1 \in At(took, "size") /\ took'[i] = took[i + 1]
          /\ j \in 1..Len(took') /\ j + 1 \in At(took, "size") /\ took'[j] = took[j + 1]
      BY <1>6
    <3>2. i + 1 < j + 1
      BY <1>7, <3>1
    <3> QED
      BY <3>1, <3>2 DEF Sizes, Ordered
  <2>3. \A i \in At(box.queue, "size") : shown'.size < box.queue[i].v
    BY <1>5, <1>6, <1>7 DEF Sizes, Ordered
  <2>4. \A i \in At(took', "size"), j \in At(box.queue, "size") : took'[i].v < box.queue[j].v
    BY <1>6 DEF Sizes
  <2>5. shown'.size <= box.size
    BY <1>5, <1>6, <1>7 DEF Sizes, Ordered
  <2> QED
    BY <1>2, <2>1, <2>2, <2>3, <2>4, <2>5 DEF Sizes, Ordered
<1>12. OneOfAKind(took')
  <2> SUFFICES ASSUME NEW kind \in StateKinds, NEW i \in At(took', kind), NEW j \in At(took', kind)
               PROVE  i = j
    BY DEF OneOfAKind
  <2>1. i + 1 \in At(took, kind) /\ j + 1 \in At(took, kind)
        /\ i \in 1..Len(took') /\ j \in 1..Len(took')
    BY <1>6
  <2>2. i + 1 = j + 1
    BY <2>1 DEF LatestComes, OneOfAKind
  <2> QED
    BY <1>7, <2>1, <2>2
<1>13. \A kind \in StateKinds : e.is = kind => At(took', kind) = {}
  <2> SUFFICES ASSUME NEW kind \in StateKinds, e.is = kind, NEW i \in At(took', kind)
               PROVE  FALSE
    OBVIOUS
  <2>1. 1 \in At(took, kind) /\ i + 1 \in At(took, kind) /\ i \in 1..Len(took')
    BY <1>6
  <2>2. i + 1 = 1
    BY <2>1 DEF LatestComes, OneOfAKind
  <2> QED
    BY <1>7, <2>1, <2>2
<1>14. LatestComes'
  <2>1. ASSUME NEW kind, NEW v, NEW a, NEW b,
               Comes(kind, v, a),
               e.is = kind /\ e.v = v => At(took', kind) = {} /\ b = v,
               e.is # kind /\ a = v => b = v
        PROVE  \/ \E i \in At(box.queue, kind) : box.queue[i].v = v
               \/ /\ At(box.queue, kind) = {}
                  /\ \/ \E i \in At(took', kind) : took'[i].v = v
                     \/ At(took', kind) = {} /\ b = v
    <3>1. CASE \E i \in At(took, kind) : took[i].v = v
      <4>1. PICK i \in At(took, kind) : took[i].v = v
        BY <3>1
      <4>2. CASE i = 1 /\ e.is = kind
        BY <1>7, <2>1, <4>1, <4>2 DEF Comes
      <4>3. CASE i - 1 \in At(took', kind) /\ took'[i - 1] = took[i]
        BY <2>1, <4>1, <4>3 DEF Comes
      <4> QED
        BY <1>6, <4>2, <4>3
    <3>2. CASE At(took, kind) = {} /\ a = v
      <4>1. At(took', kind) = {} /\ e.is # kind
        BY <1>6, <3>2
      <4> QED
        BY <2>1, <3>2, <4>1 DEF Comes
    <3> QED
      BY <2>1, <3>1, <3>2 DEF Comes
  <2>2. Comes("size", box.size, shown.size)'
    <3>1. ASSUME e.is = "size", e.v = box.size PROVE At(took', "size") = {}
      <4> SUFFICES ASSUME NEW i \in At(took', "size") PROVE FALSE
        OBVIOUS
      <4>1. 1 \in At(took, "size") /\ i + 1 \in At(took, "size") /\ i \in 1..Len(took')
        BY <1>6, <3>1
      <4>2. 1 < i + 1
        BY <1>7, <4>1
      <4>3. took[1].v < took[i + 1].v /\ took[i + 1].v <= box.size
        BY <4>1, <4>2 DEF Sizes, Ordered
      <4> QED
        BY <1>0, <1>7, <1>8, <3>1, <4>1, <4>3
    <3>2. Comes("size", box.size, shown.size)
      BY DEF LatestComes
    <3>3. /\ e.is = "size" /\ e.v = box.size => At(took', "size") = {} /\ shown'.size = box.size
          /\ e.is # "size" /\ shown.size = box.size => shown'.size = box.size
      BY <1>5, <3>1
    <3>4. \/ \E i \in At(box.queue, "size") : box.queue[i].v = box.size
          \/ /\ At(box.queue, "size") = {}
             /\ \/ \E i \in At(took', "size") : took'[i].v = box.size
                \/ At(took', "size") = {} /\ shown'.size = box.size
      BY <2>1, <3>2, <3>3, Zenon
    <3> QED
      BY <1>2, <3>4, Zenon DEF Comes
  <2>3. Comes("mode", box.relative, shown.relative)'
    <3>1. Comes("mode", box.relative, shown.relative)
      BY DEF LatestComes
    <3>2. /\ e.is = "mode" /\ e.v = box.relative
               => At(took', "mode") = {} /\ shown'.relative = box.relative
          /\ e.is # "mode" /\ shown.relative = box.relative => shown'.relative = box.relative
      BY <1>3, <1>5, <1>13 DEF StateKinds
    <3>3. \/ \E i \in At(box.queue, "mode") : box.queue[i].v = box.relative
          \/ /\ At(box.queue, "mode") = {}
             /\ \/ \E i \in At(took', "mode") : took'[i].v = box.relative
                \/ At(took', "mode") = {} /\ shown'.relative = box.relative
      BY <2>1, <3>1, <3>2, Zenon
    <3> QED
      BY <1>2, <3>3, Zenon DEF Comes
  <2>4. (box.state # "Closed" => Comes("sound", sounds, shown.sound))'
    <3>1. box.state # "Closed" => Comes("sound", sounds, shown.sound)
      BY DEF LatestComes
    <3>2. /\ e.is = "sound" /\ e.v = sounds => At(took', "sound") = {} /\ shown'.sound = sounds
          /\ e.is # "sound" /\ shown.sound = sounds => shown'.sound = sounds
      BY <1>5, <1>13 DEF StateKinds
    <3>3. box.state # "Closed" =>
            \/ \E i \in At(box.queue, "sound") : box.queue[i].v = sounds
            \/ /\ At(box.queue, "sound") = {}
               /\ \/ \E i \in At(took', "sound") : took'[i].v = sounds
                  \/ At(took', "sound") = {} /\ shown'.sound = sounds
      BY <2>1, <3>1, <3>2, Zenon
    <3> QED
      BY <1>2, <3>3, Zenon DEF Comes
  <2> QED
    BY <1>12, <2>2, <2>3, <2>4 DEF LatestComes
<1>15. NothingAfter'
  BY <1>2, <1>4, <1>6 DEF NothingAfter
<1>16. ClosedIsLast'
  <2>1. ASSUME NEW i \in At(took', "closed") PROVE i = Len(took') /\ box.queue = <<>>
    <3>1. i + 1 \in At(took, "closed") /\ i \in 1..Len(took')
      BY <1>6
    <3>2. i + 1 = Len(took) /\ box.queue = <<>>
      BY <3>1 DEF ClosedIsLast
    <3> QED
      BY <1>7, <3>1, <3>2
  <2>2. 1 = Len(took) => took' = <<>>
    <3>1. ASSUME NEW t, NEW u \in Seq(Sent), Len(t) = 1, Len(u) = Len(t) - 1 PROVE u = <<>>
      BY <3>1
    <3> QED
      BY <1>1, <1>7, <3>1, Zenon
  <2>3. ASSUME ended' PROVE took' = <<>> /\ box.queue = <<>>
    <3>1. e.is = "closed"
      BY <1>0, <1>4, <2>3, Zenon DEF ClosedIsLast, Quiet
    <3>2. 1 = Len(took) /\ box.queue = <<>>
      BY <1>6, <3>1, Zenon DEF ClosedIsLast
    <3> QED
      BY <2>2, <3>2, Zenon
  <2> QED
    BY <1>2, <2>1, <2>3, Zenon DEF ClosedIsLast, Quiet
<1>17. Coalesced' /\ NoLostWake'
  BY <1>2 DEF Coalesced, NoLostWake
<1>18. NoDamageLost'
  <2>1. ASSUME NEW n \in 1..marks, NEW i \in DOMAIN took, Shows(took[i], n)
        PROVE  n \in drawn' \/ \E j \in DOMAIN took' : Shows(took'[j], n)
    <3>1. CASE i = 1
      BY <1>4, <1>7, <2>1, <3>1 DEF Shows
    <3>2. CASE i # 1
      <4>1. i \in 1..Len(took) /\ i - 1 \in 1..Len(took') /\ (i - 1) + 1 = i
        BY <1>1, <1>7, <3>2 DEF Drops
      <4>2. i - 1 \in DOMAIN took' /\ took'[i - 1] = took[i]
        BY <1>1, <4>1 DEF Drops
      <4> QED
        BY <2>1, <4>2
    <3> QED
      BY <3>1, <3>2
  <2> QED
    BY <1>2, <1>4, <2>1 DEF NoDamageLost
<1>19. FramesNotEarly'
  <2>1. ASSUME NEW i \in Nat, NEW size \in Nat,
               size <= shown.size \/ Before(took, i + 1, size)
        PROVE  size <= shown'.size \/ Before(took', i, size)
    <3>1. CASE size <= shown.size
      BY <1>0, <1>5, <1>9, <3>1
    <3>2. CASE Before(took, i + 1, size)
      <4>1. (e.is = "size" /\ size <= e.v) \/ Before(took', i, size)
        BY <1>1, <3>2, DropBefore
      <4> QED
        BY <1>5, <4>1
    <3> QED
      BY <2>1, <3>1, <3>2
  <2>2. ASSUME NEW i \in At(took', "frame"), NEW m \in took'[i].rects
        PROVE  m.size <= shown'.size \/ Before(took', i, m.size)
    <3>1. i \in 1..Len(took') /\ i + 1 \in At(took, "frame") /\ took'[i] = took[i + 1]
      BY <1>6
    <3>2. m.size \in Nat
      <4>1. took[i + 1] \in Sent /\ took[i + 1].is = "frame"
        BY <1>0, <3>1 DEF At
      <4>2. m \in Marks
        BY <2>2, <3>1, <4>1, SentFacts
      <4> QED
        BY <4>2 DEF Marks
    <3>3. m.size <= shown.size \/ Before(took, i + 1, m.size)
      BY <2>2, <3>1 DEF FramesNotEarly
    <3> QED
      BY <1>7, <2>1, <3>1, <3>2, <3>3
  <2>3. ASSUME NEW i \in At(box.queue, "frame"), NEW m \in box.queue[i].rects
        PROVE  \/ m.size <= shown'.size \/ Before(took', Len(took') + 1, m.size)
               \/ Before(box.queue, i, m.size)
    <3>1. m.size \in Nat
      <4>1. box.queue[i] \in Sent /\ box.queue[i].is = "frame"
        BY DEF At, WindowTyped
      <4>2. m \in Marks
        BY <2>3, <4>1, SentFacts
      <4> QED
        BY <4>2 DEF Marks
    <3>2. \/ m.size <= shown.size \/ Before(took, Len(took) + 1, m.size)
          \/ Before(box.queue, i, m.size)
      BY <2>3 DEF FramesNotEarly
    <3>3. Len(took) \in Nat /\ Len(took') + 1 = Len(took)
      BY <1>7
    <3> QED
      BY <2>1, <3>1, <3>2, <3>3
  <2> QED
    BY <1>2, <2>2, <2>3 DEF FramesNotEarly
<1> QED
  BY <1>10, <1>11, <1>14, <1>15, <1>16, <1>17, <1>18, <1>19

-----------------------------------------------------------------------------
(* The window: the other steps *)

\* drain takes all that waits, when the window has handled what it took before.
LEMMA RedrawKeeps ==
  ASSUME WindowHolds, Redraw
  PROVE  WindowHolds'
<1> USE DEF WindowHolds, WindowInv
<1>1. /\ took = <<>> /\ took' = box.queue /\ box'.queue = <<>>
      /\ box'.damage = box.damage /\ box'.size = box.size /\ box'.relative = box.relative
      /\ box'.state = box.state
  BY Zenon DEF WindowTyped, Redraw, TakeAll
<1>0. /\ box' \in [queue : Seq(Sent), damage : SUBSET Marks, size : Nat,
                   state : {"Connecting", "Connected", "Closed"}, relative : {0, 1}]
      /\ box.queue \in Seq(Sent)
  BY Zenon DEF WindowTyped, Redraw, TakeAll
<1>2. /\ protocol' = protocol /\ sounder' = sounder /\ drawn' = drawn /\ shown' = shown
      /\ ended' = ended /\ marks' = marks /\ sounds' = sounds /\ woken' = FALSE
  BY DEF Redraw, counts
<1>3. \A kind : At(<<>>, kind) = {}
  BY DEF At
<1>4. \A kind : At(took, kind) = {} /\ At(box'.queue, kind) = {}
  BY <1>1, <1>3
<1>5. WindowTyped'
  BY <1>0, <1>1, <1>2, Zenon DEF WindowTyped
<1>6. Sizes'
  BY <1>1, <1>2, <1>4 DEF Sizes, Ordered
<1>7. LatestComes'
  BY <1>1, <1>2, <1>4 DEF LatestComes, Comes, Coalesced
<1>8. NothingAfter' /\ ClosedIsLast'
  BY <1>1, <1>2, <1>4 DEF NothingAfter, ClosedIsLast, Quiet
<1>9. Coalesced' /\ NoLostWake'
  BY <1>1, <1>4 DEF Coalesced, OneOfAKind, Spaced, NoLostWake
<1>10. NoDamageLost'
  <2>1. DOMAIN took = {}
    BY <1>1
  <2> QED
    BY <1>1, <1>2, <2>1 DEF NoDamageLost
<1>11. FramesNotEarly'
  BY <1>1, <1>2, <1>4 DEF FramesNotEarly, Before
<1> QED
  BY <1>5, <1>6, <1>7, <1>8, <1>9, <1>10, <1>11

\* on_damaged marks under the size announced.
LEMMA DamagedKeeps ==
  ASSUME WindowHolds, OnDamaged
  PROVE  WindowHolds'
<1> USE DEF WindowHolds, WindowInv
<1> DEFINE mark == [n |-> marks + 1, size |-> box.size]
<1>1. /\ box'.damage = box.damage \cup {mark} /\ mark \in Marks
      /\ box'.size = box.size /\ box'.relative = box.relative
      /\ box'.queue = box.queue /\ box'.state = box.state
      /\ box' \in [queue : Seq(Sent), damage : SUBSET Marks, size : Nat,
                   state : {"Connecting", "Connected", "Closed"}, relative : {0, 1}]
  <2>1. /\ box \in [queue : Seq(Sent), damage : SUBSET Marks, size : Nat,
                    state : {"Connecting", "Connected", "Closed"}, relative : {0, 1}]
        /\ marks \in Nat /\ box' = [box EXCEPT !.damage = box.damage \cup {mark}]
    BY Zenon DEF WindowTyped, OnDamaged, Damaged
  <2>2. mark \in Marks
    BY <2>1 DEF Marks
  <2> HIDE DEF mark
  <2>3. box.damage \cup {mark} \in SUBSET Marks
    BY <2>1, <2>2
  <2> QED
    BY <2>1, <2>2, <2>3
<1>2. /\ took' = took /\ drawn' = drawn /\ shown' = shown /\ ended' = ended /\ woken' = woken
      /\ protocol' = protocol /\ sounder' = sounder /\ sounds' = sounds
      /\ marks \in Nat /\ marks' = marks + 1 /\ box.size \in Nat
  BY DEF WindowTyped, OnDamaged, view
<1>3. WindowTyped'
  BY <1>1, <1>2 DEF WindowTyped
<1>4. Sizes'
  <2>1. /\ box'.size = box.size /\ box'.queue = box.queue /\ box'.damage = box.damage \cup {mark}
        /\ took' = took /\ shown' = shown /\ mark.size <= box.size
    BY <1>1, <1>2
  <2> HIDE DEF mark
  <2> QED
    BY <2>1 DEF Sizes
<1>5. LatestComes'
  BY <1>1, <1>2, Zenon DEF LatestComes, Comes
<1>9. NothingAfter'
  BY <1>1, <1>2, Zenon DEF NothingAfter
<1>8. ClosedIsLast' /\ Coalesced' /\ NoLostWake'
  BY <1>1, <1>2, Zenon DEF ClosedIsLast, Quiet, Coalesced, NoLostWake
<1>6. NoDamageLost'
  <2>1. mark.n = marks + 1 /\ mark \in box'.damage
    BY <1>1
  <2>2. \A n \in 1..(marks + 1) : n \in 1..marks \/ n = marks + 1
    BY <1>2
  <2> QED
    BY <1>1, <1>2, <2>1, <2>2 DEF NoDamageLost
<1>7. FramesNotEarly'
  BY <1>1, <1>2 DEF FramesNotEarly
<1> QED
  BY <1>3, <1>4, <1>5, <1>6, <1>7, <1>8, <1>9

\* A new mailbox, and a window that shows nothing.
LEMMA WindowInitHolds == WindowInit => WindowHolds
<1> SUFFICES ASSUME WindowInit PROVE WindowHolds
  OBVIOUS
<1>1. /\ box = [queue |-> <<>>, damage |-> {}, size |-> 0, state |-> "Connecting", relative |-> 0]
      /\ took = <<>> /\ shown = [size |-> 0, relative |-> 0, sound |-> 0]
      /\ protocol = "runs" /\ sounder = "runs" /\ woken = FALSE /\ ended = FALSE
      /\ marks = 0 /\ sounds = 0
  BY DEF WindowInit, NewMailbox
<1>2. box.queue = <<>> /\ box.damage = {} /\ \A kind : At(<<>>, kind) = {}
  BY <1>1 DEF At
<1>3. WindowTyped
  <2>1. <<>> \in Seq(Sent) /\ {} \in SUBSET Marks
    OBVIOUS
  <2>2. /\ box \in [queue : Seq(Sent), damage : SUBSET Marks, size : Nat,
                    state : {"Connecting", "Connected", "Closed"}, relative : {0, 1}]
        /\ shown \in [size : Nat, relative : Nat, sound : Nat]
    BY <1>1, <2>1
  <2> QED
    BY <1>1, <2>1, <2>2, Zenon DEF WindowTyped
<1>4. Sizes /\ LatestComes /\ NothingAfter
  BY <1>1, <1>2 DEF Sizes, Ordered, LatestComes, OneOfAKind, Comes, NothingAfter
<1>5. NoLostWake /\ ClosedIsLast /\ Coalesced /\ FramesNotEarly
  BY <1>1, <1>2 DEF NoLostWake, ClosedIsLast, Coalesced, OneOfAKind, Spaced, FramesNotEarly
<1>6. NoDamageLost
  BY <1>1 DEF NoDamageLost
<1> QED
  BY <1>3, <1>4, <1>5, <1>6 DEF WindowHolds, WindowInv

\* Every step of the threads that report and of the window's keeps it.
LEMMA WindowNextHolds == WindowHolds /\ [WindowNext]_window => WindowHolds'
<1> SUFFICES ASSUME WindowHolds, [WindowNext]_window PROVE WindowHolds'
  OBVIOUS
<1>0. /\ box.size \in Nat /\ box.relative \in {0, 1} /\ sounds \in Nat
      /\ protocol \in {"runs", "notify", "closing", "over"} /\ sounder \in {"runs", "notify"}
      /\ box.state = "Closed" <=> protocol \in {"closing", "over"}
  BY DEF WindowHolds, WindowInv, WindowTyped, NothingAfter
<1>1. CASE OnSize
  <2>1. Putting([is |-> "size", v |-> box.size + 1])
    BY <1>0, <1>1 DEF OnSize, Running, Putting, Sent, counts
  <2> QED
    BY <2>1, PutKeeps
<1>2. CASE OnMode
  <2>1. Putting([is |-> "mode", v |-> 1 - box.relative])
    BY <1>0, <1>2 DEF OnMode, Running, Putting, Sent
  <2> QED
    BY <2>1, PutKeeps
<1>3. CASE OnClosed
  <2>1. Putting([is |-> "closed", v |-> 0])
    BY <1>0, <1>3 DEF OnClosed, Running, Putting, Sent, counts
  <2> QED
    BY <2>1, PutKeeps
<1>4. CASE OnSound /\ box.state # "Closed"
  <2>1. Putting([is |-> "sound", v |-> sounds + 1])
    BY <1>0, <1>4 DEF OnSound, Putting, Pushes, Sent
  <2> QED
    BY <2>1, PutKeeps
<1>5. CASE OnSound /\ box.state = "Closed"
  <2>1. /\ box' = box /\ protocol' = protocol /\ woken' = woken /\ UNCHANGED view
        /\ marks' = marks /\ sounds' = sounds + 1 /\ sounder = "runs" /\ sounder' = "runs"
    BY <1>5 DEF OnSound, Push, Pushes
  <2>5. sounds' \in Nat
    BY <1>0, <2>1
  <2>2. WindowTyped' /\ Sizes' /\ NothingAfter' /\ NoLostWake'
    BY <2>1, <2>5, Zenon
    DEF WindowHolds, WindowInv, WindowTyped, Sizes, NothingAfter, NoLostWake, view
  <2>3. LatestComes'
    BY <1>5, <2>1 DEF WindowHolds, WindowInv, LatestComes, Comes, view
  <2>4. ClosedIsLast' /\ Coalesced' /\ NoDamageLost' /\ FramesNotEarly'
    BY <2>1, Zenon
    DEF WindowHolds, ClosedIsLast, Quiet, Coalesced, NoDamageLost, FramesNotEarly, view
  <2> QED
    BY <2>2, <2>3, <2>4 DEF WindowHolds, WindowInv
<1>6. CASE OnDamaged
  BY <1>6, DamagedKeeps
<1>7. CASE OnFrameEnd
  BY <1>7, FrameEndKeeps
<1>8. CASE Redraw
  BY <1>8, RedrawKeeps
<1>9. CASE Handle
  BY <1>9, HandleKeeps
<1>10. CASE Notify \/ NotifySound \/ UNCHANGED window
  <2>1. /\ box' = box /\ UNCHANGED view /\ marks' = marks /\ sounds' = sounds
        /\ woken' \in BOOLEAN
        /\ protocol' \in {"runs", "notify", "closing", "over"} /\ sounder' \in {"runs", "notify"}
        /\ protocol' \in {"closing", "over"} <=> protocol \in {"closing", "over"}
        /\ \/ woken' = TRUE
           \/ woken' = woken /\ protocol' = protocol /\ sounder' = sounder
    BY <1>0, <1>10, Zenon
    DEF Notify, NotifySound, window, view, counts, WindowHolds, WindowInv, WindowTyped
  <2>2. WindowTyped' /\ Sizes' /\ NothingAfter' /\ NoLostWake'
    BY <2>1
    DEF WindowHolds, WindowInv, WindowTyped, Sizes, NothingAfter, NoLostWake, view
  <2>3. LatestComes'
    BY <2>1, Zenon DEF WindowHolds, WindowInv, LatestComes, Comes, view
  <2>4. ClosedIsLast' /\ Coalesced' /\ NoDamageLost' /\ FramesNotEarly'
    BY <2>1, Zenon
    DEF WindowHolds, ClosedIsLast, Quiet, Coalesced, NoDamageLost, FramesNotEarly, view
  <2> QED
    BY <2>2, <2>3, <2>4 DEF WindowHolds, WindowInv
<1> QED
  BY <1>1, <1>2, <1>3, <1>4, <1>5, <1>6, <1>7, <1>8, <1>9, <1>10 DEF WindowNext

\* So it holds throughout.
LEMMA WindowAlways == WindowSpec => []WindowHolds
  BY WindowInitHolds, WindowNextHolds, PTL DEF WindowSpec

\* push, notify and drain, for any number of sizes, marks, modes and sounds: the Linux
\* window is never left with events and no redraw, shows the latest of everything once
\* it has handled what it was sent, and hears of the end last.
THEOREM WindowCatchesUpHolds == WindowSpec => []WindowCatchesUp
<1>1. WindowHolds => CaughtUp
  <2> SUFFICES ASSUME WindowHolds, Quiet PROVE
        /\ shown.size = box.size /\ shown.relative = box.relative
        /\ box.state # "Closed" => shown.sound = sounds
    BY DEF CaughtUp
  <2>1. \A kind : At(took, kind) = {} /\ At(box.queue, kind) = {}
    BY DEF Quiet, At
  <2> QED
    BY <2>1 DEF WindowHolds, WindowInv, LatestComes, Comes
<1>2. WindowHolds => WindowCatchesUp
  BY <1>1 DEF WindowHolds, WindowCatchesUp
<1> QED
  BY <1>2, WindowAlways, PTL

\* on_damaged and on_frame_end, for any number of marks and sizes: a mark whose frame
\* has ended is drawn or waits in what will draw it, and no frame is handled before the
\* size it was marked under.
THEOREM DamageIsDrawnHolds == WindowSpec => []DamageIsDrawn
<1>1. WindowHolds => DamageIsDrawn
  BY DEF WindowHolds, DamageIsDrawn
<1> QED
  BY <1>1, WindowAlways, PTL
=============================================================================
