------------------------------- MODULE Mailbox -------------------------------
(***************************************************************************)
(* backends/api/src/events.rs: the queue a session reports its events      *)
(* through.  Every operation runs under the mailbox's mutex, so each is one *)
(* function from a mailbox to a mailbox; the notify that follows, outside  *)
(* the mutex, is a step of whoever called.                                 *)
(*                                                                         *)
(* An event is [is, v]: "size" is Connected and DesktopSize; "mode" stands *)
(* for the state events of the protocol's thread (Cursor, PointerMode,     *)
(* Clipboard); "sound" for the two that other threads put (Sound, Status); *)
(* "bell" for the occurrences (Bell, and the questions).  A frame is       *)
(* [is, rects], and its rectangles are a set: what Damage::add makes of    *)
(* them covers the same pixels.                                            *)
(***************************************************************************)
EXTENDS Integers, Sequences

StateKinds == {"mode", "sound"}
NewMailbox == [queue |-> <<>>, damage |-> {}, size |-> 0, state |-> "Connecting", relative |-> 0]

At(q, kind) == {i \in DOMAIN q : q[i].is = kind}
First(q, kind) == CHOOSE i \in At(q, kind) : \A j \in At(q, kind) : i <= j
WithoutFirst(q, kind) ==
  SubSeq(q, 1, First(q, kind) - 1) \o SubSeq(q, First(q, kind) + 1, Len(q))

\* Mutant: the last unread event of a kind is dropped only from the end.
SupersedeAtBack(q, e) ==
  IF e.is \in StateKinds /\ q # <<>> /\ q[Len(q)].is = e.is
  THEN SubSeq(q, 1, Len(q) - 1) ELSE q

\* An unread state event is superseded by the next of its kind.
Supersede(q, e) ==
  IF e.is \in StateKinds /\ At(q, e.is) # {} THEN WithoutFirst(q, e.is) ELSE q

\* Mutant: a sound is not held back by the end.
PushAlways(mb, e) ==
  [mb EXCEPT !.queue = Append(Supersede(@, e), e),
             !.size = IF e.is = "size" THEN e.v ELSE @,
             !.state = CASE e.is = "closed" -> "Closed"
                         [] e.is = "size" /\ @ = "Connecting" -> "Connected"
                         [] OTHER -> @,
             !.relative = IF e.is = "mode" THEN e.v ELSE @]

\* Mutant: the unread state event stands, and the new one is dropped.
PushFirstStands(mb, e) ==
  IF e.is \in StateKinds /\ At(mb.queue, e.is) # {}
  THEN [mb EXCEPT !.relative = IF e.is = "mode" THEN e.v ELSE @]
  ELSE PushAlways(mb, e)

\* push, up to its notify.
Push(mb, e) ==
  IF e.is = "sound" /\ mb.state = "Closed" THEN mb
  ELSE [mb EXCEPT !.queue = Append(Supersede(@, e), e),
                  !.size = IF e.is = "size" THEN e.v ELSE @,
                  !.state = CASE e.is = "closed" -> "Closed"
                              [] e.is = "size" /\ @ = "Connecting" -> "Connected"
                              [] OTHER -> @,
                  !.relative = IF e.is = "mode" THEN e.v ELSE @]

\* Whether push got as far as queueing, and so notifies.
Pushes(mb, e) == ~(e.is = "sound" /\ mb.state = "Closed")

Damaged(mb, mark) == [mb EXCEPT !.damage = @ \cup {mark}]

\* Mutant: a change of size does not end the merging.
UnreadAny(q) == At(q, "frame")

\* The unread frames since the desktop last changed size.
Unread(q) == {i \in At(q, "frame") : \A j \in At(q, "size") : j < i}

\* Mutant: the unread frame's own rectangles are lost in the merge.
FrameEndReplaces(mb) ==
  LET last == CHOOSE i \in Unread(mb.queue) : \A j \in Unread(mb.queue) : j <= i IN
  IF Unread(mb.queue) = {}
  THEN [mb EXCEPT !.queue = Append(@, [is |-> "frame", rects |-> mb.damage]), !.damage = {}]
  ELSE [mb EXCEPT !.queue[last].rects = mb.damage, !.damage = {}]

\* on_frame_end with something marked: merged into the last unread frame, or queued.
FrameEnd(mb) ==
  LET last == CHOOSE i \in Unread(mb.queue) : \A j \in Unread(mb.queue) : j <= i IN
  IF Unread(mb.queue) = {}
  THEN [mb EXCEPT !.queue = Append(@, [is |-> "frame", rects |-> mb.damage]), !.damage = {}]
  ELSE [mb EXCEPT !.queue[last].rects = @ \cup mb.damage, !.damage = {}]

TakeAll(mb) == [mb EXCEPT !.queue = <<>>]
=============================================================================
