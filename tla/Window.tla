------------------------------- MODULE Window -------------------------------
(***************************************************************************)
(* A session's mailbox between the threads that report (the protocol's,    *)
(* and one that puts sounds) and the Linux window that takes the events,   *)
(* linux/src/gui/session.rs's drain.  The mailbox's wake posts to the      *)
(* window's event loop, which asks for a redraw; a redraw takes everything *)
(* waiting and handles it, an event at a time, while more arrives.         *)
(*                                                                         *)
(* A mark is a rectangle marked as damage: its number, and the size of the *)
(* desktop it was marked under.  Sizes are numbered as they come.          *)
(***************************************************************************)
EXTENDS Mailbox

CONSTANTS
  MaxSizes,     \* bound: sizes of the desktop, the first from Connected
  MaxMarks,     \* bound: rectangles marked
  MaxModes,     \* bound: changes of the pointer's mode
  MaxSounds     \* bound: sounds put

VARIABLES
  box,          \* the mailbox
  protocol,     \* the protocol's thread: "runs", "notify", "closing" or "over"
  sounder,      \* the thread that puts sounds: "runs" or "notify"
  woken,        \* a redraw is asked for
  took,         \* the events the window took and has not handled
  drawn,        \* the marks whose pixels the window has read
  shown,        \* the window's desktop size, pointer mode and sound
  ended,        \* the window was told of the end
  marks, modes, sounds   \* history: how many there were

window == <<box, protocol, sounder, woken, took, drawn, shown, ended, marks, modes, sounds>>
counts == <<marks, modes, sounds>>
view == <<took, drawn, shown, ended>>

WindowInit ==
  /\ box = NewMailbox
  /\ protocol = "runs" /\ sounder = "runs"
  /\ woken = FALSE /\ took = <<>> /\ drawn = {} /\ ended = FALSE
  /\ shown = [size |-> 0, relative |-> 0, sound |-> 0]
  /\ marks = 0 /\ modes = 0 /\ sounds = 0

-----------------------------------------------------------------------------
(* The protocol's thread *)

Running == protocol = "runs"

\* on_connected and on_desktop_size.
OnSize ==
  /\ Running /\ box.size < MaxSizes
  /\ box' = Push(box, [is |-> "size", v |-> box.size + 1])
  /\ protocol' = "notify"
  /\ UNCHANGED <<sounder, woken, view, counts>>

\* on_damaged: marked, and nothing is sent.
OnDamaged ==
  /\ Running /\ box.size > 0 /\ marks < MaxMarks
  /\ marks' = marks + 1
  /\ box' = Damaged(box, [n |-> marks + 1, size |-> box.size])
  /\ UNCHANGED <<protocol, sounder, woken, view, modes, sounds>>

\* on_frame_end; with nothing marked it only counts.
OnFrameEnd ==
  /\ Running /\ box.damage # {}
  /\ box' = FrameEnd(box)
  /\ protocol' = "notify"
  /\ UNCHANGED <<sounder, woken, view, counts>>

\* on_pointer_mode, standing for on_cursor and on_clipboard too.
OnMode ==
  /\ Running /\ box.size > 0 /\ modes < MaxModes
  /\ modes' = modes + 1
  /\ box' = Push(box, [is |-> "mode", v |-> 1 - box.relative])
  /\ protocol' = "notify"
  /\ UNCHANGED <<sounder, woken, view, marks, sounds>>

\* on_closed, the last thing the thread does.
OnClosed ==
  /\ Running
  /\ box' = Push(box, [is |-> "closed", v |-> 0])
  /\ protocol' = "closing"
  /\ UNCHANGED <<sounder, woken, view, counts>>

\* Mutant: the wake of a close is forgotten.
NotifyNotTheEnd ==
  /\ protocol \in {"notify", "closing"}
  /\ woken' = (woken \/ protocol = "notify")
  /\ protocol' = IF protocol = "closing" THEN "over" ELSE "runs"
  /\ UNCHANGED <<box, sounder, view, counts>>

\* notify, once the mutex is let go.
Notify ==
  /\ protocol \in {"notify", "closing"}
  /\ woken' = TRUE
  /\ protocol' = IF protocol = "closing" THEN "over" ELSE "runs"
  /\ UNCHANGED <<box, sounder, view, counts>>

\* on_sound and on_status, from another thread: dropped after the end.
OnSound ==
  /\ sounder = "runs" /\ sounds < MaxSounds
  /\ sounds' = sounds + 1
  /\ LET e == [is |-> "sound", v |-> sounds + 1]
     IN /\ box' = Push(box, e)
        /\ sounder' = IF Pushes(box, e) THEN "notify" ELSE "runs"
  /\ UNCHANGED <<protocol, woken, view, marks, modes>>

NotifySound ==
  /\ sounder = "notify"
  /\ woken' = TRUE
  /\ sounder' = "runs"
  /\ UNCHANGED <<box, protocol, view, counts>>

-----------------------------------------------------------------------------
(* The window's thread *)

\* A redraw, asked for: drain takes everything waiting.
Redraw ==
  /\ woken /\ took = <<>>
  /\ woken' = FALSE
  /\ took' = box.queue
  /\ box' = TakeAll(box)
  /\ UNCHANGED <<protocol, sounder, drawn, shown, ended, counts>>

\* One event of those taken.  A size draws all there is, and takes the pointer's
\* mode from the mailbox and not from the events.
Handle ==
  /\ took # <<>>
  /\ took' = Tail(took)
  /\ LET e == Head(took) IN
       CASE e.is = "size" ->
              /\ shown' = [shown EXCEPT !.size = e.v, !.relative = box.relative]
              /\ drawn' = drawn \cup (1..marks)
              /\ UNCHANGED ended
         [] e.is = "frame" ->
              /\ drawn' = drawn \cup {m.n : m \in e.rects}
              /\ UNCHANGED <<shown, ended>>
         [] e.is = "mode" ->
              /\ shown' = [shown EXCEPT !.relative = e.v]
              /\ UNCHANGED <<drawn, ended>>
         [] e.is = "sound" ->
              /\ shown' = [shown EXCEPT !.sound = e.v]
              /\ UNCHANGED <<drawn, ended>>
         [] e.is = "closed" -> ended' = TRUE /\ UNCHANGED <<shown, drawn>>
  /\ UNCHANGED <<box, protocol, sounder, woken, counts>>

-----------------------------------------------------------------------------

WindowNext ==
  \/ OnSize \/ OnDamaged \/ OnFrameEnd \/ OnMode \/ OnClosed \/ Notify
  \/ OnSound \/ NotifySound
  \/ Redraw \/ Handle

WindowSpec == WindowInit /\ [][WindowNext]_window

-----------------------------------------------------------------------------
(* Properties *)

\* Nothing waits for the window, neither taken and not handled nor in the mailbox.
Quiet == took = <<>> /\ box.queue = <<>>

\* "kept only as the latest unread one of each kind": the queue holds one state
\* event of a kind, and one frame between two sizes, however long it is unread.
OneOfAKind(q) == \A kind \in StateKinds : \A i, j \in At(q, kind) : i = j
Spaced(q) == \A i, j \in At(q, "frame") : i < j => \E k \in At(q, "size") : i < k /\ k < j
Coalesced == OneOfAKind(box.queue) /\ Spaced(box.queue)

\* wake is called after the mutex is let go, and a redraw takes all there is:
\* events wait only behind a redraw asked for, or a thread about to ask.
NoLostWake ==
  box.queue # <<>> => woken \/ protocol \in {"notify", "closing"} \/ sounder = "notify"

\* A window that has handled all it was sent shows the latest of everything,
\* though superseded events were dropped and the mode is read past the queue.
CaughtUp ==
  Quiet =>
    /\ shown.size = box.size
    /\ shown.relative = box.relative
    /\ box.state # "Closed" => shown.sound = sounds

\* Coalescing loses no damage: a rectangle whose frame has ended was read by
\* the window since, or is in a frame still to be handled, or behind a size.
Shows(e, n) == e.is = "size" \/ (e.is = "frame" /\ \E m \in e.rects : m.n = n)
NoDamageLost ==
  \A n \in 1..marks :
    \/ n \in drawn
    \/ \E m \in box.damage : m.n = n
    \/ \E i \in DOMAIN took : Shows(took[i], n)
    \/ \E i \in DOMAIN box.queue : Shows(box.queue[i], n)

\* Closed is "Terminal, and the last event a session sends", with a sound put by
\* another thread as the session closes.
ClosedIsLast ==
  /\ \A i \in At(took, "closed") : i = Len(took) /\ box.queue = <<>>
  /\ \A i \in At(box.queue, "closed") : i = Len(box.queue)
  /\ ended => Quiet

\* "rectangles of one size do not apply to the next": no frame is handled before
\* the size its rectangles were marked under, though on_frame_end merges past
\* whatever else is waiting.
Before(q, i, size) == \E j \in At(q, "size") : j < i /\ size <= q[j].v
FramesNotEarly ==
  /\ \A i \in At(took, "frame") : \A m \in took[i].rects :
       m.size <= shown.size \/ Before(took, i, m.size)
  /\ \A i \in At(box.queue, "frame") : \A m \in box.queue[i].rects :
       \/ m.size <= shown.size \/ Before(took, Len(took) + 1, m.size)
       \/ Before(box.queue, i, m.size)

-----------------------------------------------------------------------------
(* The inductive invariant *)

Marks == [n : Nat, size : Nat]
Sent == [is : {"size", "mode", "sound", "closed"}, v : Nat] \cup [is : {"frame"}, rects : SUBSET Marks]

WindowTyped ==
  /\ box \in [queue : Seq(Sent), damage : SUBSET Marks, size : Nat,
              state : {"Connecting", "Connected", "Closed"}, relative : {0, 1}]
  /\ took \in Seq(Sent)
  /\ shown \in [size : Nat, relative : Nat, sound : Nat]
  /\ protocol \in {"runs", "notify", "closing", "over"} /\ sounder \in {"runs", "notify"}
  /\ marks \in Nat /\ sounds \in Nat /\ woken \in BOOLEAN /\ ended \in BOOLEAN

\* Sizes wait in their order, each newer than the one shown, and a mark is of a
\* size that was announced.
Ordered(q, shows, latest) ==
  /\ \A i \in At(q, "size") : shows < q[i].v /\ q[i].v <= latest
  /\ \A i, j \in At(q, "size") : i < j => q[i].v < q[j].v
Sizes ==
  /\ shown.size <= box.size
  /\ Ordered(took, shown.size, box.size) /\ Ordered(box.queue, shown.size, box.size)
  /\ \A i \in At(took, "size"), j \in At(box.queue, "size") : took[i].v < box.queue[j].v
  /\ \A m \in box.damage : m.size <= box.size

\* v is what the window will show of a kind: the mailbox brings it, or the
\* mailbox brings nothing of the kind and what was taken does, or it is shown.
Comes(kind, v, shows) ==
  \/ \E i \in At(box.queue, kind) : box.queue[i].v = v
  \/ /\ At(box.queue, kind) = {}
     /\ \/ \E i \in At(took, kind) : took[i].v = v
        \/ At(took, kind) = {} /\ shows = v
LatestComes ==
  /\ OneOfAKind(took)
  /\ Comes("size", box.size, shown.size)
  /\ Comes("mode", box.relative, shown.relative)
  /\ box.state # "Closed" => Comes("sound", sounds, shown.sound)

\* Nothing is put after the end.
NothingAfter ==
  /\ box.state = "Closed" <=> protocol \in {"closing", "over"}
  /\ box.state # "Closed" => ~ended /\ At(took, "closed") = {} /\ At(box.queue, "closed") = {}

WindowInv == WindowTyped /\ Sizes /\ LatestComes /\ NothingAfter

\* notify comes after the mutex is let go and drain takes all there is: events wait
\* only behind a redraw asked for, a window that has handled all it was sent shows
\* the latest size, mode and sound, and on_closed's is "the last event a session
\* sends", a sound put by another thread as the session closes included. What waits is kept
\* "only as the latest unread one of each kind", and one frame between two sizes. With
\* them goes WindowInv, the invariant they rest on.
WindowCatchesUp == NoLostWake /\ CaughtUp /\ ClosedIsLast /\ Coalesced /\ WindowInv

\* on_frame_end merges a frame into an unread one: no rectangle is lost by it, and
\* none is handled before the size it was marked under.
DamageIsDrawn == NoDamageLost /\ FramesNotEarly
=============================================================================
