------------------------------ MODULE MCEvents ------------------------------
(***************************************************************************)
(* The way of a session's events, for TLC: a mailbox that Android's outlet *)
(* reads (Outlet), one that the Linux window reads (Window), and the list  *)
(* of rectangles that a frame is put together in (Damage).  They share no  *)
(* state, so one of them, `part`, runs while the others stay as they began. *)
(***************************************************************************)
EXTENDS Outlet, Window

CONSTANTS
  Width, Height, Limit      \* Damage's desktop and list

VARIABLES
  part,
  rects, marked

D == INSTANCE Damage

damage == <<rects, marked>>
all == <<part, vars, window, damage>>

MCInit == part \in {"outlet", "window", "damage"} /\ Init /\ WindowInit /\ D!Init

MCNext ==
  /\ UNCHANGED part
  /\ \/ part = "outlet" /\ Next /\ UNCHANGED <<window, damage>>
     \/ part = "window" /\ WindowNext /\ UNCHANGED <<vars, damage>>
     \/ part = "damage" /\ D!Next /\ UNCHANGED <<vars, window>>

\* A thread in a wake, or the window's with a redraw to do, goes on; nothing
\* obliges the far end to send, nor the session to end.
GoesOn(t) ==
  /\ UNCHANGED <<part, damage>>
  /\ \/ part = "outlet" /\ Wake(t) /\ UNCHANGED window
     \/ /\ part = "window"
        /\ \/ t = Protocol /\ Notify
           \/ t \in Helpers /\ NotifySound
           \/ t = Main /\ (Redraw \/ Handle)
        /\ UNCHANGED vars

MCSpec == MCInit /\ [][MCNext]_all /\ \A t \in Threads : WF_all(GoesOn(t))

-----------------------------------------------------------------------------
(* Properties: the outlet's and the window's are their own, but for AllIsHeard. *)

\* Every event that waits for the outlet is taken in the end, and whatever the
\* window was doing, it hears of the end: neither reader's wake is lost.
AllIsHeard == []<>(mb.queue = <<>> /\ (protocol = "over" => ended))

\* Damage::add loses no pixel however it merges and collapses rectangles, adds none
\* outside the box of what was marked, keeps to the list's limit and leaves no
\* two rectangles that a call would merge.
DamageIsExact == D!Covers /\ D!WithinMarked /\ D!Compact
=============================================================================
