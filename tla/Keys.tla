-------------------------------- MODULE Keys --------------------------------
(***************************************************************************)
(* The keys held at the far end.  The Linux window's Keyboard              *)
(* (linux/src/gui/keys.rs) keeps which physical keys went down there, and  *)
(* lets go of them when input goes elsewhere; the backend keeps what each  *)
(* went down as, and releases that.  The backends differ in what a repeat  *)
(* does to their table, in the Shift they add for a character the US       *)
(* layout needs it for, and in what view only stops.                       *)
(*                                                                         *)
(* A keysym is [code, shift]: its key on the US layout, and whether that   *)
(* needs Shift.  RFB and RustDesk send the keysym itself, the others the   *)
(* code.  The id of a key is the key: KeyIds hands out one for each.       *)
(***************************************************************************)
EXTENDS Integers, Sequences, FiniteSets, TLC

CONSTANTS
  Setups,     \* the sessions there may be: [backend, levels, switches], with the
              \* keysyms of each letter its user types, without Shift and with it,
              \* and whether view only is ever switched
  Shift,      \* the Shift key, and its code
  Letters,    \* the other keys
  Ring        \* bound: commands the protocol's thread is behind by

Keyboard == Letters \cup {Shift}
ShiftSym == [code |-> Shift, shift |-> FALSE]

ASSUME KeysAssumption ==
  /\ Shift \notin Letters /\ IsFiniteSet(Letters) /\ Ring \in Nat
  /\ \A u \in Setups :
       /\ u.backend \in {"rfb", "rustdesk", "libvnc", "spice", "ironrdp", "freerdp"}
       /\ DOMAIN u.levels \subseteq Letters
       /\ \A k \in DOMAIN u.levels : \A n \in {1, 2} : u.levels[k][n].shift \in BOOLEAN
       /\ u.switches \in BOOLEAN

VARIABLES
  setup,      \* this session's
  phys, last, \* the keys down here, and the one that repeats
  away,       \* input goes to a prompt, the toolbar or another window
  viewOnly,
  board,      \* Keyboard::held: the keys the window has down at the far end
  table,      \* the backend's own: what each key went down as, and its Shift
  queue,      \* commands for the protocol's thread
  far,        \* what is down at the far end
  lost        \* ghost: the held keys whose release a full ring dropped

vars == <<setup, phys, last, away, viewOnly, board, table, queue, far, lost>>

backend == setup.backend
Queued == {"libvnc", "spice", "freerdp"}
NoKeys == [k \in {} |-> ShiftSym]

Init ==
  /\ setup \in Setups
  /\ phys = {} /\ last = Shift /\ away = FALSE /\ viewOnly = FALSE
  /\ board = {} /\ queue = <<>> /\ far = {} /\ lost = {}
  /\ table = [held |-> NoKeys, added |-> NoKeys, shifted |-> FALSE]

-----------------------------------------------------------------------------
(* The backends' tables.  Each operator gives the table and the far end    *)
(* after it: [t, f].                                                        *)

Is(t, f) == [t |-> t, f |-> f]
Has(t, k) == k \in DOMAIN t.held
Without(t, k) == [t EXCEPT !.held = [i \in DOMAIN t.held \ {k} |-> t.held[i]]]
With(t, k, key) == [t EXCEPT !.held = (k :> key) @@ t.held]
Syms(t) == {t.held[k] : k \in DOMAIN t.held}
Codes(t) == {key.code : key \in Syms(t)}
Emptied(t) == [held |-> NoKeys, added |-> NoKeys, shifted |-> FALSE]

\* RFB, RustDesk and libvncclient: the table's entry is the last keysym sent.
\* RFB's key_up does nothing under view only.
RfbDown(t, f, k, key) == Is(With(t, k, key), f \cup {key})
RfbUp(t, f, k) ==
  IF Has(t, k) /\ ~viewOnly THEN Is(Without(t, k), f \ {t.held[k]}) ELSE Is(t, f)

RustdeskUp(t, f, k) == IF Has(t, k) THEN Is(Without(t, k), f \ {t.held[k]}) ELSE Is(t, f)

RfbAll(t, f) == Is(Emptied(t), f \ Syms(t))

\* libvncclient: the table forgets a key whether or not its release is sent.
LibvncUp(t, f, k) ==
  IF Has(t, k) THEN Is(Without(t, k), IF viewOnly THEN f ELSE f \ {t.held[k]}) ELSE Is(t, f)
LibvncAll(t, f) == Is(Emptied(t), IF viewOnly THEN f ELSE f \ Syms(t))

\* SPICE: one Shift is added for all the characters that need it, and is let go
\* of with the last of them, unless the user's own is down by then.
SpiceDown(t, f, k, key) ==
  LET t2 == With(t, k, key)
      add == key.shift /\ ~Has(t, k) /\ ~t.shifted /\ Shift \notin Codes(t2)
  IN Is([t2 EXCEPT !.shifted = @ \/ add], f \cup {key.code} \cup IF add THEN {Shift} ELSE {})

\* Mutant: the added Shift is let go of though the user's is down.
SpiceUpTakesShift(t, f, k) ==
  LET t2 == Without(t, k)
      over == t.shifted /\ \A key \in Syms(t2) : ~key.shift
  IN IF ~Has(t, k) \/ viewOnly THEN Is(t, f)
     ELSE Is([t2 EXCEPT !.shifted = @ /\ ~over],
             (f \ {t.held[k].code}) \ IF over THEN {Shift} ELSE {})

SpiceUp(t, f, k) ==
  LET t2 == Without(t, k)
      over == t.shifted /\ \A key \in Syms(t2) : ~key.shift
  IN IF ~Has(t, k) \/ viewOnly THEN Is(t, f)
     ELSE Is([t2 EXCEPT !.shifted = @ /\ ~over],
             (f \ {t.held[k].code}) \ IF over /\ Shift \notin Codes(t2) THEN {Shift} ELSE {})

SpiceAll(t, f) == Is(Emptied(t), (f \ Codes(t)) \ IF t.shifted THEN {Shift} ELSE {})

\* IronRDP: each key remembers whether it added a Shift (added), through its
\* repeats; its input database knows whether one is down.
IronDown(t, f, k, key) ==
  LET had == Has(t, k) /\ t.added[k]
      add == key.shift /\ ~had /\ Shift \notin f
  IN Is([With(t, k, key) EXCEPT !.added = (k :> (had \/ add)) @@ t.added],
        f \cup {key.code} \cup IF add THEN {Shift} ELSE {})

IronReleased(t, f, ks) ==
  (f \ {t.held[k].code : k \in ks}) \ IF \E k \in ks : t.added[k] THEN {Shift} ELSE {}
IronUp(t, f, k) ==
  IF Has(t, k) /\ ~viewOnly THEN Is(Without(t, k), IronReleased(t, f, {k})) ELSE Is(t, f)
IronAll(t, f) == Is(Emptied(t), IronReleased(t, f, DOMAIN t.held))

\* FreeRDP: a repeat sends what the key went down as.  shifted is shiftHeld, the
\* user's own Shift.
FreeDown(t, f, k, key) ==
  LET add == key.shift /\ ~t.shifted IN
  IF Has(t, k) THEN Is(t, f \cup {t.held[k].code})
  ELSE Is([With(t, k, key) EXCEPT !.added = (k :> add) @@ t.added, !.shifted = @ \/ key.code = Shift],
          f \cup {key.code} \cup IF add THEN {Shift} ELSE {})

FreeUp(t, f, k) ==
  CASE ~Has(t, k) -> Is(t, f)
    [] viewOnly -> Is(Without(t, k), f)
    [] OTHER -> Is([Without(t, k) EXCEPT !.shifted = @ /\ t.held[k].code # Shift],
                   IronReleased(t, f, {k}))
FreeAll(t, f) ==
  Is(Emptied(t), IF viewOnly THEN f ELSE IronReleased(t, f, DOMAIN t.held))

-----------------------------------------------------------------------------
(* The backend's calls *)

Down(k, key) == [op |-> "down", k |-> k, key |-> key]
Up(k) == [op |-> "up", k |-> k, key |-> ShiftSym]
All == [op |-> "all", k |-> Shift, key |-> ShiftSym]

\* Mutant: view only stops no press.
KeyDownAnyway(k, key) ==
  CASE backend \in {"rfb", "rustdesk", "libvnc"} -> RfbDown(table, far, k, key)
    [] backend = "spice" -> SpiceDown(table, far, k, key)
    [] backend = "ironrdp" -> IronDown(table, far, k, key)
    [] backend = "freerdp" -> FreeDown(table, far, k, key)

\* key_down, key_up and release_all_keys, as the backend runs them.
KeyDown(k, key) ==
  CASE viewOnly -> Is(table, far)
    [] ~viewOnly /\ backend \in {"rfb", "rustdesk", "libvnc"} -> RfbDown(table, far, k, key)
    [] ~viewOnly /\ backend = "spice" -> SpiceDown(table, far, k, key)
    [] ~viewOnly /\ backend = "ironrdp" -> IronDown(table, far, k, key)
    [] ~viewOnly /\ backend = "freerdp" -> FreeDown(table, far, k, key)

KeyUp(k) ==
  CASE backend = "rfb" -> RfbUp(table, far, k)
    [] backend = "rustdesk" -> RustdeskUp(table, far, k)
    [] backend = "libvnc" -> LibvncUp(table, far, k)
    [] backend = "spice" -> SpiceUp(table, far, k)
    [] backend = "ironrdp" -> IronUp(table, far, k)
    [] backend = "freerdp" -> FreeUp(table, far, k)

ReleaseAllKeys ==
  CASE backend \in {"rfb", "rustdesk"} -> RfbAll(table, far)
    [] backend = "libvnc" -> LibvncAll(table, far)
    [] backend = "spice" -> SpiceAll(table, far)
    [] backend = "ironrdp" -> IronAll(table, far)
    [] backend = "freerdp" -> FreeAll(table, far)

Ran(c) ==
  CASE c.op = "down" -> KeyDown(c.k, c.key)
    [] c.op = "up" -> KeyUp(c.k)
    [] c.op = "all" -> ReleaseAllKeys

\* Mutant: the ring loses its oldest command, whatever it is.
MakeRoomOldest(q, c) == Append(Tail(q), c)

\* makeRoom, of a full ring: the oldest press goes, or else the new command,
\* unless that is a release: then the oldest command goes, which is a release too.
Presses(q) == {i \in 1..Len(q) : q[i].op = "down"}
MakeRoom(q, c) ==
  LET presses == Presses(q)
      victim == IF presses = {} THEN 1 ELSE CHOOSE i \in presses : \A j \in presses : i <= j
  IN IF presses = {} /\ c.op = "down" THEN q
     ELSE Append(SubSeq(q, 1, victim - 1) \o SubSeq(q, victim + 1, Len(q)), c)

Full(q) == backend = "freerdp" /\ Len(q) = Ring
Post(q, c) == IF Full(q) THEN MakeRoom(q, c) ELSE Append(q, c)

\* The keys a command lets go of, of those the table has.
Releases(c) ==
  {k \in DOMAIN table.held : c.op = "all" \/ (c.op = "up" /\ c.k = k)}

\* The keys that stay down because c's post drops the release they waited for.
Dropped(q, c) ==
  IF Full(q) /\ q # <<>> /\ Presses(q) = {} /\ c.op # "down" THEN Releases(Head(q)) ELSE {}

Posted(c) == queue' = Post(queue, c) /\ lost' = lost \cup Dropped(queue, c)

\* A call: run at once on the window's thread, or queued for the protocol's.
Call(c) ==
  IF backend \in Queued
  THEN Posted(c) /\ UNCHANGED <<table, far>>
  ELSE table' = Ran(c).t /\ far' = Ran(c).f /\ UNCHANGED <<queue, lost>>

NoCall == UNCHANGED <<table, far, queue, lost>>

\* Bound: how far behind the protocol's thread gets.  FreeRDP's ring may be full, of
\* presses or of releases; the others' holds everything.
Behind == backend = "freerdp" \/ Len(queue) < Ring - 1

\* drainCommands, one command.
Drain ==
  /\ queue # <<>>
  /\ LET r == Ran(Head(queue)) IN table' = r.t /\ far' = r.f
  /\ queue' = Tail(queue)
  /\ lost' = lost \ Releases(Head(queue))
  /\ UNCHANGED <<setup, phys, last, away, viewOnly, board>>

-----------------------------------------------------------------------------
(* The window's Keyboard *)

\* Mutant: a window in view only takes keys.
TakesKeysAnyway == ~away

TakesKeys == ~away /\ ~viewOnly
Typed == DOMAIN setup.levels
Keysym(k) == IF k = Shift THEN ShiftSym ELSE setup.levels[k][IF Shift \in phys THEN 2 ELSE 1]

\* A press goes to the far end if the session takes keys.
Press(k) ==
  /\ Behind /\ k \notin phys
  /\ phys' = phys \cup {k}
  /\ last' = IF k = Shift THEN last ELSE k
  /\ IF TakesKeys
     THEN board' = board \cup {k} /\ Call(Down(k, Keysym(k)))
     ELSE UNCHANGED board /\ NoCall
  /\ UNCHANGED <<setup, away, viewOnly>>

\* A letter repeats, as what it is now, while the far end has it down.
Repeat(k) ==
  /\ Behind /\ k \in phys /\ k = last
  /\ TakesKeys /\ k \in board
  /\ Call(Down(k, Keysym(k)))
  /\ UNCHANGED <<setup, phys, last, away, viewOnly, board>>

\* A release reaches the far end from wherever it came (key, elsewhere).
Release(k) ==
  /\ Behind /\ k \in phys
  /\ phys' = phys \ {k}
  /\ board' = board \ {k}
  /\ IF k \in board THEN Call(Up(k)) ELSE NoCall
  /\ UNCHANGED <<setup, last, away, viewOnly>>

\* A prompt comes up mid-press, or a text field takes the keyboard...
Prompt ==
  /\ ~away /\ away' = TRUE
  /\ UNCHANGED <<setup, phys, last, viewOnly, board>> /\ NoCall

ReleaseAll ==
  /\ board' = {}
  /\ IF board # {} THEN Call(All) ELSE NoCall

\* ...and the next frame, if it was a prompt, lets go of the keys.
Frame ==
  /\ Behind /\ ~TakesKeys /\ board # {}
  /\ ReleaseAll
  /\ UNCHANGED <<setup, phys, last, away, viewOnly>>

\* The focus leaves: releases from here on are not heard, or find nothing held.
FocusLost ==
  /\ Behind /\ ~away /\ away' = TRUE
  /\ ReleaseAll
  /\ UNCHANGED <<setup, phys, last, viewOnly>>

Back ==
  /\ away /\ away' = FALSE
  /\ UNCHANGED <<setup, phys, last, viewOnly, board>> /\ NoCall

\* Session::set_option: the backend's set_view_only, then release_keys.  RustDesk,
\* SPICE and FreeRDP let go of everything in set_view_only too; calling twice
\* comes to what calling once does, but for the queue.
SetViewOnly ==
  /\ setup.switches /\ Behind
  /\ viewOnly' = ~viewOnly
  /\ board' = IF viewOnly THEN board ELSE {}
  /\ LET own == ~viewOnly /\ backend \in {"rustdesk", "spice", "freerdp"}
         all == ~viewOnly /\ board # {}
     IN CASE ~own /\ ~all -> NoCall
          [] backend \in Queued /\ own /\ all ->
               /\ queue' = Post(Post(queue, All), All)
               /\ lost' = lost \cup Dropped(queue, All) \cup Dropped(Post(queue, All), All)
               /\ UNCHANGED <<table, far>>
          [] backend \in Queued /\ (own # all) -> Call(All)
          [] backend \notin Queued /\ (own \/ all) ->
               table' = ReleaseAllKeys.t /\ far' = ReleaseAllKeys.f /\ UNCHANGED <<queue, lost>>
  /\ UNCHANGED <<setup, phys, last, away>>

Next ==
  \/ \E k \in Typed \cup {Shift} : Press(k) \/ Release(k)
  \/ \E k \in Typed : Repeat(k)
  \/ Prompt \/ Frame \/ FocusLost \/ Back
  \/ SetViewOnly \/ Drain

Spec == Init /\ [][Next]_vars

-----------------------------------------------------------------------------
(* Properties *)

Quiet == queue = <<>>

\* FreeRDP's ring may drop a press, the others' hold all that is sent here.
Arrived == Quiet /\ backend # "freerdp"
Wire(k) == IF backend \in {"rfb", "rustdesk", "libvnc"} THEN table.held[k] ELSE table.held[k].code

\* Once the window holds nothing and the backend has caught up, nothing is down
\* at the far end: release_all_keys and key_up leave no key there ("Release every
\* key this session still holds down at the far end", api/src/backend.rs). The one
\* exception is FreeRDP's ring, which, full of releases, drops the oldest for a newer:
\* the key that was of stays down, and is in the table still, until it is let go of
\* again. That no press that is dropped, or kept, ever costs a release is claimed.
NothingStuck ==
  board = {} /\ Quiet => IronReleased(table, far, lost \cap DOMAIN table.held) = {}

\* What the window holds is down at the far end, as the backend recorded it: no key's
\* release takes another's up, nor the user's Shift, though characters that need one
\* come and go ("A Shift the user holds is theirs", spice/src/keymap.rs). Of IronRDP
\* the Shift is left out: the one it added takes the user's up with it.
HeldIsDown ==
  Arrived => \A k \in board : (k = Shift => backend # "ironrdp") => Has(table, k) /\ Wire(k) \in far

\* Under view only nothing goes down at the far end, whatever was queued before.
ViewOnlyIsSilent == [][viewOnly' => far' \subseteq far]_vars
=============================================================================
