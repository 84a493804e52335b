--------------------------- MODULE FreerdpSession ---------------------------
(***************************************************************************)
(* A session of FreeRDP (modules/freerdp/cpp/freerdp_session.c). The       *)
(* protocol thread is inside freerdp_connect for the whole of the          *)
(* handshake, where only the library's abort reaches it, and then waits    *)
(* for its event, the library's handles or a second, whichever is first. A *)
(* third actor, the thread of the dynamic channels, tells what shapes of   *)
(* the desktop the server takes, before which a size or a layout that was  *)
(* asked for is held.                                                      *)
(*                                                                         *)
(* The library, the server and the network are external. A call of the     *)
(* library is assumed to return once the connection is aborted or lost;    *)
(* an abort from before freerdp_connect may be forgotten as that begins.   *)
(* The ring is never full here: what it drops then is in Keys.             *)
(***************************************************************************)
EXTENDS Naturals, Sequences

CONSTANTS
  Callers,  \* threads that call in
  MaxCalls  \* bound: calls made, other than answers and destroy

VARIABLES
  pc,     \* where the protocol thread is
  s,      \* the Session's fields under its lock
  t,      \* the library's side: abort, connection, the display channel, what was sent
  wake,   \* the event is signalled
  out,    \* what the session's callbacks have told, and what was asked of it
  call,   \* what each caller has still to do
  freed,  \* op_destroy has returned
  calls   \* how many calls were made; numbers the shapes asked for

vars == <<pc, s, t, wake, out, call, freed, calls>>
outside == <<call, freed, calls>>

Waits == {"waitCredentials", "waitIdentity"}
Shapes == 0..MaxCalls
Cmds == {"layout", "key"} \X {0} \cup {"size"} \X Shapes

\* s.can: canResize. s.held: heldWidth and heldHeight, s.want: wantLayout; 0 for
\* none. t.chan: the channels' thread before the capabilities, between its two
\* locks, before its SetEvent, after it, and once the channel has closed. t.next:
\* the shape being sent, t.sent: the last one sent, t.refused: the last one that was
\* more than the server takes. t.missed, as history: freerdp_connect forgot an abort.
\* out.connected and out.closed count the callbacks. out.asked: the last shape asked
\* for; out.raced: one was asked for while an earlier one was still to be sent, and
\* not a layout after a layout.
TypeOK ==
  /\ pc \in {"opening", "connect", "ask", "failed", "loop", "rest", "reset", "drain",
             "send", "check", "over", "disconnect", "fire", "done"} \cup Waits
  /\ s \in [quit : BOOLEAN, ring : Seq(Cmds), can : BOOLEAN, held : Shapes, want : Shapes,
            answer : {"none", "yes", "no"}]
  /\ t \in [aborted : BOOLEAN, missed : BOOLEAN, lost : BOOLEAN, connected : BOOLEAN,
            next : Shapes, sent : Shapes, refused : Shapes,
            chan : {"closed", "post", "wake", "known", "gone"}, cmd : Cmds]
  /\ out \in [open : BOOLEAN, connected : Nat, detail : {"none", "", "why"},
              closed : Nat, asked : Shapes, raced : BOOLEAN]
  /\ call \in [Callers -> Seq({"layout", "abort", "wake", "join"})]
  /\ wake \in BOOLEAN /\ freed \in BOOLEAN /\ calls \in 0..MaxCalls

Init ==
  /\ pc = "opening"
  /\ s = [quit |-> FALSE, ring |-> <<>>, can |-> FALSE, held |-> 0, want |-> 0,
          answer |-> "none"]
  /\ t = [aborted |-> FALSE, missed |-> FALSE, lost |-> FALSE, connected |-> FALSE,
          next |-> 0, sent |-> 0, refused |-> 0, chan |-> "closed", cmd |-> <<"key", 0>>]
  /\ out = [open |-> FALSE, connected |-> 0, detail |-> "none", closed |-> 0,
            asked |-> 0, raced |-> FALSE]
  /\ call = [c \in Callers |-> <<>>]
  /\ wake = FALSE /\ freed = FALSE /\ calls = 0

Goto(from, to) == pc = from /\ pc' = to

\* A step of the protocol thread that changes nothing but where it is.
Pass(from, to) == Goto(from, to) /\ UNCHANGED <<s, t, wake, out>> /\ UNCHANGED outside

\* The session is over, and why is settled.
Settled(from, to, detail) ==
  /\ Goto(from, to)
  /\ out' = [out EXCEPT !.detail = detail]
  /\ UNCHANGED <<s, t, wake>> /\ UNCHANGED outside

-----------------------------------------------------------------------------
(* The protocol thread, inside freerdp_connect.                            *)

\* An address that create could not split, or a client that does not start.
StartFails == Settled("opening", "fire", "why")

\* freerdp_connect begins, with no look at quit, and forgets an abort or does not.
Start ==
  /\ Goto("opening", "connect")
  /\ \E kept \in BOOLEAN :
       t' = [t EXCEPT !.aborted = @ /\ kept, !.missed = t.aborted /\ ~kept]
  /\ UNCHANGED <<s, wake, out>> /\ UNCHANGED outside

\* onAuthenticate and onVerifyX509Certificate: the last answer is forgotten under
\* the lock, the callback is made without it, and the thread waits.
Forget ==
  /\ ~t.connected
  /\ Goto("connect", "ask")
  /\ s' = [s EXCEPT !.answer = "none"]
  /\ UNCHANGED <<t, wake, out>> /\ UNCHANGED outside

Question ==
  /\ \E wait \in Waits : Goto("ask", wait)
  /\ out' = [out EXCEPT !.open = TRUE]
  /\ UNCHANGED <<s, t, wake>> /\ UNCHANGED outside

\* A password given is used though the session was ended meanwhile; a certificate
\* accepted is not.
Waited ==
  /\ s.answer # "none" \/ s.quit
  /\ \E wait \in Waits :
       Pass(wait, IF s.answer = "yes" /\ ~(wait = "waitIdentity" /\ s.quit)
                  THEN "connect" ELSE "failed")

\* Mutant: every activation is told.
PostConnectAgain ==
  /\ pc \in {"connect", "check"}
  /\ t' = [t EXCEPT !.connected = TRUE]
  /\ out' = [out EXCEPT !.connected = @ + 1]
  /\ UNCHANGED <<pc, s, wake>> /\ UNCHANGED outside

\* onPostConnect, which the library calls twice while it connects, and again when the
\* server activates the session anew: told once.
PostConnect ==
  /\ pc \in {"connect", "check"}
  /\ t' = [t EXCEPT !.connected = TRUE]
  /\ out' = [out EXCEPT !.connected = IF t.connected THEN @ ELSE @ + 1]
  /\ UNCHANGED <<pc, s, wake>> /\ UNCHANGED outside

Connected == t.connected /\ Pass("connect", "loop")

ConnectFails == Pass("connect", "failed")

Failed == Settled("failed", "fire", IF s.quit THEN "" ELSE "why")

-----------------------------------------------------------------------------
(* The loop.                                                               *)

\* freerdp_shall_disconnect_context, and quit.
Loop == Pass("loop", IF t.aborted \/ t.lost \/ s.quit THEN "over" ELSE "rest")

\* WaitForMultipleObjects: the event, the library's handles, or a second; or the wait
\* fails.
Rested == Pass("rest", "reset") \/ Pass("rest", "over")

\* ResetEvent, before the ring is drained.
Reset ==
  /\ Goto("reset", "drain")
  /\ wake' = FALSE
  /\ UNCHANGED <<s, t, out>> /\ UNCHANGED outside

\* doResize and doLayout: held until the capabilities are known, or taken to be sent.
\* A size that is held forgets a layout; a layout being held forgets a size.
Taken(cmd) ==
  IF cmd[1] = "size"
  THEN IF s.can THEN s ELSE [s EXCEPT !.held = cmd[2], !.want = 0]
  ELSE IF s.can THEN [s EXCEPT !.want = 0] ELSE [s EXCEPT !.held = 0]

Drain ==
  /\ pc = "drain"
  /\ IF s.ring = <<>>
     THEN pc' = "check" /\ UNCHANGED <<s, t>>
     ELSE LET cmd == Head(s.ring) shape == cmd[1] # "key" IN
          /\ s' = [(IF shape THEN Taken(cmd) ELSE s) EXCEPT !.ring = Tail(s.ring)]
          /\ pc' = IF shape /\ s.can THEN "send" ELSE "drain"
          /\ t' = [t EXCEPT !.next = IF ~shape \/ ~s.can THEN 0
                                     ELSE IF cmd[1] = "size" THEN cmd[2] ELSE s.want]
  /\ UNCHANGED <<wake, out>> /\ UNCHANGED outside

\* sendLayout: nothing for an empty layout or a channel that has closed, nor for a shape
\* larger than the server takes.
SendLayout ==
  /\ Goto("send", "drain")
  /\ IF ~s.can \/ t.next = 0
     THEN t' = [t EXCEPT !.next = 0]
     ELSE \/ t' = [t EXCEPT !.sent = t.next, !.next = 0]
          \/ t' = [t EXCEPT !.refused = t.next, !.next = 0]
  /\ UNCHANGED <<s, wake, out>> /\ UNCHANGED outside

\* Mutant: the event is reset once the ring was drained.
CheckResetting ==
  /\ \E to \in {"loop", "over"} : Goto("check", to)
  /\ wake' = FALSE
  /\ UNCHANGED <<s, t, out>> /\ UNCHANGED outside

\* freerdp_check_event_handles.
Check == Pass("check", "loop") \/ Pass("check", "over")

-----------------------------------------------------------------------------
(* The end.                                                                *)

\* Mutant: a failure the abort caused is told.
OverTold == Settled("over", "disconnect", "why")

Over ==
  /\ Goto("over", "disconnect")
  /\ out' = [out EXCEPT !.detail = IF s.quit THEN "" ELSE "why"]
  /\ t' = [t EXCEPT !.connected = FALSE]
  /\ UNCHANGED <<s, wake>> /\ UNCHANGED outside

\* freerdp_disconnect closes the channels, once their thread is out of its callback.
Disconnected ==
  /\ t.chan \notin {"post", "wake"}
  /\ Goto("disconnect", "fire")
  /\ s' = [s EXCEPT !.can = FALSE]
  /\ t' = [t EXCEPT !.chan = "gone"]
  /\ UNCHANGED <<wake, out>> /\ UNCHANGED outside

FireClosed ==
  /\ Goto("fire", "done")
  /\ out' = [out EXCEPT !.closed = @ + 1]
  /\ UNCHANGED <<s, t, wake>> /\ UNCHANGED outside

-----------------------------------------------------------------------------
(* The thread of the dynamic channels, and the network.                    *)

\* Mutant: the hold is kept, and nothing is queued for it.
HeldKept == IF s.want # 0 THEN <<"layout", 0>> ELSE <<"key", 0>>

\* What waited for the capabilities: a size before a layout.
HeldCmd ==
  IF s.held # 0 THEN <<"size", s.held>>
  ELSE IF s.want # 0 THEN <<"layout", 0>> ELSE <<"key", 0>>

\* onDisplayControlCaps, under the lock: what was held is let go of though the server
\* takes no monitors at all.
Caps ==
  /\ t.chan = "closed" /\ out.connected > 0 /\ pc \notin {"fire", "done"}
  /\ \E some \in BOOLEAN :
       LET cmd == IF some THEN HeldCmd ELSE <<"key", 0>> IN
       /\ s' = [s EXCEPT !.can = some, !.held = 0]
       /\ t' = [t EXCEPT !.chan = IF cmd[1] = "key" THEN "known" ELSE "post", !.cmd = cmd]
  /\ UNCHANGED <<pc, wake, out>> /\ UNCHANGED outside

\* Its post, under the lock again.
PostHeld ==
  /\ t.chan = "post"
  /\ s' = [s EXCEPT !.ring = IF s.quit THEN @ ELSE Append(@, t.cmd)]
  /\ t' = [t EXCEPT !.chan = IF s.quit THEN "known" ELSE "wake", !.cmd = <<"key", 0>>]
  /\ UNCHANGED <<pc, wake, out>> /\ UNCHANGED outside

WakeHeld ==
  /\ t.chan = "wake"
  /\ t' = [t EXCEPT !.chan = "known"]
  /\ wake' = TRUE
  /\ UNCHANGED <<pc, s, out>> /\ UNCHANGED outside

\* onChannelDisconnected, of a session that goes on.
ChannelCloses ==
  /\ t.chan = "known"
  /\ s' = [s EXCEPT !.can = FALSE]
  /\ t' = [t EXCEPT !.chan = "gone"]
  /\ UNCHANGED <<pc, wake, out>> /\ UNCHANGED outside

Lost ==
  /\ ~t.lost /\ pc \notin {"opening", "done"}
  /\ t' = [t EXCEPT !.lost = TRUE]
  /\ UNCHANGED <<pc, s, wake, out>> /\ UNCHANGED outside

-----------------------------------------------------------------------------
(* The callers. No call is made beside or after op_destroy: the gate of    *)
(* backends/api sees to it (module Gate).                                  *)

Destroying(c) == \E i \in DOMAIN call[c] : call[c][i] = "join"
MayCall(c) == call[c] = <<>> /\ ~freed /\ \A d \in Callers : ~Destroying(d)

Calling(c, change, steps) ==
  /\ MayCall(c) /\ calls < MaxCalls /\ calls' = calls + 1
  /\ s' = change
  /\ call' = [call EXCEPT ![c] = steps]
  /\ UNCHANGED <<pc, t, wake, freed>>

\* The shapes still to be sent: queued, held, or on their way out of the hold.
Waiting ==
  UNION {{s.ring[i][1] : i \in DOMAIN s.ring} \ {"key"},
         IF s.held # 0 THEN {"size"} ELSE {},
         IF s.want # 0 THEN {"layout"} ELSE {},
         IF t.chan = "post" THEN {t.cmd[1]} ELSE {}}

Asked(kind) ==
  out' = [out EXCEPT !.asked = calls + 1,
                     !.raced = @ \/ Waiting \ (IF kind = "layout" THEN {kind} ELSE {}) # {}]

Post(c) ==
  /\ ~s.quit
  /\ Calling(c, [s EXCEPT !.ring = Append(@, <<"key", 0>>)], <<"wake">>)
  /\ UNCHANGED out

\* A pointer's motion takes the place of one that is the last in the ring.
Motion(c) ==
  /\ ~s.quit /\ s.ring # <<>> /\ s.ring[Len(s.ring)][1] = "key"
  /\ Calling(c, s, <<"wake">>)
  /\ UNCHANGED out

RequestSize(c) ==
  /\ ~s.quit
  /\ Calling(c, [s EXCEPT !.ring = Append(@, <<"size", calls + 1>>)], <<"wake">>)
  /\ Asked("size")

\* The layout is stored under one lock and its command queued under another.
RequestLayout(c) == Calling(c, [s EXCEPT !.want = calls + 1], <<"layout">>) /\ Asked("layout")

\* op_answer_credentials and op_answer_trust: answered once, a refusal ends the
\* session.
Answer(c) ==
  /\ MayCall(c) /\ out.open
  /\ \E yes \in BOOLEAN :
       s' = [s EXCEPT !.answer = IF yes THEN "yes" ELSE "no", !.quit = @ \/ ~yes]
  /\ out' = [out EXCEPT !.open = FALSE]
  /\ call' = [call EXCEPT ![c] = <<"wake">>]
  /\ UNCHANGED <<pc, t, wake, freed, calls>>

\* stop: quit under the lock, the abort, the event.
Disconnect(c) == Calling(c, [s EXCEPT !.quit = TRUE], <<"abort", "wake">>) /\ UNCHANGED out

Destroy(c) ==
  /\ ~freed /\ \A d \in Callers : call[d] = <<>>
  /\ s' = [s EXCEPT !.quit = TRUE]
  /\ call' = [call EXCEPT ![c] = <<"abort", "wake", "join">>]
  /\ UNCHANGED <<pc, t, wake, out, freed, calls>>

Doing(c, step) == call[c] # <<>> /\ Head(call[c]) = step

Done(c) == call' = [call EXCEPT ![c] = Tail(@)]

PostLayout(c) ==
  /\ Doing(c, "layout")
  /\ call' = [call EXCEPT ![c] = IF s.quit THEN <<>> ELSE <<"wake">>]
  /\ s' = [s EXCEPT !.ring = IF s.quit THEN @ ELSE Append(@, <<"layout", 0>>)]
  /\ UNCHANGED <<pc, t, wake, out, freed, calls>>

\* Mutant: the flag and the event, and no abort.
AbortNothing(c) ==
  Doing(c, "abort") /\ Done(c) /\ UNCHANGED <<pc, s, t, wake, out, freed, calls>>

Abort(c) ==
  /\ Doing(c, "abort") /\ Done(c)
  /\ t' = [t EXCEPT !.aborted = TRUE]
  /\ UNCHANGED <<pc, s, wake, out, freed, calls>>

Wake(c) ==
  /\ Doing(c, "wake") /\ Done(c)
  /\ wake' = TRUE
  /\ UNCHANGED <<pc, s, t, out, freed, calls>>

Join(c) ==
  /\ Doing(c, "join") /\ pc = "done" /\ Done(c)
  /\ freed' = TRUE
  /\ UNCHANGED <<pc, s, t, wake, out, calls>>

-----------------------------------------------------------------------------
\* A call of the library that waits for the server returns once there is none.
Ended == t.aborted \/ t.lost

Prompt ==
  \/ StartFails \/ Start \/ Question \/ Waited \/ Failed \/ Loop \/ Rested \/ Reset \/ Drain
  \/ Check \/ Over \/ Disconnected \/ FireClosed
  \/ Ended /\ (ConnectFails \/ SendLayout)

Served ==
  ~Ended /\ (Forget \/ PostConnect \/ Connected \/ ConnectFails \/ SendLayout)

Channels == PostHeld \/ WakeHeld

CallerNext(c) ==
  \/ Post(c) \/ Motion(c) \/ RequestSize(c) \/ RequestLayout(c) \/ Answer(c)
  \/ Disconnect(c) \/ Destroy(c)

CallerGoesOn(c) == PostLayout(c) \/ Abort(c) \/ Wake(c) \/ Join(c)

Next ==
  \/ Prompt \/ Served \/ Caps \/ Channels \/ ChannelCloses \/ Lost
  \/ \E c \in Callers : CallerNext(c) \/ CallerGoesOn(c)

Spec == Init /\ [][Next]_vars

-----------------------------------------------------------------------------
(* What it promises.                                                       *)

\* The thread waits with nothing left to do, rather than a second too long: no caller
\* and no channel is between its change and its event, and the ring is empty and the
\* end not requested.
RestsWhenIdle ==
  pc = "rest" /\ ~wake /\ t.chan \notin {"post", "wake"} /\ (\A c \in Callers : call[c] = <<>>)
    => s.ring = <<>> /\ ~s.quit

\* At rest, with the capabilities known and such that the server takes shapes, the one it
\* was last sent is the last one asked for, unless that is larger than it takes.
LatestShapeSent ==
  /\ pc = "rest" /\ ~wake /\ (\A c \in Callers : call[c] = <<>>)
  /\ t.chan = "known" /\ s.can
  => out.asked \in {t.sent, t.refused}

\* The same where no shape was asked for while an earlier one was still to be sent,
\* but for a layout after a layout.
LatestShapeKept == out.raced \/ LatestShapeSent

=============================================================================
