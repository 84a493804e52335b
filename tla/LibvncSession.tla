--------------------------- MODULE LibvncSession ----------------------------
(***************************************************************************)
(* A session of libvncclient (modules/libvnc/cpp/libvnc_session.c): the    *)
(* protocol thread, which dials, lets the library speak the handshake and  *)
(* ask its questions, and then alternates between its queue and the        *)
(* socket; and the threads that call in, each of which changes something   *)
(* under the session's lock and writes to the wake pipe after letting go   *)
(* of it.                                                                  *)
(*                                                                         *)
(* The server and the network are external: they may send, stall, stop     *)
(* reading or hang up at any moment, and owe nothing.                      *)
(***************************************************************************)
EXTENDS Naturals, Sequences

CONSTANTS
  Callers,    \* threads that call in
  Encodings,  \* lists of encodings to ask for
  RingSize,   \* what the ring of CMD_RING slots holds
  MaxCalls    \* bound: calls made, other than answers and destroy

VARIABLES
  pc,     \* where the protocol thread is
  s,      \* the Session's fields under its lock; cl: the client is published
  t,      \* the protocol thread's own: the client, its socket, its locals
  wake,   \* the wake pipe has bytes
  out,    \* what the session's callbacks have told
  call,   \* what each caller has still to do
  freed,  \* op_destroy has returned
  calls   \* how many calls were made

vars == <<pc, s, t, wake, out, call, freed, calls>>
outside == <<call, freed, calls>>

\* The waits of askCredentials and of askIdentity.
Waits == {"waitCredentials", "waitIdentity"}

\* s.answer stands for credAnswered and credPass, or trustAnswered and
\* trustAccepted. t.sock: shut by stop, lost by the server. t.buffered:
\* cl->buffered or tlsPending, bytes that poll does not report. t.seen: paused,
\* as the loop last read it. t.missed, as history: the library connected though the end
\* had been requested. out.open: a question is still on the screen; out.connected and
\* out.closed count the callbacks.
TypeOK ==
  /\ pc \in {"opening", "dial", "adopt", "handshake", "ask", "drain", "write", "take", "encode",
             "look", "poll", "handle", "over", "unpublish", "cleanup", "settle", "fire",
             "done"} \cup Waits
  /\ s \in [quit : BOOLEAN, paused : BOOLEAN, ring : 0..RingSize, encodings : Encodings,
            changed : BOOLEAN, answer : {"none", "yes", "no"}, cl : BOOLEAN]
  /\ t \in [client : {"none", "live", "freed"}, unix : BOOLEAN,
            sock : {"none", "open", "shut", "lost"}, inbound : BOOLEAN,
            buffered : BOOLEAN, seen : BOOLEAN, applied : Encodings,
            connected : BOOLEAN, missed : BOOLEAN]
  /\ out \in [open : BOOLEAN, connected : Nat, detail : {"none", "", "why"}, closed : Nat]
  /\ call \in [Callers -> Seq({"wake", "join"})]
  /\ wake \in BOOLEAN /\ freed \in BOOLEAN /\ calls \in 0..MaxCalls

Init ==
  /\ pc = "opening"
  /\ \E e \in Encodings, unix \in BOOLEAN :
       /\ s = [quit |-> FALSE, paused |-> FALSE, ring |-> 0, changed |-> FALSE,
               encodings |-> e, answer |-> "none", cl |-> FALSE]
       /\ t = [client |-> "none", unix |-> unix, sock |-> "none", inbound |-> FALSE,
               buffered |-> FALSE, seen |-> FALSE, applied |-> e, connected |-> FALSE,
               missed |-> FALSE]
  /\ out = [open |-> FALSE, connected |-> 0, detail |-> "none", closed |-> 0]
  /\ call = [c \in Callers |-> <<>>]
  /\ wake = FALSE /\ freed = FALSE /\ calls = 0

Goto(from, to) == pc = from /\ pc' = to

\* A step of the protocol thread that changes nothing but where it is.
Pass(from, to) == Goto(from, to) /\ UNCHANGED <<s, t, wake, out>> /\ UNCHANGED outside

-----------------------------------------------------------------------------
(* The protocol thread, up to a connection.                                *)

\* An address that create could not split is reported by the thread.
AddressError ==
  /\ Goto("opening", "fire")
  /\ out' = [out EXCEPT !.detail = "why"]
  /\ UNCHANGED <<s, t, wake>> /\ UNCHANGED outside

\* rfbGetClient, takeEncodings, publishClient.
Begin ==
  /\ Goto("opening", "dial")
  /\ t' = [t EXCEPT !.client = "live", !.applied = s.encodings]
  /\ s' = [s EXCEPT !.changed = FALSE, !.cl = TRUE]
  /\ UNCHANGED <<wake, out>> /\ UNCHANGED outside

\* waitConnected: the wake pipe is polled beside the socket.
DialWoken ==
  /\ ~t.unix /\ wake
  /\ Goto("dial", IF s.quit THEN "unpublish" ELSE "dial")
  /\ wake' = FALSE
  /\ UNCHANGED <<s, t, out>> /\ UNCHANGED outside

\* An address answers, or none does within the timeout.
Dialled ==
  \/ ~t.unix /\ Pass("dial", "adopt")
  \/ Pass("dial", "unpublish")

\* The library dials the path of a UNIX socket itself, without the lock, and a stop that
\* came before it has found no socket to shut down.
DialUnix ==
  /\ t.unix
  /\ Goto("dial", "handshake")
  /\ t' = [t EXCEPT !.sock = "open", !.missed = s.quit]
  /\ UNCHANGED <<s, wake, out>> /\ UNCHANGED outside

\* Mutant: the socket is adopted though the session was ended meanwhile.
AdoptUntested ==
  /\ Goto("adopt", "handshake")
  /\ t' = [t EXCEPT !.sock = "open"]
  /\ UNCHANGED <<s, wake, out>> /\ UNCHANGED outside

\* Under the lock that stop holds: the socket of a session that was ended meanwhile is
\* not used at all.
Adopt ==
  /\ Goto("adopt", IF s.quit THEN "unpublish" ELSE "handshake")
  /\ t' = [t EXCEPT !.sock = IF s.quit THEN @ ELSE "open"]
  /\ UNCHANGED <<s, wake, out>> /\ UNCHANGED outside

\* askCredentials and askIdentity: the last answer is forgotten under the lock,
\* the callback is made without it, and the thread waits.
Forget ==
  /\ ~t.connected /\ t.sock = "open"
  /\ Goto("handshake", "ask")
  /\ s' = [s EXCEPT !.answer = "none"]
  /\ UNCHANGED <<t, wake, out>> /\ UNCHANGED outside

Question ==
  /\ \E wait \in Waits : Goto("ask", wait)
  /\ out' = [out EXCEPT !.open = TRUE]
  /\ UNCHANGED <<s, t, wake>> /\ UNCHANGED outside

\* A password given is used though the session was ended meanwhile; an identity
\* accepted is not.
Granted == s.answer = "yes" /\ ~(pc = "waitIdentity" /\ s.quit)

Waited ==
  /\ s.answer # "none" \/ s.quit
  /\ \E wait \in Waits : Pass(wait, IF Granted THEN "handshake" ELSE "unpublish")

\* Mutant: every framebuffer is told as a connection.
ConnectedAgain ==
  /\ pc \in {"handshake", "handle"} /\ t.sock = "open"
  /\ t' = [t EXCEPT !.connected = TRUE]
  /\ out' = [out EXCEPT !.connected = @ + 1]
  /\ UNCHANGED <<pc, s, wake>> /\ UNCHANGED outside

\* The library allocates the framebuffer, at the handshake's end or for a new size of the
\* desktop: the first is told as connected.
Connected ==
  /\ pc \in {"handshake", "handle"} /\ t.sock = "open"
  /\ t' = [t EXCEPT !.connected = TRUE]
  /\ out' = [out EXCEPT !.connected = IF t.connected THEN @ ELSE @ + 1]
  /\ UNCHANGED <<pc, s, wake>> /\ UNCHANGED outside

Initialised == t.connected /\ Pass("handshake", "drain")

\* What the server sent is no handshake, or the socket was shut under the read.
HandshakeFails == Pass("handshake", "unpublish")

-----------------------------------------------------------------------------
(* The loop.                                                               *)

\* One command is taken under the lock and run without it; with none left, the
\* flags are read.
Drain ==
  /\ pc = "drain"
  /\ IF s.ring > 0
     THEN pc' = "write" /\ s' = [s EXCEPT !.ring = @ - 1]
     ELSE /\ pc' = IF s.quit THEN "over" ELSE IF s.changed THEN "take" ELSE "look"
          /\ s' = s
  /\ UNCHANGED <<t, wake, out>> /\ UNCHANGED outside

\* The server takes the command's bytes, or the socket is no longer open.
RunCmd == Pass("write", "drain")

TakeEncodings ==
  /\ Goto("take", "encode")
  /\ s' = [s EXCEPT !.changed = FALSE]
  /\ t' = [t EXCEPT !.applied = s.encodings]
  /\ UNCHANGED <<wake, out>> /\ UNCHANGED outside

\* Mutant: the flag is cleared once the encodings were sent, and with it a change
\* made meanwhile.
SetAndCleared ==
  /\ Goto("encode", "look")
  /\ s' = [s EXCEPT !.changed = FALSE]
  /\ UNCHANGED <<t, wake, out>> /\ UNCHANGED outside

SetFormatAndEncodings == Pass("encode", "look")

\* What the library holds already is handled before the socket is waited for.
Look ==
  /\ Goto("look", IF ~s.paused /\ t.buffered THEN "handle" ELSE "poll")
  /\ t' = [t EXCEPT !.seen = s.paused]
  /\ UNCHANGED <<s, wake, out>> /\ UNCHANGED outside

\* The socket is polled only while the session is shown.
Readable == ~t.seen /\ (t.inbound \/ t.sock # "open")

\* poll returns for the pipe, which is emptied, or for the socket, or for both.
Poll ==
  /\ wake \/ Readable
  /\ Goto("poll", IF Readable THEN "handle" ELSE "drain")
  /\ wake' = FALSE
  /\ UNCHANGED <<s, t, out>> /\ UNCHANGED outside

\* The rest of the message has come; more may be buffered behind it.
Handle ==
  /\ t.sock = "open"
  /\ Goto("handle", "drain")
  /\ \E more \in BOOLEAN : t' = [t EXCEPT !.inbound = FALSE, !.buffered = more]
  /\ UNCHANGED <<s, wake, out>> /\ UNCHANGED outside

\* A message that cannot be read: the socket is shut or lost, or it is malformed.
HandleFails == Pass("handle", "over")

-----------------------------------------------------------------------------
(* The end.                                                                *)

Detail == IF s.quit THEN "" ELSE "why"

\* A connection that was up.
SettleLost ==
  /\ Goto("over", "unpublish")
  /\ out' = [out EXCEPT !.detail = Detail]
  /\ UNCHANGED <<s, t, wake>> /\ UNCHANGED outside

\* Mutant: the client is freed while stop can still reach it.
UnpublishLate == Pass("unpublish", "cleanup")

\* publishClient(NULL), under both locks.
Unpublish ==
  /\ Goto("unpublish", "cleanup")
  /\ s' = [s EXCEPT !.cl = FALSE]
  /\ UNCHANGED <<t, wake, out>> /\ UNCHANGED outside

\* rfbClientCleanup closes the socket.
Cleanup ==
  /\ Goto("cleanup", IF out.detail = "none" THEN "settle" ELSE "fire")
  /\ t' = [t EXCEPT !.client = "freed", !.sock = "none"]
  /\ UNCHANGED <<s, wake, out>> /\ UNCHANGED outside

\* Mutant: a failed connection is always explained.
SettleFailedTold ==
  /\ Goto("settle", "fire")
  /\ out' = [out EXCEPT !.detail = "why"]
  /\ UNCHANGED <<s, t, wake>> /\ UNCHANGED outside

\* A connection that was never up.
SettleFailed ==
  /\ Goto("settle", "fire")
  /\ out' = [out EXCEPT !.detail = Detail]
  /\ UNCHANGED <<s, t, wake>> /\ UNCHANGED outside

FireClosed ==
  /\ Goto("fire", "done")
  /\ out' = [out EXCEPT !.closed = @ + 1]
  /\ UNCHANGED <<s, t, wake>> /\ UNCHANGED outside

-----------------------------------------------------------------------------
(* The server and the network.                                             *)

ServerSends ==
  /\ t.sock = "open" /\ ~t.inbound
  /\ t' = [t EXCEPT !.inbound = TRUE]
  /\ UNCHANGED <<pc, s, wake, out>> /\ UNCHANGED outside

ServerHangsUp ==
  /\ t.sock = "open"
  /\ t' = [t EXCEPT !.sock = "lost"]
  /\ UNCHANGED <<pc, s, wake, out>> /\ UNCHANGED outside

-----------------------------------------------------------------------------
(* The callers. No call is made beside or after op_destroy: the gate of    *)
(* backends/api sees to it (module Gate).                                  *)

Destroying(c) == \E i \in DOMAIN call[c] : call[c][i] = "join"
MayCall(c) == call[c] = <<>> /\ ~freed /\ \A d \in Callers : ~Destroying(d)

\* A call that changes the session under its lock and then wakes the thread.
Calling(c, change) ==
  /\ MayCall(c) /\ calls < MaxCalls
  /\ s' = change /\ calls' = calls + 1
  /\ call' = [call EXCEPT ![c] = <<"wake">>]
  /\ UNCHANGED <<pc, t, wake, out, freed>>

\* A full ring drops its oldest command; nothing is queued once ended.
Post(c) ==
  /\ ~s.quit
  /\ Calling(c, [s EXCEPT !.ring = IF @ < RingSize THEN @ + 1 ELSE @])

\* A pointer's motion takes the place of one that is the last in the ring.
Motion(c) == ~s.quit /\ s.ring > 0 /\ Calling(c, s)

Focus(c) == \E focused \in BOOLEAN : Calling(c, [s EXCEPT !.paused = ~focused])

\* Once ended the change is kept and nobody is woken.
SetEncodings(c) ==
  \E e \in Encodings :
    /\ MayCall(c) /\ calls < MaxCalls
    /\ s' = [s EXCEPT !.encodings = e, !.changed = TRUE]
    /\ calls' = calls + 1
    /\ call' = [call EXCEPT ![c] = IF s.quit THEN <<>> ELSE <<"wake">>]
    /\ UNCHANGED <<pc, t, wake, out, freed>>

\* op_answer_credentials and op_answer_trust: a dialog is answered once, and a
\* refusal ends the session.
Answer(c) ==
  /\ MayCall(c) /\ out.open
  /\ \E yes \in BOOLEAN :
       s' = [s EXCEPT !.answer = IF yes THEN "yes" ELSE "no", !.quit = @ \/ ~yes]
  /\ out' = [out EXCEPT !.open = FALSE]
  /\ call' = [call EXCEPT ![c] = <<"wake">>]
  /\ UNCHANGED <<pc, t, wake, freed, calls>>

\* Mutant: the socket is left open.
StopWoken ==
  /\ s' = [s EXCEPT !.quit = TRUE, !.paused = FALSE]
  /\ t' = t

Stop ==
  /\ s' = [s EXCEPT !.quit = TRUE, !.paused = FALSE]
  /\ t' = [t EXCEPT !.sock = IF s.cl /\ @ = "open" THEN "shut" ELSE @]

Disconnect(c) ==
  /\ MayCall(c) /\ calls < MaxCalls
  /\ Stop /\ calls' = calls + 1
  /\ call' = [call EXCEPT ![c] = <<"wake">>]
  /\ UNCHANGED <<pc, wake, out, freed>>

Destroy(c) ==
  /\ ~freed /\ \A d \in Callers : call[d] = <<>>
  /\ Stop
  /\ call' = [call EXCEPT ![c] = <<"wake", "join">>]
  /\ UNCHANGED <<pc, wake, out, freed, calls>>

\* A caller goes on to its next step.
Doing(c, step) == call[c] # <<>> /\ Head(call[c]) = step /\ call' = [call EXCEPT ![c] = Tail(@)]

Wake(c) ==
  /\ Doing(c, "wake")
  /\ wake' = TRUE
  /\ UNCHANGED <<pc, s, t, out, freed, calls>>

\* pthread_join, freeSession.
Join(c) ==
  /\ pc = "done" /\ Doing(c, "join")
  /\ freed' = TRUE
  /\ UNCHANGED <<pc, s, t, wake, out, calls>>

-----------------------------------------------------------------------------
\* Steps that wait for nobody: a socket that is shut or lost answers at once.
Prompt ==
  \/ AddressError \/ Begin \/ DialWoken \/ Dialled \/ DialUnix \/ Adopt
  \/ Question \/ Waited \/ Drain \/ TakeEncodings \/ Look \/ Poll
  \/ SettleLost \/ Unpublish \/ Cleanup \/ SettleFailed \/ FireClosed
  \/ t.sock # "open" /\ (HandshakeFails \/ RunCmd \/ SetFormatAndEncodings \/ HandleFails)

\* Steps that wait for the server.
Served ==
  /\ t.sock = "open"
  /\ \/ Forget \/ Connected \/ Initialised \/ HandshakeFails
     \/ RunCmd \/ SetFormatAndEncodings \/ Handle \/ HandleFails

CallerNext(c) ==
  \/ Post(c) \/ Motion(c) \/ Focus(c) \/ SetEncodings(c) \/ Answer(c)
  \/ Disconnect(c) \/ Destroy(c)

CallerGoesOn(c) == Wake(c) \/ Join(c)

Next ==
  \/ Prompt \/ Served \/ ServerSends \/ ServerHangsUp
  \/ \E c \in Callers : CallerNext(c) \/ CallerGoesOn(c)

Spec == Init /\ [][Next]_vars

-----------------------------------------------------------------------------
(* What it promises.                                                       *)

\* The thread rests only when nothing is left for it: when it sleeps in poll and
\* no caller is between its change and its wake, the ring is empty, the encodings
\* are as last set, the end was not requested, the pause it sleeps under is the
\* one in force, and no decrypted bytes wait behind a socket that stays silent.
RestsWhenIdle ==
  pc = "poll" /\ ~wake /\ (\A c \in Callers : call[c] = <<>>)
    => /\ s.ring = 0 /\ ~s.changed /\ t.applied = s.encodings
       /\ ~s.quit /\ t.seen = s.paused /\ (t.buffered => t.seen)

\* The client that stop shuts down through s->cl is never one the thread freed.
PublishedIsLive == s.cl => t.client = "live"

=============================================================================
