-------------------------- MODULE TigervncSession ---------------------------
(***************************************************************************)
(* A session of TigerVNC's library (modules/tigervnc/cpp/                  *)
(* tigervnc_session.cxx). As in LibvncSession a protocol thread serves a   *)
(* queue and a socket, but the queue is held until the connection is up,   *)
(* the loop reads as long as there are messages and no commands, a message *)
(* may be there in part, and the descriptor has a lock of its own.         *)
(*                                                                         *)
(* The server and the network are external and owe nothing. Output that    *)
(* flush leaves behind and the sound are not modelled.                     *)
(***************************************************************************)
EXTENDS Naturals, Sequences

CONSTANTS
  Callers,   \* threads that call in
  QueueMax,  \* CMD_QUEUE_MAX
  MaxCalls   \* bound: calls made, other than answers and destroy

VARIABLES
  pc,     \* where the protocol thread is
  s,      \* the Session's fields under its locks; fd: fd_ is set
  t,      \* the protocol thread's own: socket, stream buffer, locals
  wake,   \* the doorbell has bytes
  out,    \* what the session's callbacks have told
  call,   \* what each caller has still to do
  freed,  \* destroy has returned
  calls   \* how many calls were made

vars == <<pc, s, t, wake, out, call, freed, calls>>
outside == <<call, freed, calls>>

Cmds == {"key", "picture"}

\* s.drawn: the picture last asked for is the one applied. t.held: what the stream's
\* buffer holds, nothing, the front of a message, or a message. t.seen: paused, as the
\* loop last read it. out.lost: a queue at its limit dropped a command; out.connected and
\* out.closed count the callbacks.
TypeOK ==
  /\ pc \in {"opening", "publish", "setup", "top", "run", "recheck", "poll", "process",
             "ask", "wait", "init", "resized", "after", "over", "close", "reset", "fire",
             "done"}
  /\ s \in [quit : BOOLEAN, paused : BOOLEAN, up : BOOLEAN, drawn : BOOLEAN,
            queue : Seq(Cmds), answer : {"none", "yes", "no"}, fd : BOOLEAN]
  /\ Len(s.queue) <= QueueMax
  /\ t \in [sock : {"none", "open", "shut", "lost"}, inbound : BOOLEAN,
            held : {"none", "part", "whole"}, starved : BOOLEAN, seen : BOOLEAN,
            pending : Seq(Cmds)]
  /\ out \in [open : BOOLEAN, connected : Nat, detail : {"none", "", "why"},
              closed : Nat, lost : BOOLEAN]
  /\ call \in [Callers -> Seq({"picture", "wake", "shut", "join"})]
  /\ wake \in BOOLEAN /\ freed \in BOOLEAN /\ calls \in 0..MaxCalls

Init ==
  /\ pc = "opening"
  /\ s = [quit |-> FALSE, paused |-> FALSE, up |-> FALSE, queue |-> <<>>,
          drawn |-> TRUE, answer |-> "none", fd |-> FALSE]
  /\ t = [sock |-> "none", inbound |-> FALSE, held |-> "none", starved |-> FALSE,
          seen |-> FALSE, pending |-> <<>>]
  /\ out = [open |-> FALSE, connected |-> 0, detail |-> "none", closed |-> 0,
            lost |-> FALSE]
  /\ call = [c \in Callers |-> <<>>]
  /\ wake = FALSE /\ freed = FALSE /\ calls = 0

Goto(from, to) == pc = from /\ pc' = to

\* A step of the protocol thread that changes nothing but where it is.
Pass(from, to) == Goto(from, to) /\ UNCHANGED <<s, t, wake, out>> /\ UNCHANGED outside

\* The session is over, and why is settled.
Settled(from, to, detail) ==
  /\ Goto(from, to)
  /\ out' = [out EXCEPT !.detail = detail]
  /\ UNCHANGED <<s, t>> /\ UNCHANGED outside

-----------------------------------------------------------------------------
(* openSocket.                                                             *)

\* No address answered; told though the end was requested meanwhile.
OpenFails == Settled("opening", "fire", "why") /\ UNCHANGED wake

\* The doorbell, and an end behind it.
OpenCancelled == wake /\ s.quit /\ wake' = FALSE /\ Settled("opening", "fire", "")

\* The doorbell of a command: drained, and waited past.
OpenWoken ==
  /\ wake /\ ~s.quit
  /\ Goto("opening", "opening")
  /\ wake' = FALSE
  /\ UNCHANGED <<s, t, out>> /\ UNCHANGED outside

Opened == Pass("opening", "publish")

\* fd_ is set, whether or not the session was ended meanwhile: the loop looks.
Publish ==
  /\ Goto("publish", "setup")
  /\ s' = [s EXCEPT !.fd = TRUE]
  /\ t' = [t EXCEPT !.sock = "open"]
  /\ UNCHANGED <<wake, out>> /\ UNCHANGED outside

\* The connection is built, with the picture as it is asked for now.
Setup ==
  /\ Goto("setup", "top")
  /\ s' = [s EXCEPT !.drawn = TRUE]
  /\ UNCHANGED <<t, wake, out>> /\ UNCHANGED outside

-----------------------------------------------------------------------------
(* The loop.                                                               *)

\* Commands are held until the connection is up.
Top ==
  /\ pc = "top"
  /\ IF s.quit
     THEN pc' = "over" /\ UNCHANGED <<s, t>>
     ELSE /\ pc' = "run"
          /\ t' = [t EXCEPT !.seen = s.paused, !.pending = IF s.up THEN s.queue ELSE <<>>]
          /\ s' = [s EXCEPT !.queue = IF s.up THEN <<>> ELSE @]
  /\ UNCHANGED <<wake, out>> /\ UNCHANGED outside

\* A key, pointer, clipboard or layout command only writes; applyPicture reads the
\* settings under the lock.
RunCmd ==
  /\ pc = "run" /\ t.pending # <<>>
  /\ t' = [t EXCEPT !.pending = Tail(@)]
  /\ s' = [s EXCEPT !.drawn = @ \/ Head(t.pending) = "picture"]
  /\ UNCHANGED <<pc, wake, out>> /\ UNCHANGED outside

RanAll == t.pending = <<>> /\ Pass("run", "recheck")

\* Mutant: what is in the buffer already is left for the next poll of the socket.
RecheckUnbuffered == Pass("recheck", IF s.quit THEN "over" ELSE "poll")

\* Commands can take long, so quit is looked at again. A message already in the
\* buffer is not waited for, the front of one is.
Recheck ==
  Pass("recheck", IF s.quit THEN "over"
                  ELSE IF ~t.seen /\ ~t.starved /\ t.held # "none" THEN "process"
                  ELSE "poll")

Readable == ~t.seen /\ (t.inbound \/ t.sock # "open")

\* poll returns for the doorbell, the socket or both.
Poll ==
  /\ wake \/ Readable
  /\ Goto("poll", IF Readable THEN "process" ELSE "top")
  /\ wake' = FALSE
  /\ t' = [t EXCEPT !.starved = @ /\ ~Readable]
  /\ UNCHANGED <<s, out>> /\ UNCHANGED outside

-----------------------------------------------------------------------------
(* processMsg: at most one message.                                        *)

\* Want of bytes: what there was is the front of a message.
Starve ==
  /\ t.sock = "open" /\ t.held # "whole"
  /\ Goto("process", "top")
  /\ \E held \in {"none", "part"} :
       t' = [t EXCEPT !.starved = TRUE, !.inbound = FALSE, !.held = held]
  /\ UNCHANGED <<s, wake, out>> /\ UNCHANGED outside

\* A message was there, or its rest was on the socket; behind it may be another. One
\* of the handshake may ask something, which forgets the last answer, or be its last.
Message ==
  /\ t.sock = "open" /\ (t.held = "whole" \/ t.inbound)
  /\ \/ Goto("process", "after") /\ s' = s
     \/ ~s.up /\ Goto("process", "ask") /\ s' = [s EXCEPT !.answer = "none"]
     \/ ~s.up /\ Goto("process", "init") /\ s' = s
  /\ \E held \in {"none", "part", "whole"} :
       t' = [t EXCEPT !.starved = FALSE, !.inbound = FALSE, !.held = held]
  /\ UNCHANGED <<wake, out>> /\ UNCHANGED outside

\* The stream ends, the socket fails or the message is malformed: an exception, of a
\* message or of a command.
Throw == Pass("process", "over") \/ Pass("run", "over")

\* askCredentials, askQuestion, askTrust and askUnverified: the callback, the wait.
Question ==
  /\ Goto("ask", "wait")
  /\ out' = [out EXCEPT !.open = TRUE]
  /\ UNCHANGED <<s, t, wake>> /\ UNCHANGED outside

\* Whatever was answered, an ended session takes it for a no.
Waited ==
  /\ s.answer # "none" \/ s.quit
  /\ Pass("wait", IF s.answer = "yes" /\ ~s.quit THEN "after" ELSE "over")

\* initDone: the picture again, the callback connected, ...
InitDone ==
  /\ Goto("init", "resized")
  /\ out' = [out EXCEPT !.connected = @ + 1]
  /\ s' = [s EXCEPT !.drawn = TRUE]
  /\ UNCHANGED <<t, wake>> /\ UNCHANGED outside

\* ... then setConnected.
SetConnected ==
  /\ Goto("resized", "after")
  /\ s' = [s EXCEPT !.up = TRUE]
  /\ UNCHANGED <<t, wake, out>> /\ UNCHANGED outside

AfterMessage == Pass("after", IF s.quit \/ s.queue # <<>> THEN "top" ELSE "process")

-----------------------------------------------------------------------------
(* The end.                                                                *)

\* A requested ending reports nothing, whatever it was caught as.
Over == Settled("over", "close", IF s.quit THEN "" ELSE "why") /\ UNCHANGED wake

CloseConn == Pass("close", "reset")

\* Mutant: the socket is closed while fd_ still names it.
ResetKeeping ==
  /\ Goto("reset", "fire")
  /\ t' = [t EXCEPT !.sock = "none"]
  /\ UNCHANGED <<s, wake, out>> /\ UNCHANGED outside

\* Under fdLock_: fd_ is forgotten and the socket closed.
Reset ==
  /\ Goto("reset", "fire")
  /\ s' = [s EXCEPT !.fd = FALSE]
  /\ t' = [t EXCEPT !.sock = "none"]
  /\ UNCHANGED <<wake, out>> /\ UNCHANGED outside

Closed ==
  /\ Goto("fire", "done")
  /\ out' = [out EXCEPT !.closed = @ + 1]
  /\ UNCHANGED <<s, t, wake>> /\ UNCHANGED outside

-----------------------------------------------------------------------------
(* The server and the network.                                             *)

ServerSends ==
  /\ t.sock = "open" /\ ~t.inbound
  /\ t' = [t EXCEPT !.inbound = TRUE]
  /\ UNCHANGED <<pc, s, wake, out>> /\ UNCHANGED outside

ServerHangsUp ==
  /\ t.sock = "open"
  /\ t' = [t EXCEPT !.sock = "lost"]
  /\ UNCHANGED <<pc, s, wake, out>> /\ UNCHANGED outside

-----------------------------------------------------------------------------
(* The callers. No call is made beside or after destroy: the gate of       *)
(* backends/api sees to it (module Gate).                                  *)

Destroying(c) == \E i \in DOMAIN call[c] : call[c][i] = "join"
MayCall(c) == call[c] = <<>> /\ ~freed /\ \A d \in Callers : ~Destroying(d)

\* The change is made under the lock, the doorbell is rung after it.
Calling(c, change, dropped) ==
  /\ calls < MaxCalls
  /\ s' = change
  /\ calls' = calls + 1
  /\ call' = [call EXCEPT ![c] = <<"wake">>]
  /\ UNCHANGED <<pc, t, wake, freed>>
  /\ out' = [out EXCEPT !.lost = @ \/ dropped]

\* post: refused once ended; at the limit the oldest command goes.
Pushed(cmd) ==
  [s EXCEPT !.queue = Append(IF Len(@) >= QueueMax THEN Tail(@) ELSE @, cmd)]

Full == Len(s.queue) >= QueueMax

Key(c) == MayCall(c) /\ ~s.quit /\ Calling(c, Pushed("key"), Full)

\* A pointer's motion takes the place of one that is the last in the queue.
Motion(c) ==
  /\ MayCall(c) /\ ~s.quit
  /\ s.queue # <<>> /\ s.queue[Len(s.queue)] = "key"
  /\ Calling(c, s, FALSE)

\* vento_tigervnc_set_picture: the settings under one lock, the command under
\* another; posted once ended, it is dropped.
SetPicture(c) ==
  /\ MayCall(c) /\ calls < MaxCalls
  /\ s' = [s EXCEPT !.drawn = FALSE]
  /\ calls' = calls + 1
  /\ call' = [call EXCEPT ![c] = <<"picture">>]
  /\ UNCHANGED <<pc, t, wake, out, freed>>

SetFocus(c) ==
  MayCall(c) /\ \E focused \in BOOLEAN : Calling(c, [s EXCEPT !.paused = ~focused], FALSE)

\* answerCredentials and answerQuestion: answered once, a refusal ends the session.
Answer(c) ==
  /\ MayCall(c) /\ out.open
  /\ \E yes \in BOOLEAN :
       s' = [s EXCEPT !.answer = IF yes THEN "yes" ELSE "no", !.quit = @ \/ ~yes]
  /\ out' = [out EXCEPT !.open = FALSE]
  /\ call' = [call EXCEPT ![c] = <<"wake">>]
  /\ UNCHANGED <<pc, t, wake, freed, calls>>

\* disconnect: quit under the lock, the doorbell, then the socket under fdLock_.
Disconnect(c) ==
  /\ MayCall(c) /\ calls < MaxCalls
  /\ s' = [s EXCEPT !.quit = TRUE, !.paused = FALSE]
  /\ calls' = calls + 1
  /\ call' = [call EXCEPT ![c] = <<"wake", "shut">>]
  /\ UNCHANGED <<pc, t, wake, out, freed>>

Destroy(c) ==
  /\ ~freed /\ \A d \in Callers : call[d] = <<>>
  /\ s' = [s EXCEPT !.quit = TRUE, !.paused = FALSE]
  /\ call' = [call EXCEPT ![c] = <<"wake", "shut", "join">>]
  /\ UNCHANGED <<pc, t, wake, out, freed, calls>>

Doing(c, step) == call[c] # <<>> /\ Head(call[c]) = step /\ call' = [call EXCEPT ![c] = Tail(@)]

Wake(c) == Doing(c, "wake") /\ wake' = TRUE /\ UNCHANGED <<pc, s, t, out, freed, calls>>

Shut(c) ==
  /\ Doing(c, "shut")
  /\ t' = [t EXCEPT !.sock = IF s.fd /\ @ = "open" THEN "shut" ELSE @]
  /\ UNCHANGED <<pc, s, wake, out, freed, calls>>

PostPicture(c) ==
  /\ call[c] # <<>> /\ Head(call[c]) = "picture"
  /\ IF s.quit
     THEN call' = [call EXCEPT ![c] = <<>>] /\ UNCHANGED <<s, out>>
     ELSE /\ call' = [call EXCEPT ![c] = <<"wake">>]
          /\ s' = Pushed("picture")
          /\ out' = [out EXCEPT !.lost = @ \/ Full]
  /\ UNCHANGED <<pc, t, wake, freed, calls>>

Join(c) ==
  /\ pc = "done" /\ Doing(c, "join")
  /\ freed' = TRUE
  /\ UNCHANGED <<pc, s, t, wake, out, calls>>

-----------------------------------------------------------------------------
\* Steps that wait for nobody: a socket that is shut or lost answers at once.
Prompt ==
  \/ OpenFails \/ OpenCancelled \/ OpenWoken \/ Opened \/ Publish \/ Setup
  \/ Top \/ RanAll \/ Recheck \/ Poll
  \/ Question \/ Waited \/ InitDone \/ SetConnected \/ AfterMessage
  \/ Over \/ CloseConn \/ Reset \/ Closed
  \/ t.sock # "open" /\ (RunCmd \/ Throw)

\* Steps that wait for the server.
Served == t.sock = "open" /\ (RunCmd \/ Starve \/ Message \/ Throw)

CallerNext(c) ==
  \/ Key(c) \/ Motion(c) \/ SetPicture(c) \/ SetFocus(c) \/ Answer(c)
  \/ Disconnect(c) \/ Destroy(c)

CallerGoesOn(c) == Wake(c) \/ Shut(c) \/ PostPicture(c) \/ Join(c)

Next ==
  \/ Prompt \/ Served \/ ServerSends \/ ServerHangsUp
  \/ \E c \in Callers : CallerNext(c) \/ CallerGoesOn(c)

Spec == Init /\ [][Next]_vars

-----------------------------------------------------------------------------
(* What it promises.                                                       *)

\* The thread rests only when nothing is left for it: when it sleeps in poll and no
\* caller is between its change and its doorbell, the end was not requested, the
\* pause it sleeps under is the one in force, no whole message is in the buffer of
\* a session that is read, and the commands of a connection that is up were run,
\* so that the picture is the one last asked for, unless a queue at its limit
\* dropped a command.
RestsWhenIdle ==
  pc = "poll" /\ ~wake /\ (\A c \in Callers : call[c] = <<>>)
    => /\ ~s.quit /\ t.seen = s.paused /\ (t.held = "whole" => t.seen)
       /\ s.up => s.queue = <<>>
       /\ s.up /\ ~out.lost => s.drawn

\* The descriptor that disconnect shuts down is never one the thread has closed,
\* whose number may be another's by then.
PublishedIsLive == s.fd => t.sock # "none"

=============================================================================
