----------------------------- MODULE MCSessions -----------------------------
(***************************************************************************)
(* The sessions of the four C and C++ backends, each an implementation of  *)
(* Session, the contract of vento/backend.h. A behaviour is one of one     *)
(* backend: part says which, and never changes.                            *)
(***************************************************************************)
EXTENDS Naturals, Sequences

CONSTANTS
  Parts,      \* the backends to look at
  Callers, Encodings, RingSize, QueueMax, PromptKinds, MaxCalls, MaxPrompts, MaxBoth,
  Sessions,   \* RealVNC's sessions share a thread, so there are several
  Watched,    \* the one of them whose contract is checked
  None

VARIABLES part, pc, s, t, wake, out, call, freed, calls

vars == <<part, pc, s, t, wake, out, call, freed, calls>>

L == INSTANCE LibvncSession
T == INSTANCE TigervncSession
F == INSTANCE FreerdpSession
R == INSTANCE RealvncSession

Libvnc == part = "libvnc"
Tigervnc == part = "tigervnc"
Freerdp == part = "freerdp"
Realvnc == part = "realvnc"

Init ==
  /\ part \in Parts
  /\ \/ Libvnc /\ L!Init
     \/ Tigervnc /\ T!Init
     \/ Freerdp /\ F!Init
     \/ Realvnc /\ R!Init /\ wake = FALSE

Next ==
  /\ UNCHANGED part
  /\ \/ Libvnc /\ L!Next
     \/ Tigervnc /\ T!Next
     \/ Freerdp /\ F!Next
     \/ Realvnc /\ R!Next /\ UNCHANGED wake

\* The steps that wait for nobody but the scheduler or a timeout: those of the protocol
\* thread or RealVNC's core thread, ...
Threads ==
  /\ UNCHANGED part
  /\ \/ Libvnc /\ L!Prompt
     \/ Tigervnc /\ T!Prompt
     \/ Freerdp /\ F!Prompt
     \/ Realvnc /\ R!CoreThread /\ UNCHANGED wake

\* ... of FreeRDP's thread of the dynamic channels, ...
Channels == UNCHANGED part /\ Freerdp /\ F!Channels

\* ... of a call that has begun, ...
CallGoesOn(c) ==
  /\ UNCHANGED part
  /\ \/ Libvnc /\ L!CallerGoesOn(c)
     \/ Tigervnc /\ T!CallerGoesOn(c)
     \/ Freerdp /\ F!CallerGoesOn(c)

\* ... and, of RealVNC, of a call, and of the core's report that a session it was told
\* to close has closed.
SessionGoesOn(i) == UNCHANGED <<part, wake>> /\ Realvnc /\ R!CallerGoesOn(i)
Reported(i) ==
  UNCHANGED <<part, wake>> /\ Realvnc /\ t.core[i] = "closing" /\ R!SessionClosed(i)

Spec == Init /\ [][Next]_vars

-----------------------------------------------------------------------------

TypeOK ==
  /\ Libvnc => L!TypeOK
  /\ Tigervnc => T!TypeOK
  /\ Freerdp => F!TypeOK
  /\ Realvnc => R!TypeOK

Told == IF Realvnc THEN out[Watched] ELSE out

Abs == INSTANCE Session WITH
  phase <- IF Told.closed > 0 THEN "closed"
           ELSE IF Told.detail # "none" THEN "ending"
           ELSE IF Told.connected > 0 THEN "connected"
           ELSE IF Realvnc \/ pc = "opening" THEN "opening" ELSE "open",
  connects <- Told.connected,
  closes <- Told.closed,
  asking <- IF Realvnc THEN s[Watched].shown
            ELSE IF pc \in {"wait", "waitCredentials", "waitIdentity"} THEN 1 ELSE 0,
  several <- Realvnc,
  ended <- IF Realvnc THEN s[Watched].asked ELSE s.quit,
  declined <- Realvnc /\ s[Watched].refused,
  detail <- Told.detail,
  freed <- IF Realvnc THEN freed[Watched] ELSE freed

\* Every backend keeps the contract of vento/backend.h as Session states it: connected is
\* called at most once, and not of a session that is over; closed is called once and is
\* the last callback, no question follows it, and one question is put at a time (RealVNC
\* puts several); closed gives a reason unless an end was requested or a no was passed on
\* to RealVNC's core, and gives none for an end that was requested, unless the connection
\* could not be opened; destroy returns only after it.
SessionsImplement == Abs!Spec

\* A protocol thread sleeps only when nothing is left for it: no command, setting,
\* pause or end was overlooked between a caller's change and its wake, and no bytes
\* are left where the poll of the socket does not see them.
RestsWhenIdle ==
  /\ Libvnc => L!RestsWhenIdle
  /\ Tigervnc => T!RestsWhenIdle
  /\ Freerdp => F!RestsWhenIdle

\* What disconnect and the other calls reach into from their own threads, the client,
\* the descriptor or the core's handle, is never one that was freed or closed; and
\* RealVNC's core is never told to close a session twice, or one it has reported closed.
PublishedIsLive ==
  /\ Libvnc => L!PublishedIsLive
  /\ Tigervnc => T!PublishedIsLive
  /\ Realvnc => R!PublishedIsLive /\ R!NeverFaulted

\* FreeRDP, at rest and with the display channel open: the desktop's size or layout
\* that was sent last is the one that was asked for last. freerdp_session.c says so of
\* the requests made before the channel opens (holdUntilCaps).
LatestShapeSent == Freerdp => F!LatestShapeSent

\* The same, where no shape was asked for while an earlier one was still to be sent,
\* but for a layout after a layout.
LatestShapeKept == Freerdp => F!LatestShapeKept

\* RealVNC's gate (connectingSession): two sessions are never in their connect phase
\* at once, where the core faults.
OneConnecting == Realvnc => R!OneConnecting

\* The same, where no end crossed with a session's getting or giving up its handle; the
\* connect timeout waits for every prompt that is up; and when destroy has returned,
\* nothing of the session is left on the core thread, which outlives it.
CoreInOrder == Realvnc => R!GateKept /\ R!TimeoutWaits /\ R!NothingLeft

\* The session in RealVNC's gate has a prompt up, which its user need not answer.
GateAsks == \E i \in Sessions : t.gate = i /\ s[i].shown > 0

\* What a session still owes: closed once its end was requested, destroy's return, and
\* to a session of RealVNC that waits, the gate, unless the one in it is asking its user.
\* Two ends are lost in the code and exempt: one requested before libvncclient dials the
\* path of a UNIX socket, and one whose abort freerdp_connect forgets as it begins.
Owing ==
  IF Realvnc
  THEN \E i \in Sessions : \/ s[i].asked /\ out[i].closed = 0
                           \/ s[i].dead /\ ~freed[i]
                           \/ s[i].waiting /\ ~GateAsks
  ELSE /\ ~((Libvnc \/ Freerdp) /\ t.missed)
       /\ \/ s.quit /\ out.closed = 0
          \/ \E c \in Callers : \E k \in DOMAIN call[c] : call[c][k] = "join"
=============================================================================
