----------------------------- MODULE MCProgress -----------------------------
(***************************************************************************)
(* What must go on in a session, for TLC: RFB's conversation with its      *)
(* server, and the end of a session of each C and C++ backend. part is     *)
(* "rfb" or the backend a behaviour is of, and never changes.              *)
(***************************************************************************)
EXTENDS RfbUpdates

CONSTANTS
  Parts, Callers, Encodings, RingSize, QueueMax, PromptKinds, MaxCalls, MaxPrompts, MaxBoth,
  Sessions, Watched, None

VARIABLES part, pc, s, t, wake, events, call, freed, calls

S == INSTANCE MCSessions WITH out <- events

sessionVars == <<pc, s, t, wake, events, call, freed, calls>>
mcVars == <<part, rfbVars, sessionVars>>

Rfb == part = "rfb"

\* Of the part that does not run, one initial state is enough.
MCInit ==
  /\ RfbInit
  /\ \/ /\ part = "rfb" /\ pc = None /\ s = None /\ t = None /\ wake = None
        /\ events = None /\ call = None /\ freed = None /\ calls = None
     \/ S!Init /\ ~focused /\ size = 1

MCNext ==
  \/ Rfb /\ RfbNext /\ UNCHANGED <<part, sessionVars>>
  \/ ~Rfb /\ S!Next /\ UNCHANGED rfbVars

RfbGoesOn(A) == Rfb /\ A /\ UNCHANGED <<part, sessionVars>>
SessionGoesOn(A) == ~Rfb /\ A /\ UNCHANGED rfbVars

\* The threads run, and RFB's server reads and answers requests; of a session, the
\* steps MCSessions names.
MCSpec ==
  /\ MCInit /\ [][MCNext]_mcVars
  /\ WF_mcVars(RfbGoesOn(Reader)) /\ WF_mcVars(RfbGoesOn(Ui))
  /\ WF_mcVars(RfbGoesOn(Receive)) /\ WF_mcVars(RfbGoesOn(Answers))
  /\ WF_mcVars(SessionGoesOn(S!Threads)) /\ WF_mcVars(SessionGoesOn(S!Channels))
  /\ \A c \in Callers : WF_mcVars(SessionGoesOn(S!CallGoesOn(c)))
  /\ \A i \in Sessions :
       /\ WF_mcVars(SessionGoesOn(S!SessionGoesOn(i)))
       /\ WF_mcVars(SessionGoesOn(S!Reported(i)))

-----------------------------------------------------------------------------
(* Properties: those of RFB's conversation are RfbUpdates'.                *)

\* A session that was ended reports closed, and destroy returns, though the server neither
\* sends nor reads and the user answers nothing, unless the end was requested before
\* libvncclient dialled a UNIX socket or its abort was forgotten by freerdp_connect. A
\* session of RealVNC that waits for the gate gets it, fails or is ended, unless the one
\* in it comes to ask its user: its timeout is paused then. Again and again there is no
\* such debt.
EndsPromptly == []<>(Rfb \/ ~S!Owing)
=============================================================================
