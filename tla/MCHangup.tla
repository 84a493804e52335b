------------------------------ MODULE MCHangup ------------------------------
(***************************************************************************)
(* A connection, the threads that share it and how its end reaches them,   *)
(* for TLC. Three parts, each with its own state: Hangup, with two sockets *)
(* (RustDesk's rendezvous keeps one held while it dials the next) and two  *)
(* threads that hang up; Gate, with threads that call into a session while *)
(* one of them destroys it; and TlsStream, with the protocol's thread,     *)
(* which reads and writes, and a writer's. part says which of them a       *)
(* behaviour is of, and never changes.                                     *)
(***************************************************************************)
EXTENDS Hangup, Sequences

CONSTANTS GateThreads, MaxDepth, Protocol, WriterThread, Pieces, Messages, Room

\* A key update behind data and ahead of them; the far end's close; a bad record.
Traffic == {<<"data", "data", "update">>, <<"update", "data", "close">>, <<"data", "bad">>}

VARIABLES
  part,
  inside, destroyed, deferred, at, asleep, frees,
  conn, wlock, where, todo, sent, inbound, chunk, given, carried, taken, broken

G == INSTANCE Gate WITH Threads <- GateThreads
T == INSTANCE TlsStream WITH
       at <- where, Reader <- Protocol, Writers <- {Protocol, WriterThread}

gateVars == <<inside, destroyed, deferred, at, asleep, frees>>
tlsVars == <<conn, wlock, where, todo, sent, inbound, chunk, given, carried, taken, broken>>
mcVars == <<part, vars, gateVars, tlsVars>>

\* Of a part that does not run, one initial state is enough.
MCInit ==
  /\ part \in {"hangup", "gate", "tls"} /\ Init /\ G!Init /\ T!Init
  /\ part # "tls" => Len(sent) = 4

\* A session that was freed, with no call in progress: the gate rests.
GateRests == frees = 1 /\ UNCHANGED gateVars

\* No call is in progress but a read that waits for the far end: so does the stream.
TlsRests ==
  /\ \A x \in T!Threads : where[x] \in {"idle", "sock", "ended", "failed"}
  /\ UNCHANGED tlsVars

MCNext ==
  /\ UNCHANGED part
  /\ \/ part = "hangup" /\ Next /\ UNCHANGED <<gateVars, tlsVars>>
     \/ part = "gate" /\ (G!Next \/ GateRests) /\ UNCHANGED <<vars, tlsVars>>
     \/ part = "tls" /\ (T!Next \/ TlsRests) /\ UNCHANGED <<vars, gateVars>>

HangupGoesOn == part = "hangup" /\ UNCHANGED <<part, gateVars, tlsVars>>
GateGoesOn(t) == part = "gate" /\ G!GoesOn(t) /\ UNCHANGED <<part, vars, tlsVars>>
TlsGoesOn(A) == part = "tls" /\ A /\ UNCHANGED <<part, vars, gateVars>>

\* The threads are scheduled, and the mutex is not kept from one for ever; the
\* network and the user owe nothing, but that the far end of a TLS session reads.
MCSpec ==
  /\ MCInit /\ [][MCNext]_mcVars
  /\ \A s \in Sockets : SF_mcVars(HangupGoesOn /\ SocketStep(s))
  /\ \A c \in Closers : SF_mcVars(HangupGoesOn /\ CloserStep(c))
  /\ \A t \in GateThreads : WF_mcVars(GateGoesOn(t))
  /\ \A x \in T!Threads : WF_mcVars(TlsGoesOn(T!GoesOn(x)))
  /\ WF_mcVars(TlsGoesOn(T!FarEndReads))

-----------------------------------------------------------------------------
(* Properties: those of Hangup are its own, but for EndsArrive.            *)

\* The session is freed once and with no call in progress, and who is to free it is
\* never forgotten (Gate!FreedAlone).
FreedAlone == G!FreedAlone

\* Both ends arrive: a hang-up ends every dial and session though the network never
\* answers, and a session whose destroy has begun is freed once the calls return.
EndsArrive == HangUpEndsAll /\ (destroyed ~> frees = 1)

\* Handle's write puts a message's pieces on the wire with nothing between, its read
\* hands out all of the far end's data in order, and neither leaves a record unsent
\* (TlsStream!StreamIsWhole).
StreamIsWhole == T!StreamIsWhole

\* "Holding the connection here would stop every keystroke": a thread that calls write is
\* let in and returns though nothing arrives while another waits for the socket, and what
\* arrives is handed out though others write.
AllArrives ==
  part = "tls" => T!ReadArrives /\ T!WriteReturns(Protocol) /\ T!WriteReturns(WriterThread)
=============================================================================
