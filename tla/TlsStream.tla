------------------------------ MODULE TlsStream ------------------------------
(***************************************************************************)
(* One TLS session, read by one thread and written by that one and by      *)
(* others (Handle, runtime/src/tls/stream.rs). The rustls connection is    *)
(* behind a mutex, the writing socket behind another, and the read that    *)
(* may block for ever is made with neither held. Only one thread reads,    *)
(* so that socket_read is never contended and is left out.                 *)
(*                                                                         *)
(* A record from the far end is two units of ciphertext, so that a read of *)
(* the socket may end within one. A record to it is a piece of a message,  *)
(* pieces counted down to 1, or the reply to a key update.                 *)
(***************************************************************************)
EXTENDS Naturals, Sequences

CONSTANTS
  Reader, Writers, NoThread,
  Pieces,    \* a message is longer than rustls's send buffer: so many times
  Messages,  \* bound: how many writes or flushes each of Writers makes
  Room,      \* the records a socket takes before the far end reads
  Traffic    \* what the far end may send: sequences of "data", "update", "close", "bad"

Threads == Writers \cup {Reader}

VARIABLES
  conn,    \* the connection: its lock, plain (decrypted and unread), out, closed
  wlock,   \* who has socket_write
  at,      \* where each thread is
  todo,    \* of each thread: the pieces of its message still to write, and its calls
  sent,    \* the traffic
  inbound, \* what of it nobody has read
  chunk,   \* ciphertext[at..filled] of the reader's Handle
  given,   \* the data that read has handed out
  carried, \* every record the socket took
  taken,   \* how many of them the far end has read
  broken   \* the socket is of no more use

vars == <<conn, wlock, at, todo, sent, inbound, chunk, given, carried, taken, broken>>

\* Records as ciphertext: the first half of one, then the half that completes it.
Units(records) ==
  [i \in 1..(2 * Len(records)) |->
     IF i % 2 = 1 THEN <<"half", i>> ELSE <<records[i \div 2], i>>]

Of(kind, units) == SelectSeq(units, LAMBDA u : u[1] = kind)

Reply == <<Reader, 0, 1>>

Init ==
  /\ conn = [lock |-> NoThread, plain |-> <<>>, out |-> <<>>, closed |-> FALSE]
  /\ wlock = NoThread
  /\ at = [x \in Threads |-> "idle"]
  /\ todo = [x \in Threads |-> [pieces |-> 0, calls |-> IF x \in Writers THEN Messages ELSE 0]]
  /\ sent \in {Units(records) : records \in Traffic}
  /\ inbound = sent
  /\ chunk = <<>> /\ given = <<>> /\ carried = <<>> /\ taken = 0 /\ broken = FALSE

GoesTo(x, to) == at' = [at EXCEPT ![x] = to]

LetGo == conn' = [conn EXCEPT !.lock = NoThread]

-----------------------------------------------------------------------------
(* read, which the reader calls again until the stream has ended.          *)

\* reader().read: what is decrypted, as much as the caller's buffer takes; the end
\* of the stream; or WouldBlock, and the lock is let go.
ReadPlain ==
  /\ at[Reader] = "idle" /\ conn.lock = NoThread
  /\ \/ \E n \in 1..Len(conn.plain) :
          /\ given' = given \o SubSeq(conn.plain, 1, n)
          /\ conn' = [conn EXCEPT !.plain = SubSeq(@, n + 1, Len(@))]
          /\ UNCHANGED at
     \/ /\ conn.plain = <<>>
        /\ GoesTo(Reader, IF conn.closed THEN "ended" ELSE "sock") /\ UNCHANGED <<conn, given>>
  /\ UNCHANGED <<wlock, todo, sent, inbound, chunk, carried, taken, broken>>

FromSocket ==
  /\ \E n \in 1..Len(inbound) :
       /\ chunk' = SubSeq(inbound, 1, n)
       /\ inbound' = SubSeq(inbound, n + 1, Len(inbound))
  /\ GoesTo(Reader, "lock")

\* Mutant: the socket is read though ciphertext is left.
ReadSocketAlways ==
  /\ at[Reader] = "sock" /\ FromSocket
  /\ UNCHANGED <<conn, wlock, todo, sent, given, carried, taken, broken>>

\* Ciphertext that is left comes first; else the read that blocks, which a broken
\* socket ends.
ReadSocket ==
  /\ at[Reader] = "sock"
  /\ \/ chunk # <<>> /\ GoesTo(Reader, "lock") /\ UNCHANGED <<chunk, inbound>>
     \/ chunk = <<>> /\ FromSocket
     \/ chunk = <<>> /\ broken /\ GoesTo(Reader, "ended") /\ UNCHANGED <<chunk, inbound>>
  /\ UNCHANGED <<conn, wlock, todo, sent, given, carried, taken, broken>>

ReadLock ==
  /\ at[Reader] = "lock" /\ conn.lock = NoThread
  /\ conn' = [conn EXCEPT !.lock = Reader]
  /\ GoesTo(Reader, "feed")
  /\ UNCHANGED <<wlock, todo, sent, inbound, chunk, given, carried, taken, broken>>

\* read_tls and process_new_packets: rustls takes some of the ciphertext, nothing
\* after a close, and answers a key update. It fails at a record that is bad.
Process ==
  /\ at[Reader] = "feed"
  /\ chunk # <<>> /\ conn.plain = <<>> /\ ~conn.closed
  /\ \E n \in 1..Len(chunk) :
       LET units == SubSeq(chunk, 1, n)
           read == [conn EXCEPT !.plain = Of("data", units),
                                !.closed = Of("close", units) # <<>>,
                                !.out = @ \o [i \in 1..Len(Of("update", units)) |-> Reply]]
       IN
       /\ \A i \in 1..(n - 1) : units[i][1] # "close"
       /\ chunk' = SubSeq(chunk, n + 1, Len(chunk))
       /\ IF Of("bad", units) = <<>>
          THEN conn' = read /\ UNCHANGED at
          ELSE conn' = [read EXCEPT !.lock = NoThread] /\ GoesTo(Reader, "failed")
  /\ UNCHANGED <<wlock, todo, sent, inbound, given, carried, taken, broken>>

\* The loop is over: what the records made rustls want to say is sent under the lock.
Processed ==
  /\ at[Reader] = "feed"
  /\ chunk = <<>> \/ conn.plain # <<>> \/ conn.closed
  /\ IF conn.out # <<>>
     THEN wlock = NoThread /\ wlock' = Reader /\ GoesTo(Reader, "drain") /\ UNCHANGED conn
     ELSE LetGo /\ GoesTo(Reader, "idle") /\ UNCHANGED wlock
  /\ UNCHANGED <<todo, sent, inbound, chunk, given, carried, taken, broken>>

-----------------------------------------------------------------------------
(* write and flush                                                         *)

\* A caller of write, or of flush, which has nothing to add, asks for the connection.
Write(x) ==
  /\ at[x] = "idle" /\ todo[x].calls > 0
  /\ \E n \in {0, Pieces} : todo' = [todo EXCEPT ![x] = [pieces |-> n, calls |-> @.calls - 1]]
  /\ GoesTo(x, "call")
  /\ UNCHANGED <<conn, wlock, sent, inbound, chunk, given, carried, taken, broken>>

\* Mutant: the connection is not taken for the whole of the message.
WriteUnlocked(x) ==
  /\ at[x] = "call" /\ GoesTo(x, "piece")
  /\ UNCHANGED <<conn, wlock, todo, sent, inbound, chunk, given, carried, taken, broken>>

\* It is let in once nobody has the connection, which it then keeps.
WriteLock(x) ==
  /\ at[x] = "call" /\ conn.lock = NoThread
  /\ conn' = [conn EXCEPT !.lock = x]
  /\ GoesTo(x, "piece")
  /\ UNCHANGED <<wlock, todo, sent, inbound, chunk, given, carried, taken, broken>>

\* What rustls takes of the message, and then the socket.
Piece(x) ==
  /\ at[x] = "piece" /\ wlock = NoThread
  /\ wlock' = x
  /\ GoesTo(x, "drain")
  /\ IF todo[x].pieces > 0
     THEN /\ conn' = [conn EXCEPT !.out = Append(@, <<x, todo[x].calls + 1, todo[x].pieces>>)]
          /\ todo' = [todo EXCEPT ![x].pieces = @ - 1]
     ELSE UNCHANGED <<conn, todo>>
  /\ UNCHANGED <<sent, inbound, chunk, given, carried, taken, broken>>

\* write_tls, which waits while the socket is full.
WriteTls(x) ==
  /\ at[x] = "drain" /\ conn.out # <<>> /\ ~broken
  /\ Len(carried) - taken < Room
  /\ carried' = Append(carried, Head(conn.out))
  /\ conn' = [conn EXCEPT !.out = Tail(@)]
  /\ UNCHANGED <<wlock, at, todo, sent, inbound, chunk, given, taken, broken>>

\* It fails: the thread returns, and both guards are dropped.
WriteFails(x) ==
  /\ at[x] = "drain" /\ conn.out # <<>> /\ broken
  /\ LetGo /\ wlock' = NoThread
  /\ GoesTo(x, "failed")
  /\ UNCHANGED <<todo, sent, inbound, chunk, given, carried, taken, broken>>

\* Nothing is left to send: the next piece, or the end of the call.
Drained(x) ==
  /\ at[x] = "drain" /\ conn.out = <<>>
  /\ wlock' = NoThread
  /\ IF todo[x].pieces > 0
     THEN GoesTo(x, "piece") /\ UNCHANGED conn
     ELSE GoesTo(x, "idle") /\ LetGo
  /\ UNCHANGED <<todo, sent, inbound, chunk, given, carried, taken, broken>>

-----------------------------------------------------------------------------
(* The far end and the network.                                            *)

FarEndReads ==
  /\ taken < Len(carried)
  /\ taken' = taken + 1
  /\ UNCHANGED <<conn, wlock, at, todo, sent, inbound, chunk, given, carried, broken>>

\* The far end is gone, or the socket was shut down by Hangup.
Breaks ==
  /\ ~broken /\ broken' = TRUE
  /\ UNCHANGED <<conn, wlock, at, todo, sent, inbound, chunk, given, carried, taken>>

-----------------------------------------------------------------------------

\* Mutant: a read keeps the connection from its first look into it to its return, while
\* it waits for the socket too.
ReadsHolding ==
  \/ /\ at[Reader] = "idle" /\ conn.lock = NoThread
     /\ IF conn.plain # <<>> \/ conn.closed
        THEN ReadPlain
        ELSE /\ GoesTo(Reader, "sock") /\ conn' = [conn EXCEPT !.lock = Reader]
             /\ UNCHANGED <<wlock, todo, sent, inbound, chunk, given, carried, taken, broken>>
  \/ ReadSocket /\ at'[Reader] = "lock"
  \/ /\ at[Reader] = "sock" /\ chunk = <<>> /\ broken
     /\ GoesTo(Reader, "ended") /\ LetGo
     /\ UNCHANGED <<wlock, todo, sent, inbound, chunk, given, carried, taken, broken>>
  \/ /\ at[Reader] = "lock" /\ GoesTo(Reader, "feed")
     /\ UNCHANGED <<conn, wlock, todo, sent, inbound, chunk, given, carried, taken, broken>>
  \/ Process \/ Processed

Reads == ReadPlain \/ ReadSocket \/ ReadLock \/ Process \/ Processed

GoesOn(x) ==
  \/ x = Reader /\ Reads
  \/ WriteLock(x) \/ Piece(x) \/ WriteTls(x) \/ WriteFails(x) \/ Drained(x)

Next == (\E x \in Threads : GoesOn(x) \/ Write(x)) \/ FarEndReads \/ Breaks

-----------------------------------------------------------------------------
(* Properties                                                              *)

\* "The whole buffer under one lock": on the wire a message's pieces follow each
\* other with nothing between. What read hands out is the far end's data, in order
\* and with none dropped between the socket and rustls. No record is left
\* unsent in a connection whose lock is free, but one that a failing read leaves.
StreamIsWhole ==
  /\ \A i \in 1..(Len(carried) - 1) :
       LET one == carried[i]
           next == carried[i + 1]
       IN IF one[3] > 1
          THEN next = [one EXCEPT ![3] = @ - 1]
          ELSE next = Reply \/ next[3] = Pieces
  /\ at[Reader] # "failed" =>
       /\ given \o conn.plain \o Of("data", chunk \o inbound) = Of("data", sent)
       /\ conn.lock = NoThread /\ ~broken => conn.out = <<>>

\* A call of write returns, from the moment it asks for the connection and whether or
\* not anything arrives.
WriteReturns(x) == at[x] = "call" ~> at[x] \in {"idle", "failed"}

\* What the far end sent is handed out, and the end of the stream is noticed.
ReadArrives ==
  /\ <>(broken \/ at[Reader] = "failed" \/ given = Of("data", sent))
  /\ broken \/ conn.closed ~> at[Reader] \in {"ended", "failed"}
=============================================================================
