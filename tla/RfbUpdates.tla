----------------------------- MODULE RfbUpdates -----------------------------
(***************************************************************************)
(* How the RFB client paces a server (backends/modules/rfb/src/client.rs): *)
(* a server sends no update that was not requested, so the reader requests *)
(* the next one after each, unless the window is hidden, and the window's  *)
(* thread starts it again.  The two share requested under its lock.  A     *)
(* desktop is the cells 1..size; the server is external.                   *)
(***************************************************************************)
EXTENDS Integers, Sequences

CONSTANTS
  MaxSize,     \* bound: the largest desktop
  MaxResizes,  \* bound: resizes by the server
  MaxBehind    \* bound: messages on their way when the window's thread acts

ASSUME RfbAssumption ==
  /\ MaxSize \in Nat \ {0} /\ MaxResizes \in Nat /\ MaxBehind \in Nat

VARIABLES
  reader,      \* where the protocol's thread is
  ui,          \* where the window's thread is
  asked,       \* the request the window's thread is making, with the lock held
  requested,   \* Shared::requested
  running, focused,
  fb,          \* the framebuffer's size
  blank,       \* its cells not drawn since it was last resized
  out,         \* requests not yet at the server: the channel, the writer, TCP
  inq,         \* updates not yet read
  want,        \* the size the server was asked for and has not answered, or 0
  size, told,  \* the server's desktop, and whether the client knows its size
  stale,       \* its cells changed since they were last sent
  resizes

client == <<reader, ui, asked, requested, running, focused, fb, blank>>
server == <<want, size, told, stale, resizes>>
rfbVars == <<client, out, inq, server>>

Locked == ui = "send"
Request(full) == [full |-> full, size |-> fb]

RfbInit ==
  /\ reader = "connect" /\ ui = "idle" /\ asked = [full |-> FALSE, size |-> 0]
  /\ requested = FALSE /\ running = FALSE /\ focused \in BOOLEAN
  /\ fb = 0 /\ blank = {}
  /\ out = <<>> /\ inq = <<>>
  /\ want = 0 /\ size \in 1..MaxSize /\ told = TRUE /\ stale = {} /\ resizes = 0

-----------------------------------------------------------------------------
(* The protocol's thread: session, read_loop, framebuffer_update *)

\* ServerInit: the framebuffer gets its size and the session runs.
ServerInit ==
  /\ reader = "connect"
  /\ fb' = size /\ blank' = 1..size /\ told' = TRUE
  /\ running' = TRUE /\ reader' = "first"
  /\ UNCHANGED <<ui, asked, requested, focused, out, inq, want, size, stale, resizes>>

\* Mutant: the request does not wait for one the window's thread is making.
RequestFullAtOnce ==
  /\ reader \in {"first", "full"}
  /\ requested' = TRUE
  /\ out' = Append(out, Request(TRUE))
  /\ reader' = IF reader = "first" THEN "read" ELSE "clear"
  /\ UNCHANGED <<ui, asked, running, focused, fb, blank, inq, server>>

\* Mutant: only what changed is requested.
RequestFullChanged ==
  /\ reader \in {"first", "full"} /\ ~Locked
  /\ requested' = TRUE
  /\ out' = Append(out, Request(FALSE))
  /\ reader' = IF reader = "first" THEN "read" ELSE "clear"
  /\ UNCHANGED <<ui, asked, running, focused, fb, blank, inq, server>>

\* request_update_full, after ServerInit and after a change of size.
RequestFull ==
  /\ reader \in {"first", "full"} /\ ~Locked
  /\ requested' = TRUE
  /\ out' = Append(out, Request(TRUE))
  /\ reader' = IF reader = "first" THEN "read" ELSE "clear"
  /\ UNCHANGED <<ui, asked, running, focused, fb, blank, inq, server>>

\* framebuffer_update.  A DesktopSize always clears the framebuffer and asks for
\* all of it; an ExtendedDesktopSize only when the size is another.
Read ==
  /\ reader = "read" /\ inq # <<>>
  /\ inq' = Tail(inq)
  /\ LET u == Head(inq)
         resized == u.size # 0 /\ ~(u.extended /\ u.size = fb)
     IN /\ fb' = IF resized THEN u.size ELSE fb
        /\ blank' = IF resized THEN 1..u.size ELSE blank \ u.cells
        /\ reader' = IF resized THEN "full" ELSE "clear"
  /\ UNCHANGED <<ui, asked, requested, running, focused, out, server>>

\* Mutant: requested is not cleared.
ClearNot ==
  /\ reader = "clear" /\ ~Locked
  /\ reader' = "test"
  /\ UNCHANGED <<ui, asked, requested, running, focused, fb, blank, out, inq, server>>

\* read_loop, after an update: requested is cleared...
Clear ==
  /\ reader = "clear" /\ ~Locked
  /\ requested' = FALSE
  /\ reader' = "test"
  /\ UNCHANGED <<ui, asked, running, focused, fb, blank, out, inq, server>>

\* Mutant: a hidden window goes on requesting.
TestFocusNot ==
  /\ reader = "test"
  /\ reader' = "ask"
  /\ UNCHANGED <<ui, asked, requested, running, focused, fb, blank, out, inq, server>>

\* ...then the focus is read...
TestFocus ==
  /\ reader = "test"
  /\ reader' = IF focused THEN "ask" ELSE "read"
  /\ UNCHANGED <<ui, asked, requested, running, focused, fb, blank, out, inq, server>>

\* ...and the next update requested, unless the window's thread has (request_update).
RequestUpdate ==
  /\ reader = "ask" /\ ~Locked
  /\ requested' = TRUE
  /\ out' = IF requested THEN out ELSE Append(out, Request(FALSE))
  /\ reader' = "read"
  /\ UNCHANGED <<ui, asked, running, focused, fb, blank, inq, server>>

\* The socket breaks, or the server says something it may not.
End ==
  /\ reader = "read"
  /\ reader' = "over" /\ running' = FALSE
  /\ UNCHANGED <<ui, asked, requested, focused, fb, blank, out, inq, server>>

-----------------------------------------------------------------------------
(* The window's thread *)

\* Mutant: the flag is stored, and nothing requested.
SetFocusedOnly(v) ==
  /\ ui = "idle" /\ Len(out) + Len(inq) < MaxBehind
  /\ focused' = v
  /\ UNCHANGED <<reader, ui, asked, requested, running, fb, blank, out, inq, server>>

\* set_focused: the flag is stored, and an update is requested if it was set.
SetFocused(v) ==
  /\ ui = "idle" /\ Len(out) + Len(inq) < MaxBehind
  /\ focused' = v
  /\ ui' = IF v THEN "ask" ELSE "idle"
  /\ UNCHANGED <<reader, asked, requested, running, fb, blank, out, inq, server>>

\* request_update: under the lock, unless a request is outstanding.
Ask ==
  /\ ui = "ask"
  /\ IF requested \/ ~running
     THEN ui' = "idle" /\ UNCHANGED <<requested, asked>>
     ELSE ui' = "send" /\ requested' = TRUE /\ asked' = Request(FALSE)
  /\ UNCHANGED <<reader, running, focused, fb, blank, out, inq, server>>

\* set_encodings: the whole desktop again, whatever is outstanding.
SetEncodings ==
  /\ ui = "idle" /\ running /\ Len(out) + Len(inq) < MaxBehind
  /\ ui' = "askfull"
  /\ UNCHANGED <<reader, asked, requested, running, focused, fb, blank, out, inq, server>>

AskFull ==
  /\ ui = "askfull"
  /\ ui' = "send" /\ requested' = TRUE /\ asked' = Request(TRUE)
  /\ UNCHANGED <<reader, running, focused, fb, blank, out, inq, server>>

\* The request is sent and the lock let go of.
Send ==
  /\ ui = "send"
  /\ out' = Append(out, asked)
  /\ ui' = "idle"
  /\ UNCHANGED <<reader, asked, requested, running, focused, fb, blank, inq, server>>

-----------------------------------------------------------------------------
(* The server.  It answers what it was asked with one update, however many  *)
(* requests that was, when it has something to say.                         *)

Receive ==
  /\ out # <<>>
  /\ LET r == Head(out) IN
       /\ want' = IF r.size > want THEN r.size ELSE want
       /\ stale' = IF r.full THEN stale \cup {c \in 1..size : c <= r.size} ELSE stale
  /\ out' = Tail(out)
  /\ UNCHANGED <<client, inq, size, told, resizes>>

AnswerSize ==
  /\ want # 0 /\ ~told
  /\ \E e \in BOOLEAN : inq' = Append(inq, [size |-> size, extended |-> e, cells |-> {}])
  /\ want' = 0 /\ told' = TRUE
  /\ UNCHANGED <<client, out, size, stale, resizes>>

AnswerCells ==
  LET cells == {c \in stale : c <= want} IN
  /\ want # 0 /\ told /\ cells # {}
  /\ inq' = Append(inq, [size |-> 0, extended |-> FALSE, cells |-> cells])
  /\ want' = 0 /\ stale' = stale \ cells
  /\ UNCHANGED <<client, out, size, told, resizes>>

Change ==
  /\ \E c \in 1..size : stale' = stale \cup {c}
  /\ UNCHANGED <<client, out, inq, want, size, told, resizes>>

Resize ==
  /\ reader # "connect" /\ resizes < MaxResizes
  /\ \E s \in 1..MaxSize : size' = s /\ stale' = IF s = size THEN stale ELSE 1..s
  /\ told' = FALSE /\ resizes' = resizes + 1
  /\ UNCHANGED <<client, out, inq, want>>

Reader == ServerInit \/ RequestFull \/ Read \/ Clear \/ TestFocus \/ RequestUpdate
Ui == Ask \/ AskFull \/ Send
Answers == AnswerSize \/ AnswerCells

RfbNext ==
  \/ Reader \/ End
  \/ (\E v \in BOOLEAN : SetFocused(v)) \/ SetEncodings \/ Ui
  \/ Receive \/ Answers \/ Change \/ Resize

RfbSpec == RfbInit /\ [][RfbNext]_rfbVars

-----------------------------------------------------------------------------
(* Properties *)

\* A request or its answer is on its way.
Outstanding == out # <<>> \/ want # 0 \/ inq # <<>>

Requests == [full : BOOLEAN, size : Nat \ {0}]
Updates == [size : Nat, extended : BOOLEAN, cells : SUBSET Nat]

FlagsOK == requested \in BOOLEAN /\ running \in BOOLEAN /\ focused \in BOOLEAN

RfbTypeOK ==
  /\ reader \in {"connect", "first", "read", "full", "clear", "test", "ask", "over"}
  /\ ui \in {"idle", "ask", "askfull", "send"}
  /\ fb \in Nat /\ want \in Nat /\ size \in Nat \ {0} /\ stale \subseteq Nat
  /\ out \in Seq(Requests) /\ inq \in Seq(Updates)

\* requested is set only while an update is asked for, on its way or being read;
\* and when it is clear with the window shown, a thread is on its way to ask.
\* With the types, this is inductive, and NeverStuck follows.
Accounted ==
  /\ FlagsOK /\ RfbTypeOK
  /\ running => reader \notin {"connect", "over"} /\ fb # 0
  /\ reader \notin {"connect", "over"} => running
  /\ ui = "askfull" => fb # 0
  /\ ui = "send" => asked \in Requests
  /\ requested => Outstanding \/ Locked \/ reader \in {"full", "clear"}
  /\ running /\ focused /\ ~requested => reader \in {"first", "test", "ask"} \/ ui = "ask"

\* Unless the reader is about to ask for all of a framebuffer it has just resized,
\* the request made last, wherever it is by now, was for the framebuffer's size.
\* RequestCovers follows.
LastIsCurrent ==
  /\ reader = "connect" => out = <<>> /\ want = 0 /\ ui \in {"idle", "ask"}
  /\ reader # "full" =>
       /\ Locked => asked.size = fb
       /\ out # <<>> => out[Len(out)].size = fb
       /\ want # 0 /\ out = <<>> => want >= fb

RfbIInv == Accounted /\ LastIsCurrent

\* While the window is shown and the session runs, the conversation never stops:
\* a request or an answer is on its way, or one of the threads is about to make
\* one.  Each leaves it to the other when it finds requested set or focused
\* clear, and they never both do.
NeverStuck ==
  running /\ focused =>
    Outstanding \/ reader # "read" \/ ui # "idle"

\* When the reader has nothing left to read, what the server was or is about to be
\* asked for is no smaller than the framebuffer: a request made for the size
\* before is followed by one for the size after.
RequestCovers ==
  reader = "read" /\ inq = <<>> /\ ~Locked /\ Outstanding =>
    want >= fb \/ \E i \in 1..Len(out) : out[i].size >= fb

\* While the window stays shown, every cell that changed or was cleared by a
\* resize is drawn in the end.
Repaints ==
  \A c \in 1..MaxSize :
    <>[](focused /\ running) => []<>(c > size \/ c \notin stale \cup blank)

\* While it stays hidden, and its thread asks for nothing, requests dry up: "This
\* is the whole pause mechanism", set_focused.
Pauses == <>[](~focused /\ ui = "idle") => <>[](out = <<>>)
=============================================================================
