# Vento in TLA+

Specifications of the concurrent core of Vento, a VNC, RDP, SPICE and RustDesk
client for Android and Linux: TLA+ modules translated from the source, TLC runs on
small instances, and TLAPS proofs for every value of the constants.  `PROJECT.json`
lists the parts, runs, hazards and theorems, and maps each definition to the lines
it models.

## The system

A *backend* (`backends/modules/*`) speaks one protocol.  Each session of it has a
protocol thread, started and joined by the *runner* (`backends/runtime`), which
blocks on sockets and on questions to the user.  It reports through a *mailbox*
(`backends/api`), which a Linux window (`linux/src/gui`) drains on its event loop
and Android's JNI *outlet* (`backends/platform/android`) drains on whichever thread
put the event there.  The window calls back into the backend: keys and pointer,
answers, focus, view only, disconnect and destroy.  Four backends are in Rust over
the runtime; FreeRDP, libvncclient, TigerVNC and RealVNC are C and C++ sessions
behind a vtable (`backends/api/src/c.rs`).  The Android app (`app`, `control`,
`plugins`) holds sessions that screens attach to, and turns touch into keys and
pointer.

What is hard to test there is between threads: a close that races a dial, a prompt
or a wake; events coalesced while they are read; requests that two threads each
leave to the other; keys that stay down on somebody else's machine.  The models
start with those.

### Inventory

| part | where | status |
|---|---|---|
| hang-up of blocked sockets | `runtime/src/hangup.rs` | `Hangup`, proved |
| TLS stream of two threads | `runtime/src/tls/stream.rs` | `TlsStream` |
| gate of the C sessions | `api/src/c.rs` | `Gate`, proved |
| runner, bridge, slots, withdrawal | `runtime/src/{runner,slot,handler,client}.rs` | `Slot`, `Runner`, proved |
| RustDesk's password prompt, the Linux window's prompts | `rustdesk/src/client.rs`, `gui/session.rs` | in `Runner` |
| pins: decision and file | `api/src/trust.rs`, `linux/src/known_hosts.rs` | `Pins` |
| mailbox, damage | `api/src/events.rs` | `Mailbox`, `Damage` |
| Linux window's drain | `gui/session.rs` | `Window`, proved |
| Android's outlet, sound controls | `platform/android/src/backend.rs`, `media/audio/mod.rs` | `Outlet`, proved |
| keys at the far end, six backends | `gui/keys.rs`, the modules' clients | `Keys`, proved in part |
| RFB's update requests | `rfb/src/client.rs` | `RfbUpdates`, proved |
| what a C session promises | `api/include/vento/backend.h` | `Session`, the abstract specification |
| RealVNC's core thread and looper | `realvnc/cpp/host/{Looper,DesktopCore}.cxx`, `realvnc_session.cxx` | `Looper`, proved |
| FreeRDP's sound devices | `freerdp/cpp/rdpsnd_vento.c` | `SoundDevice`, proved |
| the four C and C++ sessions | `modules/{libvnc,tigervnc,freerdp,realvnc}/cpp` | `LibvncSession` (proved), `TigervncSession`, `FreerdpSession`, `RealvncSession`, each shown to implement `Session` |
| everything else | | see *Not modelled* |

## Modules

**Hangup.**  `hang_up` stores a flag, locks the list of held sockets and shuts each
down; `hold` locks, tests the flag and pushes; `Holding`'s drop takes the socket out;
`dial_from` connects without blocking, waits in `poll` and lets go.  Each
lock, test and push is a step of its own (`StoreFlag`, `LockHeld`, `ShutDown`,
`SweepDone`; `HoldLock`, `HoldTest`, `HoldPush`; `Drop`), since the code's
argument is about their order.  What the network answers is external.

**TlsStream.**  `Handle` over one rustls connection: `ReadPlain`, `ReadSocket`,
`ReadLock`, `Process`, `Processed` are `read`, with the connection's lock held in the
first and the last three and not in the read of the socket; `Write` begins a call,
`WriteLock` takes the lock for it, and `Piece`, `WriteTls`, `Drained` are the rest of
`write` and `flush`, so that a call kept out of the lock is seen to wait.  A record from
the far end is two units of ciphertext, so that a read may end inside one; rustls is
modelled by what `Handle` sees of it: it takes some of the ciphertext, decrypts whole
records, answers key updates, takes nothing after a close, and fails at a bad record.

**Gate.**  `enter`, `leave`, `destroy`, its wait and the deferred free of `c.rs`, each
one step under the gate's mutex, by threads that call in from inside calls.

**Slot, Runner.**  `Slot` is `slot.rs`: functions of a slot's state, each under its
mutex.  `Runner` composes two of them with the protocol thread (`pc` is where it is),
the listener thread RustDesk runs while it asks, the Linux window that shows and
answers prompts, disconnect's three steps and the teardown thread that destroys and
joins.  `Asks` says which kinds of question a client asks, `ChecksFlag` whether it
looks at its closed flag as it ends (RFB, IronRDP and RustDesk do, SPICE does not).
Answers carry the question they were given to (`to`) and how many had been asked by
then (`at`), as history for the properties.

**Pins.**  A window's decision on a fingerprint (`TrustNeeded`, `Answered`), `vento
--forget`, and the file: `Read`, `Write` (the temporary file, in part), `Sync`,
`Rename`, each of which may fail, and between any two of which the process may die.
The table is a sequence of lines, comments and repeated keys included; a write that
drops a line of another key, or a comment, breaks `PinsStand`.  A ledger
records what was accepted for which address, as history for the property.

**Mailbox, Window.**  `Mailbox` is the queue as functions of its state.  `Window`
composes it (`box`) with the protocol's thread, a thread that puts sounds, and the
window's redraw, which takes the whole queue (`took`) and handles it an event at a time
while more arrives.  Rectangles are numbered marks with the size they were made under.

**Outlet.**  The same mailbox on Android: any thread that puts an event calls `wake`,
which sets `requested`, tries the lock, and, if it gets it, clears, takes, delivers,
unlocks and looks at `requested` again.  One atomic operation is one step.  Delivery
may call back into Java, which may put more (`PutInside`).  `Controls::changed`, which says the
sound under its own lock, is composed with it.

**Damage.**  `Damage::add` over every rectangle of a small desktop, its merge and its
collapse as folds, compared with the set of pixels marked.

**Keys.**  The window's `Keyboard` and the tables of six backends: each operator
gives the table and the keys down at the far end.  Three backends run the call on
their own thread later (`queue`, `Drain`); FreeRDP's ring drops what `makeRoom`
says: a press, or, with nothing but releases in it, the oldest of them for a newer one.
`lost` records, as history, the keys whose release went that way, until they are let go
of again.  A keysym is reduced to its key on the US layout and whether that needs Shift,
which is all the tables look at.

**RfbUpdates.**  The reader (`ServerInit`, `Read`, `RequestFull`, `Clear`, `TestFocus`,
`RequestUpdate`), the window's thread (`SetFocused`, `SetEncodings`, `Ask`,
`AskFull`, `Send`) and a server that answers requests and resizes its desktop.  The
desktop is a row of cells, so that "was all of it sent" can be asked.

**Looper.**  The thread that RealVNC's core runs on, on Linux: `Take` is `run`'s turn
(tasks, delayed tasks, the timeout to poll with), `Answers` is `answerLater` on both
sides of the poll, `Poll` is `unparkDue` and the capped timeout, `Wait`, `TimedOut` and
`Interrupted` are what `epoll_wait` returns, `Handle` one event of the batch and
`Returned` what follows its callback.  `AddFd`, `RemoveFd`, `Open`, `Close`, `Consume`
and `Later` are what the core does inside a task, an answer or a callback; `Post`, then
`WakeUp`, another thread.  The kernel's part is a set of registrations that the close
of a file empties, and numbers that are given again.  `of` and `for` record, as history, which file
a registration and a call are of.

**SoundDevice.**  The two devices, of the static and the dynamic sound channel:
`Entry`, `ServerFormatAnnounce`, `Open`, `PlayEx`, `SetVolume`, `Close` and `Free`
(then `Quit`, `Join`) by the channel's thread, `Closer` and `TimedOut` by the thread
that closes an idle stream, and the switch, whose count changes in one step and which
the platform is told of in the next (`Tell`).  A deadline is the time left until it, and
`unheard`, beside it, the time until the last samples were heard; `crossed` records that
the two channels were telling of the switch at once.

**Session.**  What `vento/backend.h` lets a caller rely on, as a specification of its
own: the order of the callbacks, one question at a time, the reason that `closed`
gives, and destroy.  The calls of `connected` and `closed` and the open questions are
counted, so that one call more is no step of it.  Its steps are what a caller can tell
apart.  Two of them are what the backends do and the header does not say, under names of
their own: `AskBeside` and `GiveUp` (see *Seen while modelling*).

**LibvncSession, TigervncSession, FreerdpSession, RealvncSession.**  The four sessions
written in C and C++, each from its own source and each a protocol thread against
callers.  They share a layout: `pc` is where the protocol thread is, `s` the fields
under the session's lock, `t` the thread's own state and the library's, `out` what the
callbacks have told, `call` what each caller has still to do (a call changes something
under the lock, lets go, and then wakes the thread: two steps).  Three serve a
queue and a socket, and differ in what wakes them (a pipe, a doorbell, an event reset
by hand), in what they hold until the connection is up, and in how an end reaches a
thread that is inside the library.  RealVNC's run on one thread of the process, as tasks
and timeouts, behind a gate that lets one connect at a time; its core puts a prompt
beside another, each is answered on its own with a yes or a no, and the connect timeout
is paused until the last is.  The libraries, the servers and the network are external,
and owe nothing: a FreeRDP that begins to connect may forget an abort from before.

`MCSessions` is their composition with `Session`: `Abs` is the refinement mapping (phase
and counts from what was told, `asking` from where the thread waits or how many prompts
RealVNC has up, `ended` from the session's flag, `declined` from a no that was passed on
to RealVNC's core), and `SessionsImplement` is `Abs!Spec`, checked of all four.  That
every end arrives is asked in `MCProgress`, beside RFB's conversation.

## Runs

| run | checks | distinct states |
|---|---|---|
| `hangup` | no socket slips between the flag and the lock; a broken socket ends as a requested close; a C session is freed once and with nobody inside; TLS messages stay whole, and neither direction holds up the other; every end arrives | 86,486 |
| `runner` | withdrawal against the asking thread's three steps, fresh answers, each answer its own question where nothing withdraws; disconnect is silent and ends, destroy returns; pins stand through overlaps, failures and crashes | 115,812 |
| `runner_late_answer` | *violated*: an answer to a withdrawn prompt answers the next question | |
| `runner_spice_disconnect` | *violated*: a disconnect under a prompt is told as a refusal by SPICE | |
| `events` | coalescing keeps the newest of everything and all damage, frames do not overtake sizes, no wake is lost, the end is last and heard; on Android nothing is stranded, in order, and nothing comes after destroy; the list of rectangles is exact | 503,838 |
| `keys` | nothing stuck at the far end but what a ring full of releases dropped, no release takes another key or the user's Shift, view only is silent; RealVNC's looper calls back what an event is of, watches what is registered and sleeps with nothing to do, and hears everything in the end; FreeRDP's closing thread ends no stream with samples to be heard, the switch is there while a channel offers, and nothing is left of a freed device | 226,848 |
| `keys_freerdp` | *violated*: view only leaves a held key down | |
| `keys_repeat` | *violated*: a repeat at another level leaves RFB's first keysym down | |
| `progress` | RFB's conversation never stops while shown, covers the desktop, repaints every cell, and pauses when hidden; the C sessions' ends arrive though the server is silent | 617,861 |
| `sessions` | the four sessions implement `Session`; a thread sleeps only with nothing left to do; nothing freed is reached into; the latest shape is sent; the gate is kept, and the connect timeout waits for every prompt | 1,877,925 |
| `sessions_shapes` | *violated*: of a size and a layout in flight together FreeRDP may send the older last | |
| `sessions_gate` | *violated*: RealVNC lets a session begin to connect while one that was ended still does | |

Six runs put several small systems side by side that share no state: `part` says
which of them a behaviour is of.  Where a property of such a run has another name than
those of its parts, the MC module says which it joins.

The violated ones state what a comment says, and the trace shows the code doing
otherwise; `PROJECT.json`'s findings quote the lines.

**Bounds.**  Two sockets and two closers: the races are between one dial or hold and one
sweep, and the second of each lets one finish meanwhile.  Three threads at the gate, two
calls deep: one destroys, one is inside, one leaves last.  Two threads on a TLS session,
messages of two pieces, a socket that takes one record, and three short streams that
have a key update behind data and ahead of them, a close and a bad record. Two questions
(three where nothing is withdrawn): an answer can meet the next question and no property
relates more.  Two processes and two changes of the pins, of two spellings of an address
and two of a fingerprint, from files with comments and repeated entries. Two sizes,
marks and modes and one sound: enough for an event to be superseded, merged and
overtaken.  Three puts, two changes of sound and three threads in the outlet: one
delivering, one that leaves word, one between.  Two letters and Shift, a ring of three:
enough to fill it with presses and need a release, and, for FreeRDP, where one letter
and Shift do for that, to fill it with releases.  Two descriptors, registered from the
start, three files and three moves for the looper (opening, registering, posting,
putting off and arrivals; closing, reading and time are free), with the registrations'
numbers about to wrap: two files that have something to say in one batch, of which one
is replaced under its number.  Two sound devices, four calls besides `Free`, and
deadlines of one or three ticks.  One resize and two messages in flight for RFB: the
request before, during and after the change.  A three by three desktop has every way two
rectangles can overlap, touch or cross, and a limit of three is passed.  One caller
beside each C session's own thread, two calls besides the answers and destroy, and rings
of one, so that a change meets a full ring and another change; RealVNC with one session
behind another at the gate, and up to two prompts, of three kinds, beside or after each
other (`PromptKinds`, `MaxPrompts`; `MaxBoth` bounds calls and prompts together).  One
call and one prompt of these for their ends (`progress`), where a temporal property is
asked of every path: the end is that call, or destroy behind it.

**Deadlock** is checked in the hang-up's run and the runner's, whose specifications
loop once everything has ended.  In the others a session may come to
rest with nothing to do: the bounds are used up and the user or server sends nothing.

**Fairness.**  Threads are scheduled (weak fairness for their steps, strong
for those that wait for the hang-up's mutex, as a mutex does not shut one thread out
for ever).  The user owes no answer, in any run, and the network none, except that a read on a
socket that was shut down returns, which is what `shutdown` does.  `Repaints` needs
the server to answer requests (external), and asks only about a window that stays
shown; `Pauses` only about one that stays hidden.  `AllArrives` needs the far end of a
TLS session to read what it is sent, and not to send.  `EndsPromptly` needs nothing of
the server: a call into a library returns once its connection is aborted, a dial within its
timeout, and RealVNC's core reports the end of a session it was told to close.  It does
not say that a session of RealVNC gets through the gate while the one inside it has a
prompt up, nor that the two ends arrive that the code loses (`t.missed`, see *Seen while
modelling*).
`AllIsAttended` needs the looper's thread to go on, a thread that queued a task to
come to its wake, and time to pass for timers, parked descriptors and sound; the
sound's channel owes no call, but one it is inside returns.

## Proofs

Without fairness, from assumptions on the constants (sets of threads apart, bounds
natural numbers) that are named in the modules or stated in the theorems.  Each has
`Init => IInv`, one lemma or step for each action, and the theorems as consequences; TLC
checks the same inductive invariant in a run.

- `ConnectionProofs`, of the hang-up: `IInv` says who holds the mutex, that the list is exactly
  the sockets whose holders are alive, and that after a sweep has begun no thread is
  between its test of the flag and its push.  The last is what `NeverSlips` lacks: a
  thread there would add its socket after the sweep.  It gives `NeverSlips`,
  `BrokenIsClosed` and, as an action property, `NoneHeldAfterSweep`.  Of the gate,
  composed beside it, `GateIInv` adds to `FreedAlone` that whoever is asleep is waiting in
  destroy, so that the last to leave finds it: for any number of threads and any depth of
  calls within calls.
- `ConnectionProofs`, of RFB's requests: `RfbIInv` is `Accounted`, which accounts for
  `requested` (set, an update is on its way or being read; clear with the window shown,
  a thread is about to ask), and `LastIsCurrent` (the last request on its way, or the
  reader about to make one, is for the framebuffer's size).  They give `NeverStuck` and
  `RequestCovers`, for every size of desktop and any number of resizes and messages.
- `RunnerProofs`: `IInv` ties the protocol thread's place to what the slot may
  hold (`Asking`, `TrustAsked`), each event and prompt to a question asked
  (`EventsNameQuestions`), and a cancel to a client that is closed (`ClosedFirst`,
  the order of disconnect's steps).  It gives `AnswerIsFresh`,
  `WithdrawalIsNotMissed` and, for clients with `ChecksFlag`, `DisconnectIsSilent`,
  for any number of questions.
- `OutletProofs`: `IInv` says that what waits has been requested or has a thread
  about to request or take it, and that a request has a thread still to look.
  It gives `NothingStranded` for any number of helpers, and that after destroy the
  mailbox is empty and no thread delivers.  A second invariant, `Delivery`, is about what
  is delivered: the events of the queue and of the one batch that can be in a thread's
  hands are numbered upwards from the last delivered (`Numbered`), the end is told or on
  its way and nothing is behind it (`Ends`), and the sound is said by a thread, or last in
  what waits, or was told (`Current`).  `PushShape` and `PushFacts` say what a push that
  takes an event out of the middle leaves in order.  Together they give `InOrder`, an
  action property, and `OutletSettles`.
- `WindowProofs`: `WindowInv` says that sizes wait in their order, each newer than the one
  shown (`Sizes`), that the latest of each kind is in the mailbox, or in what was taken
  with none in the mailbox behind it, or shown (`LatestComes`), and that nothing is put
  after the end (`NothingAfter`).  `PushMoves` says how a push moves the events it keeps, and the
  lemmas after it what that leaves of each conjunct.  It gives `WindowCatchesUp` and
  `DamageIsDrawn` for any number of sizes, modes, sounds and rectangles.
- `LibvncProofs`: `IInv` is `Types`, `ToldInv` (how often each callback was made, by
  where the thread is, and that the thread knows it), `DestroyInv` (who destroys and
  joins), `ClientInv` (the client that `stop` may reach is there while it is published)
  and `RestInv` (a change has its byte in the pipe, or a caller about to write it, until
  the thread has looked).  It gives `PublishedIsLive`, `RestsWhenIdle`, and
  `LibvncImplements`: `Spec` implies `Session`'s under the refinement mapping, step by
  step.
- `LooperProofs`: `IInv` is `Typed`, `Table` and `Told`.  `Table` adds to
  `RegisteredIsWatched` that a parked registration is of the file its number stands for
  and is either waiting or due, which is what putting it back needs; `Told` says that
  what came since the thread took its tasks has a wake behind it or a timeout before
  it.  It gives `RegisteredIsWatched` and `SleepsIdle` for any number of descriptors,
  files and tasks.  `HeardByItsOwn` needs `Fresh`, that an event of the batch names a
  number given lately, and holds while fewer registrations are made than there are
  numbers (`NumFds + MaxMoves < SeqModulus - 1`, where the code's modulus is 2^32).
- `SoundProofs`: `IInv` is `Typed`, `Timely` (the deadline of an open stream is past its
  last samples, so that a closing thread that looks at it again ends nothing early),
  `InVolume`, `Kept` (what a device offers, plays and runs, by where its channel is),
  `Switched` (the count is the number of devices offering, and the switch is there only
  while one does or is about to withdraw it) and `Uncrossed` (where two never told of
  the switch at once, one tells at a time, and what the count came to).  It gives
  `NotCutShort`, an action property, `InVolume`, `SwitchTells` and `NothingPlays`.
- `KeysProofs`: the looper's and the sound's properties of the composition the run
  checks, `LooperInOrder` and `SoundInOrder`, from their own proofs; and
  `ViewOnlyIsSilent`, an action property of the keys, for any keys and layouts and each of
  the six backends: what is queued are commands, whichever of them the ring drops, and
  under view only none of them puts a key down.

**Only model-checked.**

- Liveness under fairness, which is out of the prover's reach: `EndsArrive`,
  `AllArrives`, `EndsWhenTold`, `AllIsHeard`, `AllIsAttended`, `Repaints`, `Pauses`,
  `EndsPromptly`.
- What needs an induction over data, which is out of its reach too: `DamageIsExact` (what
  a fold over a list of rectangles covers) and `StreamIsWhole` (what the records of
  a sequence spell together).
- `NothingStuck` and `HeldIsDown` are not true of every session, as the violated runs
  show; they would need hypotheses on the layouts and the backend, each its own proof.
- `PinsStand` and `PlainIsInStep`: not yet proved.
- That TigerVNC's, FreeRDP's and RealVNC's sessions implement `Session`, and with them
  `RestsWhenIdle`, `PublishedIsLive`, `LatestShapeKept` and `CoreInOrder` of `MCSessions`,
  which join all four: proved of libvncclient alone.

## Seen while modelling

Besides the findings, and not run:

- libvncclient forgets held keys under view only as FreeRDP does
  (`libvnc_session.c`, `CMD_RELEASE_KEYS`).
- IronRDP's added Shift, released with its character, takes up a Shift the user
  pressed meanwhile; `HeldIsDown` leaves it out.
- Damage marked before a change of size, and not ended as a frame, is reported after
  it (`on_desktop_size`); `FramesNotEarly` is the direction that holds.
- RFB clears `requested` with the full request of a resize unanswered, and sends a
  second beside it.
- Overlapping rectangles whose box is larger than their areas together are
  both kept, so some pixels are read twice, where a comment says "no pixel is read
  twice" (`Damage::add`).
- FreeRDP's sound switch: between one channel's count reaching zero and its
  `withdraw`, the other may count up and offer, and the switch is then gone with a
  channel still offering (`stopOffering`).
- A descriptor that is closed while the looper has it parked, and whose number is opened
  again, is put back under the old registration; `Close` leaves it out, as no call of
  the core is known to do it.
- FreeRDP's ring: with nothing but releases in it, the oldest makes way for a newer one,
  and its key, if really down, stays so until it is let go of again (`makeRoom`).  The
  comment above it says "A release is never chosen", and goes on to this case; the log
  says "never a release".  `NothingStuck` exempts the keys that it happened to.
- libvncclient dials and adopts the path of a UNIX socket without a test of `quit`
  (`initClient`): an end requested before that waits until the server speaks or hangs up.
  FreeRDP's thread does not look at `quit` before `freerdp_connect`, which may reset the
  abort that `stop` has set; the session then goes on to connect.  `EndsPromptly` exempts
  the sessions that either happened to (`t.missed`).
- `backend.h` says that "only one of these questions can be outstanding", and RealVNC's
  core puts one beside another, as `promptShown` says (`Session!AskBeside`).  It says
  that the reason of `closed` is "empty for a requested disconnect", and a connection
  that could not be opened gives its reason though the end was requested meanwhile
  (`Session!GiveUp`).
- RealVNC: a session behind the gate waits for as long as the one inside has a prompt up,
  since its timeout is paused.  One that ends after a no to its core may close with no
  reason.
- RealVNC: an end may cross with the connect timeout between the test of `closed` and
  the exchange of the handle, a timeout behind destroy's last task in the same batch
  runs after it, and one in the same batch as an asked end still reports its reason.
  `sessionClosed` with no message before it closes with no reason though nobody asked.
- `known_hosts`: of two processes that overlap, one's change is lost, or an older pin
  comes back, where the comment in `Store::set` says "Read first, so that what another
  process wrote in the meantime is kept".  `PinsStand` claims the last change only
  where none overlapped.
- TLS: a far end that stops reading until it is read from leaves a writer and the reader
  behind it waiting, until the hang-up.

One corner of the runner is left out: RustDesk's prompt thread failing to start.

## Not modelled

`PROJECT.json` lists every part with its reason.  In groups:

- **Arithmetic and conversions**: decoders, image and colour conversions, the
  resampler, the security types' cryptography, keysym tables, parsing of addresses and options,
  the sound queue's target (measured times and rates).  A model would restate them.
- **Other programs' protocols**: the X11 and Wayland clipboards, PipeWire, ALSA,
  FFmpeg, MediaCodec, AAudio, and Android's life cycle of activities and services.
  The repository states only the part it uses.
- **The libraries' state machines**: FreeRDP, LibVNCClient, TigerVNC, IronRDP, rustls
  and RealVNC's core are external, modelled where the code meets them.
- **One thread, step after step**: layout, drawing, dialogs, settings, the command
  line, downloads, gestures, the on-screen keyboards, the window's follower.  They
  have tests of their own.
- **Ports and generated code**: by far most of the repository's C is headers and
  sources of third-party libraries and of the platform, under
  `backends/platform/*/ports` and the like, and is not this program's behaviour.  The
  share of all lines that the map reaches is small for that reason.

Hazards in those parts that no model here reaches: the app's close timeout and queued
prompts (`Session.java:508`, `:551`), a clipboard echo that arrives after the next copy
(`SessionClipboard.java:124`, `gui/clipboard/mod.rs:158`), an early trust answer
on Android (`platform/android/src/backend.rs:1107`), and the sound queue at its limit
(`media/audio/queue.rs:258`).
