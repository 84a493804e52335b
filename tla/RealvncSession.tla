--------------------------- MODULE RealvncSession ---------------------------
(***************************************************************************)
(* The sessions of RealVNC's core (modules/realvnc/cpp/                    *)
(* realvnc_session.cxx). One thread of the process owns every call into    *)
(* the core and delivers every callback: it takes the tasks posted to it   *)
(* and the timeouts that are due, runs them, and polls the core. A gate    *)
(* keeps the connect phases of two sessions apart. Each session has a      *)
(* thread that calls in.                                                   *)
(*                                                                         *)
(* The core is external and closed: it connects, asks, fails or stays      *)
(* silent as it likes, tells an error before it ends a session by itself,  *)
(* and reports the end of one it was told to close.                        *)
(***************************************************************************)
EXTENDS Naturals, Sequences, SequencesExt

CONSTANTS
  Sessions,     \* the sessions created
  None,         \* no session
  PromptKinds,  \* the prompts of the core to look at: "passwd", "security", "message"
  MaxCalls,     \* bound: calls made, other than answers
  MaxPrompts,   \* bound: prompts shown
  MaxBoth       \* bound: the two together

VARIABLES
  pc,     \* what the task being run has still to do: pairs of a step and a session
  s,      \* each Session's fields
  t,      \* the queue, what was taken from it, the gate, and the core's own state
  out,    \* what each session's callbacks have told
  call,   \* what each session's caller has still to do
  freed,  \* whose destroy has returned
  calls   \* how many calls were made, and prompts shown

vars == <<pc, s, t, out, call, freed, calls>>
outside == <<call, freed, calls>>

\* s.passwd: passwdCookie_ is set. s.asks: asks_. s.shown: outstandingPrompts_. s.refused,
\* as history: the core was given a no. s.armed: the timeout is in delayed_. t.core: each
\* HostedSession; "faulted" where the code says the core does. s.retired: the bridge is
\* cut off. out.connected and out.closed count the callbacks. out.crossed: an end was
\* asked for when the session was connecting and had no handle yet, or had been closed by
\* its timeout and still had it.
TypeOK ==
  /\ pc \in Seq({"store", "fire", "expire", "retire"} \X Sessions)
  /\ s \in [Sessions -> [dead : BOOLEAN, asked : BOOLEAN, hs : BOOLEAN, waiting : BOOLEAN,
                         state : {"connecting", "connected", "closed"}, armed : BOOLEAN,
                         passwd : BOOLEAN, asks : Seq({"security", "message"}),
                         shown : Nat, refused : BOOLEAN, coreClosed : BOOLEAN,
                         retired : BOOLEAN]]
  /\ t \in [queue : Seq(STRING \X (Sessions \cup {None})),
            ready : Seq(STRING \X (Sessions \cup {None})),
            gate : Sessions \cup {None}, waiters : Seq(Sessions),
            core : [Sessions -> {"none", "connecting", "up", "closing", "closed", "faulted"}]]
  /\ out \in [Sessions -> [connected : Nat, detail : {"none", "", "why"},
                           closed : Nat, crossed : BOOLEAN]]
  /\ call \in [Sessions -> Seq({"look", "reap", "wait", "final"})]
  /\ freed \in [Sessions -> BOOLEAN]
  /\ calls \in [made : 0..MaxCalls, prompts : 0..MaxPrompts]

\* create has posted each session's start.
Init ==
  /\ pc = <<>>
  /\ s = [i \in Sessions |-> [dead |-> FALSE, asked |-> FALSE, hs |-> FALSE,
                              waiting |-> FALSE, state |-> "connecting", armed |-> FALSE,
                              passwd |-> FALSE, asks |-> <<>>, shown |-> 0,
                              refused |-> FALSE, coreClosed |-> FALSE, retired |-> FALSE]]
  /\ t = [queue |-> SetToSeq({<<"start", i>> : i \in Sessions}), ready |-> <<>>,
          gate |-> None, waiters |-> <<>>, core |-> [i \in Sessions |-> "none"]]
  /\ out = [i \in Sessions |-> [connected |-> 0, detail |-> "none", closed |-> 0,
                                crossed |-> FALSE]]
  /\ call = [i \in Sessions |-> <<>>]
  /\ freed = [i \in Sessions |-> FALSE]
  /\ calls = [made |-> 0, prompts |-> 0]

\* The kinds of answer: answerCredentials, answerTrust and answerSecurity.
Answers == {"credentials", "trust", "security"}

Within == calls.made + calls.prompts < MaxBoth

Post(r, task) == [r EXCEPT !.queue = Append(@, task)]

-----------------------------------------------------------------------------
(* What the tasks share. r is the thread's record t, as changed so far.    *)

\* Mutant: the next begins only when the connection was a success.
FinishConnectSilent(i, r) ==
  IF s[i].waiting
  THEN [r EXCEPT !.waiters = SelectSeq(@, LAMBDA w : w # i)]
  ELSE IF r.gate = i THEN [r EXCEPT !.gate = None] ELSE r

\* finishConnect: a waiter drops out of the queue, the session that connects lets
\* go of the gate and has the next begin in a later turn.
FinishConnect(i, r) ==
  IF s[i].waiting
  THEN [r EXCEPT !.waiters = SelectSeq(@, LAMBDA w : w # i)]
  ELSE IF r.gate = i THEN Post([r EXCEPT !.gate = None], <<"next", None>>) ELSE r

\* closed, up to its callback: once.
Closed(i, detail, r, session, rest) ==
  IF s[i].state = "closed"
  THEN pc' = rest /\ t' = r /\ s' = [s EXCEPT ![i] = session] /\ out' = out
  ELSE /\ pc' = <<<<"fire", i>>>> \o rest
       /\ t' = FinishConnect(i, r)
       /\ s' = [s EXCEPT ![i] = [session EXCEPT !.state = "closed", !.waiting = FALSE]]
       /\ out' = [out EXCEPT ![i].detail = detail]

\* closeSession; the core faults on a second one and on one after its report.
CloseSession(i, r) ==
  [r EXCEPT !.core[i] = IF @ \in {"connecting", "up"} THEN "closing" ELSE "faulted"]

\* Mutant: the core's own report is not looked at.
DroppedUntold(i, close, r) == IF close THEN CloseSession(i, r) ELSE r

\* drop: the close is sent unless the core has reported it.
Dropped(i, close, r) == IF close /\ ~s[i].coreClosed THEN CloseSession(i, r) ELSE r

\* Mutant: the timeout starts over with every answer.
PromptAnsweredAlone(session) ==
  [session EXCEPT !.shown = @ - 1,
                  !.armed = @ \/ (session.state = "connecting" /\ ~session.dead)]

\* promptAnswered: the timeout starts over with the last answer.
PromptAnswered(session) ==
  [session EXCEPT
     !.shown = @ - 1,
     !.armed = @ \/ (session.shown = 1 /\ session.state = "connecting" /\ ~session.dead)]

\* promptShown: the timeout waits for the user.
PromptShown(session) == [session EXCEPT !.shown = @ + 1, !.armed = FALSE]

\* beginConnect, up to the handle's store: the timeout armed, createSession called.
BeginConnect(i, r, session) ==
  \/ /\ pc' = <<<<"store", i>>>>
     /\ t' = [r EXCEPT !.gate = i, !.core[i] = "connecting"]
     /\ s' = [s EXCEPT ![i] = [session EXCEPT !.armed = TRUE]]
     /\ out' = out
  \/ /\ pc' = <<<<"fire", i>>>>
     /\ t' = Post(r, <<"next", None>>)
     /\ s' = [s EXCEPT ![i] = [session EXCEPT !.armed = TRUE, !.state = "closed"]]
     /\ out' = [out EXCEPT ![i].detail = "why"]

-----------------------------------------------------------------------------
(* The core thread.                                                        *)

Polling == pc = <<>> /\ t.ready = <<>>

\* The queue is taken, and the timeouts that are due behind it.
Take ==
  /\ Polling
  /\ \E due \in SUBSET {i \in Sessions : s[i].armed} :
       /\ t.queue # <<>> \/ due # {}
       /\ t' = [t EXCEPT !.queue = <<>>,
                         !.ready = t.queue \o SetToSeq({<<"timeout", i>> : i \in due})]
       /\ s' = [i \in Sessions |-> [s[i] EXCEPT !.armed = @ /\ i \notin due]]
  /\ UNCHANGED <<pc, out>> /\ UNCHANGED outside

\* The task taken next.
Task(kind) == pc = <<>> /\ t.ready # <<>> /\ Head(t.ready)[1] = kind
Rest == [t EXCEPT !.ready = Tail(@)]
Whose == Head(t.ready)[2]

\* Mutant: nobody waits at the gate.
StartUngated ==
  /\ Task("start")
  /\ LET i == Whose IN
     IF s[i].dead
     THEN t' = Rest /\ UNCHANGED <<pc, s, out>>
     ELSE BeginConnect(i, Rest, s[i])
  /\ UNCHANGED outside

\* start: into the gate, or behind the session in it.
Start ==
  /\ Task("start")
  /\ LET i == Whose IN
     IF s[i].dead
     THEN t' = Rest /\ UNCHANGED <<pc, s, out>>
     ELSE IF t.gate # None
     THEN /\ t' = [Rest EXCEPT !.waiters = Append(@, i)]
          /\ s' = [s EXCEPT ![i].waiting = TRUE]
          /\ UNCHANGED <<pc, out>>
     ELSE BeginConnect(i, Rest, s[i])
  /\ UNCHANGED outside

\* finishConnect's task: the oldest waiter that is not being destroyed.
BeginNext ==
  /\ Task("next")
  /\ LET live == SelectSeq(t.waiters, LAMBDA w : ~s[w].dead) IN
     IF t.gate # None \/ live = <<>>
     THEN t' = Rest /\ UNCHANGED <<pc, s, out>>
     ELSE LET i == Head(live) IN
          BeginConnect(i, [Rest EXCEPT !.waiters = SelectSeq(@, LAMBDA w : w # i)],
                       [s[i] EXCEPT !.waiting = FALSE])
  /\ UNCHANGED outside

\* disconnect's task, where there was no handle, and the first half of destroy's last.
ClosedTask ==
  /\ \/ Task("closed") /\ Closed(Whose, "", Rest, s[Whose], <<>>)
     \/ Task("final") /\ Closed(Whose, "", Rest, s[Whose], <<<<"retire", Whose>>>>)
  /\ UNCHANGED outside

\* reap's task: the timeout cancelled, the close sent where it was asked for.
Drop ==
  /\ \E close \in BOOLEAN :
       /\ Task(IF close THEN "close" ELSE "drop")
       /\ t' = Dropped(Whose, close, Rest)
  /\ s' = [s EXCEPT ![Whose].armed = FALSE]
  /\ UNCHANGED <<pc, out>> /\ UNCHANGED outside

\* The tasks of answerCredentials, answerTrust and answerSecurity: the prompt that each
\* is for, if it is still up, is answered once, with a yes or a no.
Answered(kind, i) ==
  CASE kind = "credentials" -> [s[i] EXCEPT !.passwd = FALSE]
    [] kind = "trust" -> [s[i] EXCEPT !.asks = Tail(@)]
    [] kind = "security" -> [s[i] EXCEPT !.asks = RemoveFirst(@, "security")]

Awaits(kind, i) ==
  CASE kind = "credentials" -> s[i].passwd
    [] kind = "trust" -> s[i].asks # <<>>
    [] kind = "security" -> Contains(s[i].asks, "security")

AnswerTask(kind) ==
  /\ Task(kind)
  /\ t' = Rest
  /\ IF Awaits(kind, Whose)
     THEN \E yes \in BOOLEAN :
            s' = [s EXCEPT ![Whose] =
                    [PromptAnswered(Answered(kind, Whose)) EXCEPT !.refused = @ \/ ~yes]]
     ELSE s' = s
  /\ UNCHANGED <<pc, out>> /\ UNCHANGED outside

\* onSession's task: nothing once the handle was retired.
EventTask ==
  /\ Task("event")
  /\ t' = IF s[Whose].hs /\ t.core[Whose] \notin {"connecting", "up"}
          THEN [Rest EXCEPT !.core[Whose] = "faulted"] ELSE Rest
  /\ UNCHANGED <<pc, s, out>> /\ UNCHANGED outside

\* onConnectTimeout.
Timeout ==
  /\ Task("timeout")
  /\ IF s[Whose].state = "connecting"
     THEN Closed(Whose, "why", Rest, s[Whose], <<<<"expire", Whose>>>>)
     ELSE t' = Rest /\ UNCHANGED <<pc, s, out>>
  /\ UNCHANGED outside

Doing(step) == pc # <<>> /\ Head(pc)[1] = step /\ pc' = Tail(pc)
Mine == Head(pc)[2]

\* hs_.store, at the end of beginConnect.
Store ==
  /\ Doing("store")
  /\ s' = [s EXCEPT ![Mine].hs = TRUE]
  /\ UNCHANGED <<t, out>> /\ UNCHANGED outside

\* The callback closed.
Fire ==
  /\ Doing("fire")
  /\ out' = [out EXCEPT ![Mine].closed = @ + 1]
  /\ UNCHANGED <<s, t>> /\ UNCHANGED outside

\* The rest of the timeout: the handle retired and the session dropped here and now.
Expire ==
  /\ Doing("expire")
  /\ t' = IF s[Mine].hs THEN Dropped(Mine, TRUE, t) ELSE t
  /\ s' = [s EXCEPT ![Mine].hs = FALSE, ![Mine].armed = @ /\ ~s[Mine].hs]
  /\ UNCHANGED out /\ UNCHANGED outside

\* The rest of destroy's task: the bridge cut off, the timeout cancelled.
Retire ==
  /\ Doing("retire")
  /\ s' = [s EXCEPT ![Mine].armed = FALSE, ![Mine].retired = TRUE]
  /\ UNCHANGED <<t, out>> /\ UNCHANGED outside

-----------------------------------------------------------------------------
(* The core's callbacks, made while it is polled; the bridge passes on only *)
(* sessionClosed once closed was sent, and nothing once it is cut off.     *)

Live(i) == ~s[i].retired /\ s[i].state # "closed"

\* Mutant: the success is told though the session is over.
ConnSuccessLate(i) ==
  /\ Polling /\ t.core[i] = "connecting" /\ ~s[i].retired
  /\ t' = [FinishConnect(i, t) EXCEPT !.core[i] = "up"]
  /\ s' = [s EXCEPT ![i].state = "connected", ![i].armed = FALSE]
  /\ out' = [out EXCEPT ![i].connected = @ + 1]
  /\ UNCHANGED pc /\ UNCHANGED outside

\* connSuccess: the gate is let go and the timeout cancelled.
ConnSuccess(i) ==
  /\ Polling /\ t.core[i] = "connecting"
  /\ IF Live(i)
     THEN /\ t' = [FinishConnect(i, t) EXCEPT !.core[i] = "up"]
          /\ s' = [s EXCEPT ![i].state = "connected", ![i].armed = FALSE]
          /\ out' = [out EXCEPT ![i].connected = @ + 1]
     ELSE t' = [t EXCEPT !.core[i] = "up"] /\ UNCHANGED <<s, out>>
  /\ UNCHANGED pc /\ UNCHANGED outside

Prompts(i) ==
  /\ Polling /\ t.core[i] \in {"connecting", "up"} /\ Live(i)
  /\ calls.prompts < MaxPrompts /\ Within
  /\ calls' = [calls EXCEPT !.prompts = @ + 1]
  /\ UNCHANGED <<pc, t, out, call, freed>>

\* promptPasswd: an older one is declined.
PromptPasswd(i) ==
  /\ "passwd" \in PromptKinds
  /\ Prompts(i)
  /\ s' = [s EXCEPT ![i] =
       IF s[i].passwd
       THEN PromptShown([PromptAnswered(s[i]) EXCEPT !.refused = TRUE])
       ELSE PromptShown([s[i] EXCEPT !.passwd = TRUE])]

\* promptSecurity and msgBox, each behind those that are up.
PromptAsk(i, kind) ==
  /\ Prompts(i)
  /\ s' = [s EXCEPT ![i] = PromptShown([s[i] EXCEPT !.asks = Append(@, kind)])]

\* lastError_: the core has told of one, or was told no.
LastError(i) == {"why"} \cup (IF s[i].refused THEN {""} ELSE {})

\* sessionClosed: the core has torn the session down.
SessionClosed(i) ==
  /\ Polling /\ t.core[i] \in {"connecting", "up", "closing"}
  /\ LET r == [t EXCEPT !.core[i] = "closed"] IN
     IF s[i].retired
     THEN t' = r /\ UNCHANGED <<pc, s, out>>
     ELSE \E error \in LastError(i) :
          Closed(i, IF s[i].asked THEN "" ELSE error,
                 IF s[i].hs THEN Post(r, <<"drop", i>>) ELSE r,
                 [s[i] EXCEPT !.coreClosed = TRUE, !.hs = FALSE], <<>>)
  /\ UNCHANGED outside

-----------------------------------------------------------------------------
(* The callers.                                                            *)

Calling(i, steps) ==
  /\ call[i] = <<>> /\ ~s[i].dead
  /\ call' = [call EXCEPT ![i] = steps]
  /\ calls.made < MaxCalls /\ Within
  /\ calls' = [calls EXCEPT !.made = @ + 1]

\* disconnect looks for a handle, and retires it or has closed sent.
Disconnect(i) ==
  /\ Calling(i, <<"look">>)
  /\ s' = [s EXCEPT ![i].asked = TRUE]
  /\ UNCHANGED <<pc, t, out, freed>>

\* Mutant: the last task is posted before the handle is retired.
DestroyUnreaped(i) ==
  /\ Calling(i, <<"final", "reap", "wait">>)
  /\ s' = [s EXCEPT ![i].asked = TRUE, ![i].dead = TRUE]
  /\ UNCHANGED <<pc, t, out, freed>>

Destroy(i) ==
  /\ Calling(i, <<"reap", "final", "wait">>)
  /\ s' = [s EXCEPT ![i].asked = TRUE, ![i].dead = TRUE]
  /\ UNCHANGED <<pc, t, out, freed>>

\* A key, pointer, focus, clipboard or option call.
Event(i) ==
  /\ Calling(i, <<>>) /\ s[i].hs
  /\ t' = Post(t, <<"event", i>>)
  /\ UNCHANGED <<pc, s, out, freed>>

\* answerCredentials, answerTrust and answerSecurity, of a prompt that is up.
Answer(i, kind) ==
  /\ Awaits(kind, i) /\ call[i] = <<>> /\ ~s[i].dead
  /\ <<kind, i>> \notin Range(t.queue) \cup Range(t.ready)
  /\ t' = Post(t, <<kind, i>>)
  /\ UNCHANGED <<pc, s, out, call, freed, calls>>

Step(i, step) == call[i] # <<>> /\ Head(call[i]) = step

Crossed(i) ==
  out' = [out EXCEPT ![i].crossed =
            @ \/ s[i].state = (IF s[i].hs THEN "closed" ELSE "connecting")]

Look(i) ==
  /\ Step(i, "look")
  /\ IF s[i].hs
     THEN call' = [call EXCEPT ![i] = <<"reap">>] /\ t' = t
     ELSE call' = [call EXCEPT ![i] = <<>>] /\ t' = Post(t, <<"closed", i>>)
  /\ Crossed(i)
  /\ UNCHANGED <<pc, s, freed, calls>>

\* reap(true): hs_.exchange, and the rest is the core thread's.
Reap(i) ==
  /\ Step(i, "reap")
  /\ s' = [s EXCEPT ![i].hs = FALSE]
  /\ t' = IF s[i].hs THEN Post(t, <<"close", i>>) ELSE t
  /\ call' = [call EXCEPT ![i] = Tail(@)]
  /\ Crossed(i)
  /\ UNCHANGED <<pc, freed, calls>>

\* destroy has waited for closed, or for two seconds.
Final(i) ==
  /\ Step(i, "final")
  /\ t' = Post(t, <<"final", i>>)
  /\ call' = [call EXCEPT ![i] = Tail(@)]
  /\ UNCHANGED <<pc, s, out, freed, calls>>

\* runBlocking returns, and the session is deleted.
Return(i) ==
  /\ Step(i, "wait") /\ s[i].retired
  /\ call' = [call EXCEPT ![i] = Tail(@)]
  /\ freed' = [freed EXCEPT ![i] = TRUE]
  /\ UNCHANGED <<pc, s, t, out, calls>>

-----------------------------------------------------------------------------
CoreThread ==
  \/ Take \/ Start \/ BeginNext \/ ClosedTask \/ Drop \/ EventTask \/ Timeout
  \/ (\E kind \in Answers : AnswerTask(kind)) \/ Store \/ Fire \/ Expire \/ Retire

Callbacks(i) ==
  \/ ConnSuccess(i) \/ SessionClosed(i) \/ PromptPasswd(i)
  \/ \E kind \in PromptKinds \ {"passwd"} : PromptAsk(i, kind)

CallerNext(i) ==
  Disconnect(i) \/ Destroy(i) \/ Event(i) \/ \E kind \in Answers : Answer(i, kind)

CallerGoesOn(i) == Look(i) \/ Reap(i) \/ Final(i) \/ Return(i)

Next ==
  \/ CoreThread
  \/ \E i \in Sessions : Callbacks(i) \/ CallerNext(i) \/ CallerGoesOn(i)

Spec == Init /\ [][Next]_vars

-----------------------------------------------------------------------------
(* What it promises.                                                       *)

Connecting == {i \in Sessions : t.core[i] = "connecting"}

\* Two sessions are never in their connect phase at once.
OneConnecting == \A i, j \in Connecting : i = j

\* The same, where no end crossed with a session's getting or giving up its handle.
GateKept == (\E i \in Sessions : out[i].crossed) \/ OneConnecting

\* A handle that calls may still use is one of a session the core has open.
PublishedIsLive ==
  \A i \in Sessions : s[i].hs /\ ~s[i].retired => t.core[i] \in {"connecting", "up"}

\* The core is never told to close a session twice, nor one it has reported closed,
\* nor given an event for one: it would fault.
NeverFaulted == \A i \in Sessions : t.core[i] # "faulted"

\* The connect timeout does not run while a prompt waits for the user, though another was
\* answered.
TimeoutWaits == \A i \in Sessions : s[i].shown > 0 => ~s[i].armed

\* Once destroy has returned, nothing of the session is left to run on the core
\* thread: no task queued or taken, no timeout armed; but for a timeout that was taken
\* with destroy's last task, and a session whose end crossed with its handle.
NothingLeft ==
  \A i \in Sessions :
    freed[i] /\ ~out[i].crossed
      => /\ ~s[i].armed
         /\ \A task \in Range(t.queue) \cup Range(t.ready) :
              task[2] = i => task[1] = "timeout"

=============================================================================
