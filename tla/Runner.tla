------------------------------- MODULE Runner -------------------------------
(***************************************************************************)
(* backends/runtime/src/runner.rs with slot.rs and handler.rs's Withdraw:  *)
(* the protocol thread that asks, the window that is asked and answers,    *)
(* and the threads that disconnect and destroy the session meanwhile.      *)
(*                                                                         *)
(* The protocol is any client: it does I/O, which a close breaks, and asks *)
(* as the clients here do.  credentials and trust come from the RFB, RDP   *)
(* and SPICE clients, credentials_or_withdrawn from RustDesk's             *)
(* ask_password, with the thread that reads the connection meanwhile.      *)
(*                                                                         *)
(* Questions are numbered as they are asked.  An answer carries, as        *)
(* history, the question whose prompt it was given to (0 for the answer    *)
(* disconnect gives) and the last question begun when it was delivered.    *)
(***************************************************************************)
EXTENDS Integers, FiniteSets, Sequences

CONSTANTS
  NoAnswer,
  MaxQuestions,         \* bound: how many questions a session asks
  Asks,                 \* the kinds of question the client asks
  ChecksFlag            \* the client looks at its closed flag as it ends (RFB,
                        \* RDP, RustDesk); SPICE races the close instead

ASSUME RunnerAssumption ==
  /\ MaxQuestions \in Nat \ {0}
  /\ Asks \subseteq {"credentials", "withdrawable", "trust"}
  /\ ChecksFlag \in BOOLEAN
  /\ NoAnswer \notin [accept : BOOLEAN, empty : BOOLEAN, to : Nat, at : Nat]

VARIABLES
  credentials,  \* Bridge::credentials, a slot
  trust,        \* Bridge::trust, a slot
  fired, armed, \* the Withdraw of the question asked with one
  listening,    \* RustDesk's prompt thread is reading
  early,        \* what it read, for the session to take first
  closed,       \* Runner::closed
  hungUp,       \* Client::close was called
  pc,           \* the protocol thread
  kind,         \* what it is asking
  asked,        \* how many questions it has begun to ask
  vetted,       \* it has asked about the server, which it does once
  fresh,        \* it has done I/O since its last answered credentials question
  outcome,      \* how the client's run ended
  taken,        \* the last answer a question took, and which question
  events,       \* the mailbox, in order
  open,         \* the prompts the window has, the first one shown
  ui,           \* the window's thread
  teardown      \* the thread that destroys the session

client == <<fired, armed, listening, early, pc, kind, asked, vetted, fresh, outcome, taken>>
vars == <<credentials, trust, fired, armed, listening, early, closed, hungUp, pc, kind, asked,
          vetted, fresh, outcome, taken, events, open, ui, teardown>>

INSTANCE Slot

Event(name) == [name |-> name, question |-> asked]
Put(name) == events' = Append(events, Event(name))

Init ==
  /\ credentials = NewSlot /\ trust = NewSlot
  /\ fired = FALSE /\ armed = FALSE /\ listening = FALSE /\ early = <<>>
  /\ closed = FALSE /\ hungUp = FALSE
  /\ pc = "working" /\ kind = "none" /\ asked = 0 /\ vetted = FALSE /\ fresh = TRUE
  /\ outcome = "none" /\ taken = [by |-> 0, answer |-> NoAnswer]
  /\ events = <<>> /\ open = <<>>
  /\ ui = "idle" /\ teardown = "none"

-----------------------------------------------------------------------------
(* The protocol thread: Bridge's Handler, and the client it works for *)

Window == <<events, open, ui, teardown>>
Closing == <<closed, hungUp>>
Slots == <<credentials, trust>>

\* The questions asked, and those already bound to be asked.
Owed ==
  asked + Len(SelectSeq(early, LAMBDA m : m = "refused"))
        + Cardinality({x \in {1} : pc \in {"test", "begin", "again"}})
        + Cardinality({x \in {1} : credentials.is = "Answered" /\ credentials.value.empty})

\* A round of I/O: a close breaks it, the far end may, and otherwise it goes on.
Io ==
  /\ pc = "working" /\ early = <<>>
  /\ \/ /\ ~hungUp
        /\ fresh' = TRUE
        /\ UNCHANGED <<pc, outcome>>
     \/ /\ pc' = "ended"
        /\ outcome' = IF hungUp THEN "closed" ELSE "failed"
        /\ UNCHANGED fresh
  /\ UNCHANGED <<Slots, fired, armed, listening, early, Closing, kind, asked, vetted, taken, Window>>

\* What was read during a prompt: a broken connection ends the session.
TakeEarly ==
  /\ pc = "working" /\ early # <<>> /\ Head(early) # "refused"
  /\ early' = Tail(early)
  /\ IF Head(early) = "broken"
     THEN pc' = "ended" /\ outcome' = "failed"
     ELSE UNCHANGED <<pc, outcome>>
  /\ UNCHANGED <<Slots, fired, armed, listening, Closing, kind, asked, vetted, fresh, taken, Window>>

\* handler.credentials(..), begun: RFB, RDP and SPICE ask again only after I/O.
AskCredentials ==
  /\ "credentials" \in Asks /\ pc = "working" /\ fresh /\ Owed < MaxQuestions
  /\ kind' = "credentials"
  /\ asked' = asked + 1
  /\ credentials' = Begin(credentials)
  /\ pc' = "put"
  /\ UNCHANGED <<trust, fired, armed, listening, early, Closing, vetted, fresh, outcome, taken, Window>>

\* trust and unverified, which share a slot and do not begin it.
AskTrust ==
  /\ "trust" \in Asks /\ pc = "working" /\ fresh /\ ~vetted /\ kind # "withdrawable"
  /\ Owed < MaxQuestions
  /\ kind' = "trust"
  /\ vetted' = TRUE
  /\ asked' = asked + 1
  /\ pc' = "put"
  /\ UNCHANGED <<Slots, fired, armed, listening, early, Closing, fresh, outcome, taken, Window>>

\* ask_password, before a login or after one the peer refused: a Withdraw of
\* its own, and a thread that reads meanwhile.
AskPassword ==
  /\ "withdrawable" \in Asks /\ pc = "working"
  /\ \/ early = <<>> /\ fresh /\ Owed < MaxQuestions /\ UNCHANGED early
     \/ early # <<>> /\ Head(early) = "refused" /\ early' = Tail(early)
  /\ kind' = "withdrawable"
  /\ fired' = FALSE /\ armed' = FALSE /\ listening' = TRUE
  /\ pc' = "test"
  /\ UNCHANGED <<Slots, Closing, asked, vetted, fresh, outcome, taken, Window>>

\* credentials_or_withdrawn, from withdraw.fired() to withdraw.arm().  A
\* question withdrawn before it is asked is never put.
TestFired ==
  /\ pc = "test"
  /\ pc' = IF fired THEN "answered" ELSE "begin"
  /\ UNCHANGED <<Slots, fired, armed, listening, early, Closing, kind, asked, vetted, fresh, outcome, taken, Window>>

BeginAsking ==
  /\ pc = "begin"
  /\ asked' = asked + 1
  /\ credentials' = Begin(credentials)
  /\ pc' = "arm"
  /\ UNCHANGED <<trust, fired, armed, listening, early, Closing, kind, vetted, fresh, outcome, taken, Window>>

\* Mutant: arm does not look at whether the handle has fired.
ArmBlindly ==
  /\ pc = "arm"
  /\ armed' = TRUE
  /\ pc' = "put"
  /\ UNCHANGED <<Slots, fired, listening, early, Closing, kind, asked, vetted, fresh, outcome, taken, Window>>

Arm ==
  /\ pc = "arm"
  /\ armed' = TRUE
  /\ credentials' = IF fired THEN Withdraw(credentials) ELSE credentials
  /\ pc' = "put"
  /\ UNCHANGED <<trust, fired, listening, early, Closing, kind, asked, vetted, fresh, outcome, taken, Window>>

\* The event that puts the question.
PutQuestion ==
  /\ pc = "put"
  /\ Put(IF kind = "trust" THEN "trust" ELSE "credentials")
  /\ pc' = "wait"
  /\ UNCHANGED <<Slots, fired, armed, listening, early, Closing, kind, asked, vetted, fresh, outcome, taken, open, ui, teardown>>

Take(slot) == taken' = [by |-> asked, answer |-> slot.value]

\* The slot's wait in trust: a refusal, the user's or cancel's, ends the session.
WaitTrust ==
  /\ pc = "wait" /\ kind = "trust" /\ Ready(trust)
  /\ Take(trust)
  /\ trust' = Taken(trust)
  /\ \/ /\ trust.is = "Answered" /\ trust.value.accept
        /\ pc' = "working"
        /\ UNCHANGED outcome
     \/ /\ trust.is # "Answered" \/ ~trust.value.accept
        /\ pc' = "ended"
        /\ outcome' = "refused"
  /\ UNCHANGED <<credentials, fired, armed, listening, early, Closing, kind, asked, vetted, fresh, Window>>

WaitCredentials ==
  /\ pc = "wait" /\ kind = "credentials" /\ Ready(credentials)
  /\ Take(credentials)
  /\ credentials' = Taken(credentials)
  /\ \/ /\ credentials.is = "Answered"
        /\ pc' = "working"
        /\ fresh' = FALSE
        /\ UNCHANGED outcome
     \/ /\ credentials.is # "Answered"
        /\ pc' = "ended"
        /\ outcome' = "refused"
        /\ UNCHANGED fresh
  /\ UNCHANGED <<trust, fired, armed, listening, early, Closing, kind, asked, vetted, Window>>

\* wait_asked, and withdraw.disarm(): an empty password is asked for again.
WaitPassword ==
  /\ pc = "wait" /\ kind = "withdrawable" /\ Ready(credentials)
  /\ Take(credentials)
  /\ credentials' = Taken(credentials)
  /\ pc' = CASE credentials.is = "Withdrawn" -> "withdrawn"
             [] credentials.is = "Cancelled" -> "cancelled"
             [] credentials.is = "Answered" /\ credentials.value.empty -> "again"
             [] OTHER -> "given"
  /\ UNCHANGED <<trust, fired, armed, listening, early, Closing, kind, asked, vetted, fresh, outcome, Window>>

Disarm ==
  /\ pc \in {"withdrawn", "cancelled", "again", "given"}
  /\ armed' = FALSE
  /\ IF pc = "withdrawn" THEN Put("withdrawn") ELSE UNCHANGED events
  /\ pc' = IF pc = "again" THEN "test" ELSE "answered"
  /\ fresh' = (fresh /\ pc # "given")
  /\ outcome' = IF pc = "cancelled" THEN "refused" ELSE outcome
  /\ UNCHANGED <<Slots, fired, listening, early, Closing, kind, asked, vetted, taken, open, ui, teardown>>

\* The prompt's thread is joined; then the session goes on, or ends.
JoinListener ==
  /\ pc = "answered" /\ ~listening
  /\ pc' = IF outcome = "refused" THEN "ended" ELSE "working"
  /\ UNCHANGED <<Slots, fired, armed, listening, early, Closing, kind, asked, vetted, fresh, outcome, taken, Window>>

\* Runner::start's thread: what run returned, and closed as its last event.
\* A client that looks at its flag reports any ending after a close as asked
\* for; one that does not reports what ended it.
Finish ==
  /\ pc = "ended"
  /\ outcome' = IF ChecksFlag /\ hungUp THEN "closed" ELSE outcome
  /\ Put("closed")
  /\ pc' = "finished"
  /\ UNCHANGED <<Slots, fired, armed, listening, early, Closing, kind, asked, vetted, fresh, taken, open, ui, teardown>>

-----------------------------------------------------------------------------
(* read_during_prompt *)

\* A refused login, which does not end the prompt.
ReadRefusal ==
  /\ listening /\ ~hungUp
  /\ Owed < MaxQuestions
  /\ early' = Append(early, "refused")
  /\ UNCHANGED <<Slots, fired, armed, listening, Closing, pc, kind, asked, vetted, fresh, outcome, taken, Window>>

\* Mutant: the handle fires without waking whoever waits.
FireForNoOne ==
  /\ listening
  /\ \E m \in {"answer", "broken"} :
       /\ hungUp => m = "broken"
       /\ early' = Append(early, m)
  /\ fired' = TRUE
  /\ listening' = FALSE
  /\ UNCHANGED <<Slots, armed, Closing, pc, kind, asked, vetted, fresh, outcome, taken, Window>>

\* The peer answered, or the connection broke: the question is taken back.
Fire ==
  /\ listening
  /\ \E m \in {"answer", "broken"} :
       /\ hungUp => m = "broken"
       /\ early' = Append(early, m)
  /\ fired' = TRUE
  /\ credentials' = IF armed THEN Withdraw(credentials) ELSE credentials
  /\ listening' = FALSE
  /\ UNCHANGED <<trust, armed, Closing, pc, kind, asked, vetted, fresh, outcome, taken, Window>>

\* answered, which the reader looks at between messages.
StopListening ==
  /\ listening
  /\ pc = "answered"
  /\ listening' = FALSE
  /\ UNCHANGED <<Slots, fired, armed, early, Closing, pc, kind, asked, vetted, fresh, outcome, taken, Window>>

-----------------------------------------------------------------------------
(* The window's thread: linux/src/gui/session.rs *)

Without(s, i) == SubSeq(s, 1, i - 1) \o SubSeq(s, i + 1, Len(s))

\* Where the first credentials prompt is.
FirstCredentials ==
  {i \in DOMAIN open : /\ open[i].kind = "credentials"
                       /\ \A j \in 1..(i - 1) : open[j].kind # "credentials"}

\* drain, an event at a time.  A trust question may be answered by the known
\* hosts, without a prompt; a withdrawal takes the first credentials prompt.
HandleEvent ==
  /\ ui = "idle" /\ events # <<>>
  /\ LET e == Head(events)
         known == [accept |-> TRUE, empty |-> FALSE, to |-> e.question, at |-> asked]
     IN \/ /\ e.name \in {"credentials", "trust"}
           /\ open' = Append(open, [kind |-> e.name, question |-> e.question])
           /\ UNCHANGED trust
        \/ /\ e.name = "trust"
           /\ trust' = AnswerWith(trust, known)
           /\ UNCHANGED open
        \/ /\ e.name = "withdrawn"
           /\ \/ \E i \in FirstCredentials : open' = Without(open, i)
              \/ FirstCredentials = {} /\ UNCHANGED open
           /\ UNCHANGED trust
        \/ e.name = "closed" /\ UNCHANGED <<open, trust>>
  /\ events' = Tail(events)
  /\ UNCHANGED <<credentials, client, Closing, ui, teardown>>

\* Mutant: the prompt stays, to be answered again.
AnswerPromptKeeps ==
  /\ ui = "idle" /\ open # <<>>
  /\ \E accept \in BOOLEAN, empty \in BOOLEAN :
       LET p == Head(open)
           answer == [accept |-> accept, empty |-> empty, to |-> p.question, at |-> asked]
       IN /\ empty => accept /\ p.kind = "credentials" /\ Owed < MaxQuestions
          /\ IF p.kind = "trust"
             THEN trust' = AnswerWith(trust, answer) /\ UNCHANGED credentials
             ELSE /\ credentials' = IF accept THEN AnswerWith(credentials, answer)
                                    ELSE Cancel(credentials, answer)
                  /\ UNCHANGED trust
  /\ UNCHANGED <<client, Closing, events, open, ui, teardown>>

\* prompt: the first is shown, is answered once, and is gone then.
AnswerPrompt ==
  /\ ui = "idle" /\ open # <<>>
  /\ \E accept \in BOOLEAN, empty \in BOOLEAN :
       LET p == Head(open)
           answer == [accept |-> accept, empty |-> empty, to |-> p.question, at |-> asked]
       IN /\ empty => accept /\ p.kind = "credentials" /\ Owed < MaxQuestions
          /\ IF p.kind = "trust"
             THEN trust' = AnswerWith(trust, answer) /\ UNCHANGED credentials
             ELSE /\ credentials' = IF accept THEN AnswerWith(credentials, answer)
                                    ELSE Cancel(credentials, answer)
                  /\ UNCHANGED trust
  /\ open' = Tail(open)
  /\ UNCHANGED <<client, Closing, events, ui, teardown>>

-----------------------------------------------------------------------------
(* disconnect, from the window's thread, and destroy, from one of its own *)

Refusal == [accept |-> FALSE, empty |-> FALSE, to |-> 0, at |-> asked]
Disconnecting == {"close", "cancelCredentials", "cancelTrust"}

\* What a thread in disconnect does at each label, and the label after it.
\* Mutant: the slots are answered before the client is closed.
DisconnectStepCancelsFirst(at, next) ==
  \/ /\ at = "close" /\ next = "cancelCredentials"
     /\ credentials' = Cancel(credentials, Refusal)
     /\ UNCHANGED <<trust, hungUp>>
  \/ /\ at = "cancelCredentials" /\ next = "cancelTrust"
     /\ trust' = AnswerWith(trust, Refusal)
     /\ UNCHANGED <<credentials, hungUp>>
  \/ /\ at = "cancelTrust" /\ next = "done"
     /\ hungUp' = TRUE
     /\ UNCHANGED <<credentials, trust>>

\* Mutant: the slots are not answered, so a thread behind a prompt stays there.
DisconnectStepCancelsNothing(at, next) ==
  \/ at = "close" /\ next = "cancelCredentials" /\ hungUp' = TRUE /\ UNCHANGED Slots
  \/ at = "cancelCredentials" /\ next = "cancelTrust" /\ UNCHANGED <<Slots, hungUp>>
  \/ at = "cancelTrust" /\ next = "done" /\ UNCHANGED <<Slots, hungUp>>

DisconnectStep(at, next) ==
  \/ /\ at = "close" /\ next = "cancelCredentials"
     /\ hungUp' = TRUE
     /\ UNCHANGED <<credentials, trust>>
  \/ /\ at = "cancelCredentials" /\ next = "cancelTrust"
     /\ credentials' = Cancel(credentials, Refusal)
     /\ UNCHANGED <<trust, hungUp>>
  \/ /\ at = "cancelTrust" /\ next = "done"
     /\ trust' = AnswerWith(trust, Refusal)
     /\ UNCHANGED <<credentials, hungUp>>

\* closed.swap(true): only the first caller goes on.
UiDisconnect ==
  /\ ui = "idle"
  /\ closed' = TRUE
  /\ ui' = IF closed THEN "idle" ELSE "close"
  /\ UNCHANGED <<Slots, client, hungUp, events, open, teardown>>

UiDisconnectStep ==
  /\ ui \in Disconnecting
  /\ \E next \in Disconnecting \cup {"done"} :
       /\ DisconnectStep(ui, next)
       /\ ui' = IF next = "done" THEN "idle" ELSE next
  /\ UNCHANGED <<client, closed, events, open, teardown>>

\* The window goes, and destroy runs on a thread of its own (Teardown).
Shutdown ==
  /\ ui = "idle" /\ teardown = "none"
  /\ ui' = "gone"
  /\ closed' = TRUE
  /\ teardown' = IF closed THEN "done" ELSE "close"
  /\ UNCHANGED <<Slots, client, hungUp, events, open>>

TeardownStep ==
  /\ teardown \in Disconnecting
  /\ \E next \in Disconnecting \cup {"done"} :
       /\ DisconnectStep(teardown, next)
       /\ teardown' = next
  /\ UNCHANGED <<client, closed, events, open, ui>>

\* thread.join()
Join ==
  /\ teardown = "done" /\ pc = "finished"
  /\ teardown' = "joined"
  /\ UNCHANGED <<Slots, client, Closing, events, open, ui>>

-----------------------------------------------------------------------------

ProtocolStep ==
  \/ Io \/ TakeEarly \/ AskCredentials \/ AskTrust \/ AskPassword
  \/ TestFired \/ BeginAsking \/ Arm \/ PutQuestion
  \/ WaitTrust \/ WaitCredentials \/ WaitPassword
  \/ Disarm \/ JoinListener \/ Finish

WindowStep == HandleEvent \/ AnswerPrompt \/ UiDisconnect \/ UiDisconnectStep \/ Shutdown

Joined == teardown = "joined" /\ UNCHANGED vars

Next ==
  \/ ProtocolStep
  \/ ReadRefusal \/ Fire \/ StopListening
  \/ WindowStep
  \/ TeardownStep \/ Join
  \/ Joined

\* The threads run; a connection that was closed answers its reader (Fire) and
\* its I/O, which otherwise may wait for ever.  The user owes no
\* answer.
Fairness ==
  /\ WF_vars(ProtocolStep /\ pc # "working")
  /\ WF_vars(Io /\ hungUp) /\ WF_vars(ProtocolStep /\ early # <<>>)
  /\ WF_vars((Fire /\ hungUp) \/ StopListening)
  /\ WF_vars(UiDisconnectStep) /\ WF_vars(TeardownStep) /\ WF_vars(Join)
  /\ WF_vars(HandleEvent)

Spec == Init /\ [][Next]_vars

FairSpec == Spec /\ Fairness

-----------------------------------------------------------------------------
(* Properties *)

Answers == [accept : BOOLEAN, empty : BOOLEAN, to : Nat, at : Nat]
SlotsOfAnswers ==
  {slot \in [is : States, value : Answers \cup {NoAnswer}, begun : BOOLEAN] :
     slot.value # NoAnswer <=> slot.is \in {"Answered", "Cancelled"}}
Labels == {"working", "test", "begin", "arm", "put", "wait", "withdrawn", "cancelled",
           "again", "given", "answered", "ended", "finished"}

Messages == {"refused", "answer", "broken"}
Takings == [by : Nat, answer : Answers \cup {NoAnswer}]
Events == [name : {"credentials", "trust", "withdrawn", "closed"}, question : Nat]
Prompts == [kind : {"credentials", "trust"}, question : Nat \ {0}]

FlagsOK ==
  /\ fired \in BOOLEAN /\ armed \in BOOLEAN /\ listening \in BOOLEAN
  /\ closed \in BOOLEAN /\ hungUp \in BOOLEAN /\ vetted \in BOOLEAN /\ fresh \in BOOLEAN

\* The state's type, with what the slots mean: a slot has a value exactly when
\* it is answered or cancelled, and only a question asked with a Withdraw is ever withdrawn.
TypeOK ==
  /\ credentials \in SlotsOfAnswers /\ trust \in SlotsOfAnswers
  /\ trust.is \in {"Empty", "Answered"} /\ ~trust.begun
  /\ credentials.is = "Withdrawn" => kind = "withdrawable"
  /\ FlagsOK
  /\ early \in Seq(Messages)
  /\ pc \in Labels /\ kind \in {"none", "credentials", "withdrawable", "trust"} /\ asked \in Nat
  /\ outcome \in {"none", "closed", "failed", "refused"}
  /\ taken \in Takings
  /\ events \in Seq(Events)
  /\ open \in Seq(Prompts)
  /\ ui \in {"idle", "gone"} \cup Disconnecting
  /\ teardown \in {"none", "done", "joined"} \cup Disconnecting

\* disconnect closes the client before it wakes the prompts, so that "the woken
\* thread ... reports that as a requested close": a session that ends as
\* refused was refused by the user, never by the answer disconnect gives.
DisconnectIsSilent ==
  pc = "finished" /\ outcome = "refused" => taken.answer.to # 0

\* begin: "An answer left from an earlier question ... is dropped".  The answer
\* a question takes was delivered after that question had begun.
AnswerIsFresh ==
  taken.answer # NoAnswer /\ taken.answer.accept => taken.answer.at = taken.by

\* "An answer that loses is dropped when the next question begins": the answer a
\* question takes was given to that question's own prompt.
AnswersOwnQuestion ==
  taken.answer # NoAnswer /\ taken.answer.accept => taken.answer.to = taken.by

\* A prompt on screen is the one the protocol thread waits behind, or there is
\* no session left behind it: none is left open over a session that goes on.
OpenPromptIsAwaited ==
  open # <<>> =>
    \/ pc = "wait" /\ asked = Head(open).question
    \/ pc \in {"ended", "finished"}

\* A Withdraw that fires from another thread, at any point of the asking, is
\* not missed: behind a fired one the slot is never waited on empty.
WithdrawalIsNotMissed ==
  pc = "wait" /\ kind = "withdrawable" /\ fired => Ready(credentials)

\* disconnect ends the session whatever it is doing: waiting behind a prompt,
\* about to ask, or answered late, after the cancel, by a prompt still open.
DisconnectEnds == closed ~> pc = "finished"

\* destroy returns once the window has gone.
DestroyReturns == ui = "gone" ~> teardown = "joined"

-----------------------------------------------------------------------------
(* The inductive invariant *)

PasswordLabels == {"test", "begin", "arm", "withdrawn", "cancelled", "again", "given", "answered"}
AskingCredentials == pc \in {"arm", "put", "wait"} /\ kind \in {"credentials", "withdrawable"}
TrustNotPut == ~vetted \/ (kind = "trust" /\ pc = "put")
Accepted(slot) == slot.is = "Answered" /\ slot.value.accept

\* Where the protocol thread is, what it asks, and what the slots hold for it.
Asking ==
  /\ pc \in PasswordLabels => kind = "withdrawable"
  /\ pc \in {"put", "wait"} => kind # "none"
  /\ pc \in {"arm", "put", "wait"} => asked >= 1
  /\ kind = "trust" => vetted
  /\ listening => kind = "withdrawable" /\ pc \in PasswordLabels \cup {"put", "wait"}
  /\ AskingCredentials => credentials.begun
  /\ credentials.is = "Answered" => credentials.value.accept
  /\ credentials.is = "Cancelled" => ~credentials.value.accept
  /\ pc \notin {"answered", "ended", "finished"} => outcome # "refused"
  /\ AskingCredentials /\ credentials.is = "Answered" => credentials.value.at = asked
  /\ pc \in {"put", "wait"} /\ kind = "withdrawable" => armed /\ (fired => Ready(credentials))

\* Trust is asked once, so nothing answers it before it is put.
TrustAsked ==
  /\ TrustNotPut => /\ ~Accepted(trust)
                    /\ \A i \in DOMAIN events : events[i].name # "trust"
                    /\ \A i \in DOMAIN open : open[i].kind # "trust"
  /\ pc = "wait" /\ kind = "trust" /\ Accepted(trust) => trust.value.at = asked

\* A question's event names it, so only disconnect's answers are for none.
EventsNameQuestions ==
  \A i \in DOMAIN events : events[i].name \in {"credentials", "trust"} => events[i].question >= 1

\* disconnect's answers come after the close.
ClosedFirst ==
  /\ credentials.value # NoAnswer /\ credentials.value.to = 0 => hungUp
  /\ trust.value # NoAnswer /\ trust.value.to = 0 => hungUp
  /\ ui \in {"cancelCredentials", "cancelTrust"} => hungUp
  /\ teardown \in {"cancelCredentials", "cancelTrust"} => hungUp
  /\ taken.answer # NoAnswer /\ taken.answer.to = 0 => hungUp
  /\ outcome = "refused" \/ pc = "cancelled" => taken.answer # NoAnswer

\* What is true of every state, strong enough to be kept by every step.
IInv ==
  /\ TypeOK
  /\ Asking
  /\ TrustAsked
  /\ EventsNameQuestions
  /\ ClosedFirst
  /\ AnswerIsFresh
  /\ ChecksFlag => DisconnectIsSilent
=============================================================================
