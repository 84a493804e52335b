---------------------------- MODULE LibvncProofs ----------------------------
(***************************************************************************)
(* A session of libvncclient keeps the contract of vento/backend.h, never  *)
(* leaves a freed client where stop can reach it and never sleeps over     *)
(* work, for any number of callers, any ring and any lists of encodings.   *)
(***************************************************************************)
EXTENDS LibvncSession, TLAPS

Told ==
  IF out.closed > 0 THEN "closed"
  ELSE IF out.detail # "none" THEN "ending"
  ELSE IF out.connected > 0 THEN "connected"
  ELSE IF pc = "opening" THEN "opening" ELSE "open"

Asking == IF pc \in Waits THEN 1 ELSE 0

Abs == INSTANCE Session WITH
  phase <- Told, connects <- out.connected, closes <- out.closed, asking <- Asking,
  several <- FALSE, ended <- s.quit, declined <- FALSE, detail <- out.detail

\* The contract, as MCSessions states it of the four backends, for this one.
SessionsImplement == Abs!Spec

-----------------------------------------------------------------------------
(* The inductive invariant.                                                *)

\* What a caller may have still to do.
Plans == {<<>>, <<"wake">>, <<"wake", "join">>, <<"join">>}
Joining(c) == call[c] \in {<<"wake", "join">>, <<"join">>}
Unwoken(c) == call[c] \in {<<"wake">>, <<"wake", "join">>}

\* Before the detail is settled; inside or after the end of a client.
Up == {"drain", "write", "take", "encode", "look", "poll", "handle", "over"}
Before == {"opening", "dial", "adopt", "ask"} \cup Waits
Unsettled == Before \cup {"handshake", "settle"} \cup Up
Ending == {"unpublish", "cleanup"}
Gone == {"opening", "cleanup", "settle", "fire", "done"}

Pcs == Unsettled \cup Ending \cup {"fire", "done"}

Fields ==
  [quit : BOOLEAN, paused : BOOLEAN, ring : Nat, encodings : Encodings,
   changed : BOOLEAN, answer : {"none", "yes", "no"}, cl : BOOLEAN]

Locals ==
  [client : {"none", "live", "freed"}, unix : BOOLEAN,
   sock : {"none", "open", "shut", "lost"}, inbound : BOOLEAN,
   buffered : BOOLEAN, seen : BOOLEAN, applied : Encodings, connected : BOOLEAN,
   missed : BOOLEAN]

Tellings ==
  [open : BOOLEAN, connected : Nat, detail : {"none", "", "why"}, closed : Nat]

Types ==
  /\ pc \in Pcs
  /\ s \in Fields /\ t \in Locals /\ out \in Tellings
  /\ call \in [Callers -> Plans]

\* What was told, by where the thread is.
ToldInv ==
  /\ pc \in Before => ~t.connected
  /\ t.connected => out.connected = 1
  /\ ~t.connected => out.connected = 0
  /\ pc \in Unsettled => out.detail = "none"
  /\ pc \in {"fire", "done"} => out.detail # "none"
  /\ pc = "done" => out.closed = 1
  /\ pc # "done" => out.closed = 0

\* destroy was asked for by one caller, and returns to it once the thread is done.
DestroyInv ==
  /\ freed => pc = "done" /\ s.quit
  /\ \A c \in Callers : Joining(c) => s.quit /\ ~freed
  /\ \A c, d \in Callers : Joining(c) /\ Joining(d) => c = d

\* The client is published while it lives.
ClientInv == s.cl => t.client = "live" /\ pc \notin Gone

\* With no wake in the pipe or on its way, what the thread has looked at is as it was
\* when it looked.
Quiet == ~wake /\ \A c \in Callers : ~Unwoken(c)

RestInv ==
  /\ ~s.changed => t.applied = s.encodings
  /\ Quiet /\ pc \in {"take", "encode", "look", "poll"} => s.ring = 0 /\ ~s.quit
  /\ Quiet /\ pc \in {"encode", "look", "poll"} => ~s.changed
  /\ Quiet /\ pc = "poll" => t.seen = s.paused /\ (t.buffered => t.seen)

IInv == Types /\ ToldInv /\ DestroyInv /\ ClientInv /\ RestInv

-----------------------------------------------------------------------------

\* What a caller does next, and what it then has left.
LEMMA PlanSteps ==
  /\ \A p \in Plans : p # <<>> => Tail(p) \in Plans
  /\ \A p \in Plans : p # <<>> /\ Head(p) = "wake" =>
       /\ p \in {<<"wake">>, <<"wake", "join">>}
       /\ Tail(p) \in {<<>>, <<"join">>}
       /\ Tail(p) = <<"join">> => p = <<"wake", "join">>
  /\ \A p \in Plans : p # <<>> /\ Head(p) = "join" => p = <<"join">> /\ Tail(p) = <<>>
<1> <<>> # <<"wake">> /\ <<>> # <<"join">> /\ <<"wake">> # <<"wake", "join">>
  OBVIOUS
<1>1. Head(<<"wake">>) = "wake" /\ Tail(<<"wake">>) = <<>>
  OBVIOUS
<1>2. Head(<<"join">>) = "join" /\ Tail(<<"join">>) = <<>>
  OBVIOUS
<1>3. Head(<<"wake", "join">>) = "wake" /\ Tail(<<"wake", "join">>) = <<"join">>
  OBVIOUS
<1> QED
  BY <1>1, <1>2, <1>3 DEF Plans

\* A callback counted once more.
LEMMA OneMore == 0 + 1 = 1 /\ \A n \in Nat : n + 1 \in Nat
  OBVIOUS

\* The plans are different from one another.
LEMMA PlansDiffer ==
  /\ <<>> \notin {<<"wake">>, <<"wake", "join">>, <<"join">>}
  /\ <<"wake">> \notin {<<"wake", "join">>, <<"join">>}
  /\ <<"wake", "join">> # <<"join">>
  OBVIOUS

\* A caller is in destroy exactly when the plan says so.
LEMMA DestroyingIsJoining ==
  ASSUME Types, NEW c \in Callers PROVE Destroying(c) <=> Joining(c)
<1> call[c] \in Plans
  BY DEF Types
<1>1. CASE call[c] = <<>>
  BY <1>1, PlansDiffer DEF Destroying, Joining
<1>2. CASE call[c] = <<"wake">>
  BY <1>2, PlansDiffer DEF Destroying, Joining
<1>3. CASE call[c] = <<"join">>
  BY <1>3 DEF Destroying, Joining
<1>4. CASE call[c] = <<"wake", "join">>
  BY <1>4 DEF Destroying, Joining
<1> QED
  BY <1>1, <1>2, <1>3, <1>4 DEF Plans

LEMMA InitIInv == Init => IInv
<1> SUFFICES ASSUME Init PROVE IInv
  OBVIOUS
<1>1. Types
  <2>1. pc \in Pcs
    BY DEF Init, Pcs, Unsettled, Before
  <2>2. s \in Fields
    BY DEF Init, Fields
  <2>3. t \in Locals
    BY DEF Init, Locals
  <2>4. out \in Tellings
    BY DEF Init, Tellings
  <2>5. call \in [Callers -> Plans]
    BY DEF Init, Plans
  <2> QED
    BY <2>1, <2>2, <2>3, <2>4, <2>5 DEF Types
<1>2. ToldInv /\ ClientInv
  BY DEF Init, ToldInv, ClientInv, Unsettled, Before, Waits, Gone
<1>3. DestroyInv
  BY PlansDiffer DEF Init, DestroyInv, Joining
<1>4. RestInv
  BY DEF Init, RestInv
<1> QED
  BY <1>1, <1>2, <1>3, <1>4 DEF IInv

-----------------------------------------------------------------------------
(* The steps of the protocol thread and of the server.                     *)

ThreadStep == Prompt \/ Served \/ ServerSends \/ ServerHangsUp

\* The thread is always somewhere.
LEMMA ThreadPc == ASSUME Types, ThreadStep PROVE pc' \in Pcs
<1> USE DEF Types, Goto, Pass, Granted, Readable, Pcs, Unsettled, Ending, Before, Up, Waits
<1>1. CASE AddressError \/ Begin
  BY <1>1 DEF AddressError, Begin
<1>2. CASE DialWoken \/ Dialled \/ DialUnix \/ Adopt
  BY <1>2 DEF DialWoken, Dialled, DialUnix, Adopt
<1>3. CASE Forget \/ Question \/ Waited
  BY <1>3 DEF Forget, Question, Waited
<1>4. CASE Connected \/ Initialised \/ HandshakeFails
  BY <1>4 DEF Connected, Initialised, HandshakeFails
<1>5. CASE Drain \/ RunCmd \/ TakeEncodings \/ SetFormatAndEncodings
  BY <1>5 DEF Drain, RunCmd, TakeEncodings, SetFormatAndEncodings
<1>6. CASE Look \/ Poll \/ Handle \/ HandleFails
  BY <1>6, Zenon DEF Look, Poll, Handle, HandleFails
<1>7. CASE SettleLost \/ Unpublish \/ Cleanup \/ SettleFailed \/ FireClosed
  BY <1>7 DEF SettleLost, Unpublish, Cleanup, SettleFailed, FireClosed
<1>8. CASE ServerSends \/ ServerHangsUp
  BY <1>8 DEF ServerSends, ServerHangsUp
<1> QED
  BY <1>1, <1>2, <1>3, <1>4, <1>5, <1>6, <1>7, <1>8 DEF ThreadStep, Prompt, Served

\* What it does to the session's fields keeps their types, ...
LEMMA ThreadFields == ASSUME Types, ThreadStep PROVE s' \in Fields
<1> USE DEF Types, Fields
<1>1. CASE Drain
  BY <1>1 DEF Drain
<1>2. CASE Begin \/ Forget \/ TakeEncodings \/ Unpublish
  BY <1>2, Zenon DEF Begin, Forget, TakeEncodings, Unpublish
<1>3. ASSUME AddressError \/ DialWoken \/ Dialled \/ DialUnix \/ Adopt \/ Question \/
   Waited \/ Connected \/ Initialised \/ HandshakeFails \/ RunCmd \/
   SetFormatAndEncodings \/ Look \/ Poll \/ Handle \/ HandleFails \/ SettleLost \/
   Cleanup \/ SettleFailed \/ FireClosed \/ ServerSends \/ ServerHangsUp
     PROVE s' = s
  BY <1>3, Zenon DEF AddressError, DialWoken, Dialled, DialUnix, Adopt, Question, Waited,
     Connected, Initialised, HandshakeFails, RunCmd, SetFormatAndEncodings, Look,
     Poll, Handle, HandleFails, SettleLost, Cleanup, SettleFailed, FireClosed,
     ServerSends, ServerHangsUp, Pass
<1> QED
  BY <1>1, <1>2, <1>3 DEF ThreadStep, Prompt, Served

\* ... what it does to its own, ...
LEMMA ThreadLocals == ASSUME Types, ThreadStep PROVE t' \in Locals
<1> USE DEF Types, Locals, Fields
<1>1. CASE Begin \/ DialUnix \/ Adopt
  BY <1>1, ZenonT(40) DEF Begin, DialUnix, Adopt
<1>2. CASE Connected \/ TakeEncodings \/ Look
  BY <1>2, ZenonT(40) DEF Connected, TakeEncodings, Look
<1>3. CASE Handle \/ Cleanup \/ ServerSends \/ ServerHangsUp
  BY <1>3, Zenon DEF Handle, Cleanup, ServerSends, ServerHangsUp
<1>4. ASSUME AddressError \/ DialWoken \/ Dialled \/ Forget \/ Question \/ Waited \/
   Initialised \/ HandshakeFails \/ Drain \/ RunCmd \/
   SetFormatAndEncodings \/ Poll \/ HandleFails \/ SettleLost \/ Unpublish \/
   SettleFailed \/ FireClosed
     PROVE t' = t
  BY <1>4 DEF AddressError, DialWoken, Dialled, Forget, Question, Waited,
     Initialised, HandshakeFails, Drain, RunCmd, SetFormatAndEncodings, Poll,
     HandleFails, SettleLost, Unpublish, SettleFailed, FireClosed, Pass
<1> QED
  BY <1>1, <1>2, <1>3, <1>4 DEF ThreadStep, Prompt, Served

\* ... and to what was told.
LEMMA ThreadTellings == ASSUME Types, ThreadStep PROVE out' \in Tellings
<1> USE DEF Types, Tellings, Detail
<1>1. CASE AddressError \/ Question \/ SettleLost \/ SettleFailed
  BY <1>1, Zenon DEF AddressError, Question, SettleLost, SettleFailed
<1>2. CASE Connected \/ FireClosed
  BY <1>2, OneMore, Zenon DEF Connected, FireClosed
<1>3. ASSUME Begin \/ DialWoken \/ Dialled \/ DialUnix \/ Adopt \/ Forget \/ Waited \/
   Initialised \/ HandshakeFails \/ Drain \/ RunCmd \/ TakeEncodings \/
   SetFormatAndEncodings \/ Look \/ Poll \/ Handle \/ HandleFails \/ Unpublish \/
   Cleanup \/ ServerSends \/ ServerHangsUp
     PROVE out' = out
  BY <1>3, Zenon DEF Begin, DialWoken, Dialled, DialUnix, Adopt, Forget, Waited, Initialised,
     HandshakeFails, Drain, RunCmd, TakeEncodings, SetFormatAndEncodings, Look, Poll,
     Handle, HandleFails, Unpublish, Cleanup, ServerSends, ServerHangsUp, Pass
<1> QED
  BY <1>1, <1>2, <1>3, Zenon DEF ThreadStep, Prompt, Served

\* connected before the end and only once, the detail before closed.
LEMMA ThreadTold == ASSUME IInv, ThreadStep PROVE ToldInv'
<1> USE DEF IInv, Goto, Pass, Granted, Detail, Readable, ToldInv, Types, Tellings, Locals,
            Pcs, Unsettled, Ending, Before, Up, Waits
<1>1. CASE AddressError \/ Begin
  BY <1>1, Zenon DEF AddressError, Begin
<1>2. CASE DialWoken \/ Dialled \/ DialUnix \/ Adopt
  BY <1>2, Zenon DEF DialWoken, Dialled, DialUnix, Adopt
<1>3. CASE Forget \/ Question \/ Waited
  BY <1>3, Zenon DEF Forget, Question, Waited
<1>4. CASE Initialised \/ HandshakeFails
  BY <1>4, Zenon DEF Initialised, HandshakeFails
<1>5. CASE Drain \/ RunCmd \/ TakeEncodings \/ SetFormatAndEncodings
  BY <1>5, Zenon DEF Drain, RunCmd, TakeEncodings, SetFormatAndEncodings
<1>6. CASE Look \/ Poll \/ Handle \/ HandleFails
  BY <1>6, Zenon DEF Look, Poll, Handle, HandleFails
<1>7. CASE SettleLost \/ Unpublish \/ Cleanup \/ SettleFailed
  BY <1>7, Zenon DEF SettleLost, Unpublish, Cleanup, SettleFailed
<1>8. CASE ServerSends \/ ServerHangsUp
  BY <1>8, Zenon DEF ServerSends, ServerHangsUp
<1>9. CASE Connected
  BY <1>9, OneMore, Zenon DEF Connected
<1>10. CASE FireClosed
  BY <1>10, OneMore, Zenon DEF FireClosed
<1> QED
  BY <1>1, <1>2, <1>3, <1>4, <1>5, <1>6, <1>7, <1>8, <1>9, <1>10, Zenon DEF ThreadStep, Prompt, Served

\* The client is taken back before it is freed.
LEMMA ThreadClient == ASSUME IInv, ThreadStep PROVE ClientInv'
<1> USE DEF IInv, Goto, Pass, Granted, Readable, ClientInv, Types, Fields, Locals, Gone,
            Pcs, Unsettled, Ending, Before, Up, Waits
<1>1. CASE AddressError \/ Begin
  BY <1>1, Zenon DEF AddressError, Begin
<1>2. CASE DialWoken \/ Dialled \/ DialUnix \/ Adopt
  BY <1>2 DEF DialWoken, Dialled, DialUnix, Adopt
<1>3. CASE Forget \/ Question \/ Waited
  BY <1>3 DEF Forget, Question, Waited
<1>4. CASE Connected \/ Initialised \/ HandshakeFails
  BY <1>4 DEF Connected, Initialised, HandshakeFails
<1>5. CASE Drain \/ RunCmd \/ TakeEncodings \/ SetFormatAndEncodings
  BY <1>5 DEF Drain, RunCmd, TakeEncodings, SetFormatAndEncodings
<1>6. CASE Look \/ Poll \/ Handle \/ HandleFails
  BY <1>6, Zenon DEF Look, Poll, Handle, HandleFails
<1>7. CASE SettleLost \/ Unpublish \/ Cleanup \/ SettleFailed \/ FireClosed
  BY <1>7 DEF SettleLost, Unpublish, Cleanup, SettleFailed, FireClosed
<1>8. CASE ServerSends \/ ServerHangsUp
  BY <1>8 DEF ServerSends, ServerHangsUp
<1> QED
  BY <1>1, <1>2, <1>3, <1>4, <1>5, <1>6, <1>7, <1>8 DEF ThreadStep, Prompt, Served

\* The pipe is emptied before the ring, the flags and the encodings are looked at.
LEMMA ThreadRest == ASSUME IInv, ThreadStep PROVE RestInv'
<1> USE DEF IInv, Goto, Pass, Granted, Readable, outside, RestInv, Quiet, Unwoken, Types,
            Fields,
           Locals, Pcs, Unsettled, Ending, Before, Up, Waits
<1>1. CASE AddressError \/ Begin
  BY <1>1, Zenon DEF AddressError, Begin
<1>2. CASE DialWoken \/ Dialled \/ DialUnix \/ Adopt
  BY <1>2 DEF DialWoken, Dialled, DialUnix, Adopt
<1>3. CASE Forget \/ Question \/ Waited
  BY <1>3 DEF Forget, Question, Waited
<1>4. CASE Connected \/ Initialised \/ HandshakeFails
  BY <1>4 DEF Connected, Initialised, HandshakeFails
<1>5. CASE Drain \/ RunCmd \/ TakeEncodings \/ SetFormatAndEncodings
  BY <1>5 DEF Drain, RunCmd, TakeEncodings, SetFormatAndEncodings
<1>6. CASE Look \/ Poll \/ Handle \/ HandleFails
  BY <1>6, ZenonT(40) DEF Look, Poll, Handle, HandleFails
<1>7. CASE SettleLost \/ Unpublish \/ Cleanup \/ SettleFailed \/ FireClosed
  BY <1>7, Zenon DEF SettleLost, Unpublish, Cleanup, SettleFailed, FireClosed
<1>8. CASE ServerSends \/ ServerHangsUp
  BY <1>8 DEF ServerSends, ServerHangsUp
<1> QED
  BY <1>1, <1>2, <1>3, <1>4, <1>5, <1>6, <1>7, <1>8 DEF ThreadStep, Prompt, Served

\* The thread ends nobody's call, and never itself but by coming to its end.
LEMMA ThreadEnds == ASSUME Types, ThreadStep PROVE UNCHANGED <<s.quit, call, freed>> /\ (pc = pc' \/ pc # "done")
<1> USE DEF Types, Fields, Goto, Pass, outside, Waits
<1>1. CASE AddressError \/ Begin
  BY <1>1, Zenon DEF AddressError, Begin
<1>2. CASE DialWoken \/ Dialled \/ DialUnix \/ Adopt
  BY <1>2 DEF DialWoken, Dialled, DialUnix, Adopt
<1>3. CASE Forget \/ Question \/ Waited
  BY <1>3 DEF Forget, Question, Waited
<1>4. CASE Connected \/ Initialised \/ HandshakeFails
  BY <1>4 DEF Connected, Initialised, HandshakeFails
<1>5. CASE Drain \/ RunCmd \/ TakeEncodings \/ SetFormatAndEncodings
  BY <1>5 DEF Drain, RunCmd, TakeEncodings, SetFormatAndEncodings
<1>6. CASE Look \/ Poll \/ Handle \/ HandleFails
  BY <1>6, Zenon DEF Look, Poll, Handle, HandleFails
<1>7. CASE SettleLost \/ Unpublish \/ Cleanup \/ SettleFailed \/ FireClosed
  BY <1>7 DEF SettleLost, Unpublish, Cleanup, SettleFailed, FireClosed
<1>8. CASE ServerSends \/ ServerHangsUp
  BY <1>8 DEF ServerSends, ServerHangsUp
<1> QED
  BY <1>1, <1>2, <1>3, <1>4, <1>5, <1>6, <1>7, <1>8 DEF ThreadStep, Prompt, Served

\* Every step of the thread keeps the invariant.
LEMMA ThreadIInv == ASSUME IInv, ThreadStep PROVE IInv'
<1>1. Types'
  BY ThreadPc, ThreadFields, ThreadLocals, ThreadTellings, ThreadEnds DEF IInv, Types
<1>2. DestroyInv'
  BY ThreadEnds DEF IInv, DestroyInv, Joining
<1> QED
  BY <1>1, <1>2, ThreadTold, ThreadClient, ThreadRest DEF IInv

-----------------------------------------------------------------------------
(* The steps of the callers.                                               *)

\* A caller that has changed something has a wake to give.
LEMMA OwesWake ==
  ASSUME Types, NEW c \in Callers, NEW plan \in {<<"wake">>, <<"wake", "join">>},
         call' = [call EXCEPT ![c] = plan]
  PROVE  ~Quiet'
<1> call'[c] = plan
  BY DEF Types
<1> QED
  BY DEF Quiet, Unwoken

\* Calls change neither what was told of the session nor its client.
LEMMA CallerTold ==
  ASSUME IInv, NEW c \in Callers, CallerNext(c) \/ CallerGoesOn(c)
  PROVE  ToldInv' /\ ClientInv'
<1> USE DEF IInv, Types, Fields, Locals, Tellings
<1>1. /\ pc' = pc /\ s'.cl = s.cl /\ t'.client = t.client
      /\ UNCHANGED <<t.connected, out.connected, out.detail, out.closed>>
  BY Zenon DEF CallerNext, CallerGoesOn, Post, Motion, Focus, SetEncodings, Answer, Disconnect,
         Destroy, Wake, Join, Calling, Stop
<1> QED
  BY <1>1, Zenon DEF ToldInv, ClientInv

\* The calls that change something under the lock: the ring, the pause, the encodings,
\* the answer and the end.
LEMMA CallTypes ==
  ASSUME Types, NEW c \in Callers, CallerNext(c)
  PROVE  s' \in Fields /\ t' \in Locals /\ out' \in Tellings
<1> USE DEF Types
<1>1. CASE Post(c) \/ Motion(c) \/ Focus(c)
  <2>1. t' = t /\ out' = out
    BY <1>1 DEF Post, Motion, Focus, Calling
  <2>2. CASE Post(c)
    BY <2>1, <2>2 DEF Post, Calling, Fields
  <2>3. CASE Motion(c) \/ Focus(c)
    BY <2>1, <2>3, Zenon DEF Motion, Focus, Calling, Fields
  <2> QED
    BY <1>1, <2>2, <2>3
<1>2. CASE SetEncodings(c)
  BY <1>2, Zenon DEF SetEncodings, Fields
<1>3. CASE Answer(c)
  <2>1. t' = t
    BY <1>3 DEF Answer
  <2>2. s' \in Fields
    BY <1>3, Zenon DEF Answer, Fields
  <2>3. out' \in Tellings
    BY <1>3, Zenon DEF Answer, Tellings
  <2> QED
    BY <2>1, <2>2, <2>3
<1>4. CASE Disconnect(c) \/ Destroy(c)
  <2>1. out' = out
    BY <1>4 DEF Disconnect, Destroy
  <2>2. s' \in Fields
    BY <1>4, Zenon DEF Disconnect, Destroy, Stop, Fields
  <2>3. t' \in Locals
    BY <1>4 DEF Disconnect, Destroy, Stop, Locals
  <2> QED
    BY <2>1, <2>2, <2>3
<1> QED
  BY <1>1, <1>2, <1>3, <1>4 DEF CallerNext

\* A call that is not destroy.
LEMMA CallIInv ==
  ASSUME IInv, NEW c \in Callers,
         Post(c) \/ Motion(c) \/ Focus(c) \/ SetEncodings(c) \/ Answer(c) \/ Disconnect(c)
  PROVE  IInv'
<1> USE DEF IInv, Types
<1>1. /\ call[c] = <<>> /\ pc' = pc /\ freed' = freed /\ wake' = wake
      /\ \/ call' = [call EXCEPT ![c] = <<"wake">>]
         \/ call' = [call EXCEPT ![c] = <<>>] /\ s.quit /\ t' = t
  BY Zenon DEF Post, Motion, Focus, SetEncodings, Answer, Disconnect, Calling, MayCall
<1>2. s.quit => s'.quit
  BY Zenon DEF Post, Motion, Focus, SetEncodings, Answer, Disconnect, Calling, Stop, Fields
<1>3. ~s'.changed => ~s.changed /\ s'.encodings = s.encodings /\ t'.applied = t.applied
  BY Zenon DEF Post, Motion, Focus, SetEncodings, Answer, Disconnect, Calling, Stop, Fields, Locals
<1>4. Types'
  <2>1. call' \in [Callers -> Plans]
    BY <1>1 DEF Plans
  <2>2. CallerNext(c)
    BY DEF CallerNext
  <2> QED
    BY <1>1, <2>1, <2>2, CallTypes
<1>5. DestroyInv'
  <2>1. \A d \in Callers : Joining(d)' => Joining(d)
    BY <1>1, PlansDiffer DEF Joining
  <2> QED
    BY <1>1, <1>2, <2>1 DEF DestroyInv
<1>6. RestInv'
  <2>1. CASE call' = [call EXCEPT ![c] = <<"wake">>]
    BY <1>3, <2>1, OwesWake, Zenon DEF RestInv
  <2>2. CASE call' = [call EXCEPT ![c] = <<>>] /\ s.quit /\ t' = t
    <3>1. call' = call
      BY <1>1, <2>2
    <3>2. Quiet' <=> Quiet
      BY <1>1, <3>1 DEF Quiet, Unwoken
    <3> QED
      BY <1>1, <1>3, <2>2, <3>2 DEF RestInv
  <2> QED
    BY <1>1, <2>1, <2>2
<1> QED
  BY <1>4, <1>5, <1>6, CallerTold DEF CallerNext

\* destroy, which no other call is beside.
LEMMA DestroyIInv == ASSUME IInv, NEW c \in Callers, Destroy(c) PROVE IInv'
<1> USE DEF IInv, Types
<1>1. /\ pc' = pc /\ ~freed /\ freed' = freed /\ wake' = wake /\ s'.quit
      /\ call' = [call EXCEPT ![c] = <<"wake", "join">>]
      /\ \A d \in Callers : call[d] = <<>>
  BY DEF Destroy, Stop, Fields
<1>2. Types'
  <2>1. call' \in [Callers -> Plans]
    BY <1>1 DEF Plans
  <2> QED
    BY <1>1, <2>1, CallTypes DEF CallerNext
<1>3. DestroyInv'
  <2>1. \A d \in Callers : Joining(d)' => d = c
    BY <1>1, PlansDiffer, Zenon DEF Joining
  <2> QED
    BY <1>1, <2>1 DEF DestroyInv
<1>4. RestInv'
  <2>1. ~s'.changed => ~s.changed /\ s'.encodings = s.encodings /\ t'.applied = t.applied
    BY DEF Destroy, Stop, Fields, Locals
  <2> QED
    BY <1>1, <2>1, OwesWake, Zenon DEF RestInv
<1> QED
  BY <1>2, <1>3, <1>4, CallerTold DEF CallerNext

\* The wake that a call owes, and destroy's return.
LEMMA GoesOnIInv == ASSUME IInv, NEW c \in Callers, Wake(c) \/ Join(c) PROVE IInv'
<1> USE DEF IInv, Types
<1>1. /\ UNCHANGED <<pc, s, t, out>> /\ call[c] # <<>> /\ call[c] \in Plans
      /\ call' = [call EXCEPT ![c] = Tail(@)]
  BY DEF Wake, Join, Doing
<1>2. Types'
  BY <1>1, PlanSteps
<1>3. CASE Wake(c)
  <2>1. Tail(call[c]) \in {<<>>, <<"join">>}
        /\ (Tail(call[c]) = <<"join">> => call[c] = <<"wake", "join">>)
    BY <1>1, <1>3, PlanSteps DEF Wake, Doing
  <2>2. \A d \in Callers : Joining(d)' => Joining(d)
    BY <1>1, <2>1, PlansDiffer, Zenon DEF Joining
  <2>3. DestroyInv'
    BY <1>1, <1>3, <2>2 DEF DestroyInv, Wake
  <2>4. RestInv'
    BY <1>1, <1>3 DEF RestInv, Quiet, Wake
  <2> QED
    BY <1>2, <1>3, <2>3, <2>4, CallerTold DEF CallerGoesOn
<1>4. CASE Join(c)
  <2>1. call[c] = <<"join">> /\ Tail(call[c]) = <<>>
    BY <1>1, <1>4, PlanSteps DEF Join, Doing
  <2>2. Joining(c) /\ \A d \in Callers : ~Joining(d)'
    BY <1>1, <2>1, PlansDiffer DEF Joining, DestroyInv
  <2>3. DestroyInv'
    BY <1>1, <1>4, <2>2 DEF DestroyInv, Join
  <2>4. RestInv'
    BY <1>1, <1>4 DEF RestInv, Join
  <2> QED
    BY <1>2, <1>4, <2>3, <2>4, CallerTold DEF CallerGoesOn
<1> QED
  BY <1>3, <1>4

\* Every step keeps the invariant.
LEMMA NextIInv == IInv /\ [Next]_vars => IInv'
<1>1. IInv /\ UNCHANGED vars => IInv'
  BY DEF IInv, Types, ToldInv, DestroyInv, ClientInv, RestInv, Quiet, Joining, Unwoken, vars
<1> QED
  BY <1>1, ThreadIInv, CallIInv, DestroyIInv, GoesOnIInv
  DEF Next, ThreadStep, CallerNext, CallerGoesOn

-----------------------------------------------------------------------------
(* What follows.                                                           *)

\* The inductive invariant holds of every behaviour.
THEOREM IInvHolds == Spec => []IInv
  BY InitIInv, NextIInv, PTL DEF Spec

\* stop never reaches a client that rfbClientCleanup has freed.
THEOREM PublishedIsLiveHolds == Spec => []PublishedIsLive
<1>1. IInv => PublishedIsLive
  BY DEF IInv, ClientInv, PublishedIsLive
<1> QED
  BY IInvHolds, <1>1, PTL

\* The protocol thread never sleeps in poll over a command, a setting, a pause or an
\* end that a caller has finished telling it of, nor over bytes already decrypted.
THEOREM RestsWhenIdleHolds == Spec => []RestsWhenIdle
<1>1. IInv => RestsWhenIdle
  <2> SUFFICES ASSUME IInv, pc = "poll", ~wake, \A c \in Callers : call[c] = <<>>
               PROVE  /\ s.ring = 0 /\ ~s.changed /\ t.applied = s.encodings
                      /\ ~s.quit /\ t.seen = s.paused /\ (t.buffered => t.seen)
    BY DEF RestsWhenIdle
  <2>1. Quiet
    BY PlansDiffer DEF Quiet, Unwoken
  <2> QED
    BY <2>1 DEF IInv, RestInv
<1> QED
  BY IInvHolds, <1>1, PTL

\* A new session is one of the contract's.
LEMMA InitImplements == Init => Abs!Init
<1> SUFFICES ASSUME Init PROVE Abs!Init
  OBVIOUS
<1>1. /\ pc = "opening" /\ out.closed = 0 /\ out.detail = "none" /\ out.connected = 0
      /\ s.quit = FALSE /\ ~freed
  BY DEF Init
<1> QED
  BY <1>1 DEF Abs!Init, Told, Asking, Waits

\* The phase, by where the thread is and what it remembers rather than by the callbacks.
Phase ==
  IF pc = "done" THEN "closed"
  ELSE IF out.detail # "none" THEN "ending"
  ELSE IF t.connected THEN "connected"
  ELSE IF pc = "opening" THEN "opening" ELSE "open"

\* s->connected and the thread's end keep count: the phases are the same, before and after.
LEMMA ToldIsPhase == ASSUME IInv, IInv' PROVE Told = Phase /\ Told' = Phase'
<1> USE DEF ToldInv, Told, Phase
<1>1. Told = Phase
  BY DEF IInv
<1>2. Told' = Phase'
  BY DEF IInv
<1> QED
  BY <1>1, <1>2

\* What the contract sees of a step of the thread: the phase, the question and the detail.
LEMMA ThreadSeen ==
  ASSUME IInv, IInv', ThreadStep
  PROVE  \/ /\ Phase' = Phase /\ (pc \in Waits <=> pc' \in Waits) /\ out'.detail = out.detail
            /\ (t'.connected <=> t.connected)
         \/ /\ Phase = "opening" /\ Phase' = "open"
            /\ pc \notin Waits /\ pc' \notin Waits /\ out'.detail = out.detail
         \/ /\ Phase = "open" /\ Phase' = "open" /\ out'.detail = out.detail
            /\ (pc \in Waits <=> pc' \notin Waits)
         \/ /\ Phase = "open" /\ Phase' = "connected" /\ out'.detail = out.detail
            /\ pc \notin Waits /\ pc' \notin Waits
         \/ /\ Phase \in {"opening", "open", "connected"} /\ Phase' = "ending"
            /\ pc \notin Waits /\ pc' \notin Waits /\ (t'.connected <=> t.connected)
            /\ out'.detail = Detail \/ (Phase = "opening" /\ out'.detail = "why")
         \/ /\ Phase = "ending" /\ Phase' = "closed" /\ (t'.connected <=> t.connected)
            /\ pc \notin Waits /\ pc' \notin Waits /\ out'.detail = out.detail
<1> USE DEF IInv, Types, ToldInv, Tellings, Locals, Pcs, Unsettled, Ending, Before, Up, Waits,
            Phase
<1>1. CASE AddressError
  BY <1>1, ZenonT(40) DEF AddressError, Goto
<1>2. CASE Begin
  BY <1>2, ZenonT(40) DEF Begin, Goto
<1>3. CASE DialWoken
  BY <1>3, ZenonT(40) DEF DialWoken, Pass, Goto
<1>4. CASE Dialled
  BY <1>4, ZenonT(40) DEF Dialled, Pass, Goto
<1>5. CASE DialUnix
  BY <1>5, ZenonT(40) DEF DialUnix, Pass, Goto
<1>6. CASE Adopt
  BY <1>6, ZenonT(40) DEF Adopt, Pass, Goto
<1>7. CASE Forget
  BY <1>7, ZenonT(40) DEF Forget, Pass, Goto
<1>8. CASE Question
  BY <1>8, ZenonT(40) DEF Question, Pass, Goto
<1>9. CASE Waited
  BY <1>9, ZenonT(40) DEF Waited, Pass, Goto
<1>10. CASE Connected
  BY <1>10, ZenonT(40) DEF Connected, Pass, Goto
<1>11. CASE Initialised
  BY <1>11, ZenonT(40) DEF Initialised, Pass, Goto
<1>12. CASE HandshakeFails
  BY <1>12, ZenonT(40) DEF HandshakeFails, Pass, Goto
<1>13. CASE Drain
  BY <1>13, ZenonT(40) DEF Drain, Pass, Goto
<1>14. CASE RunCmd
  BY <1>14, ZenonT(40) DEF RunCmd, Pass, Goto
<1>15. CASE TakeEncodings
  BY <1>15, ZenonT(40) DEF TakeEncodings, Pass, Goto
<1>16. CASE SetFormatAndEncodings
  BY <1>16, ZenonT(40) DEF SetFormatAndEncodings, Pass, Goto
<1>17. CASE Look
  BY <1>17, ZenonT(40) DEF Look, Pass, Goto
<1>18. CASE Poll
  BY <1>18, ZenonT(40) DEF Poll, Pass, Goto
<1>19. CASE Handle
  BY <1>19, ZenonT(40) DEF Handle, Pass, Goto
<1>20. CASE HandleFails
  BY <1>20, ZenonT(40) DEF HandleFails, Pass, Goto
<1>21. CASE SettleLost
  BY <1>21, ZenonT(40) DEF SettleLost, Goto, Detail
<1>22. CASE SettleFailed
  BY <1>22, ZenonT(40) DEF SettleFailed, Goto, Detail
<1>23. CASE Unpublish
  BY <1>23, ZenonT(40) DEF Unpublish, Goto
<1>24. CASE Cleanup
  BY <1>24, ZenonT(40) DEF Cleanup, Goto
<1>25. CASE FireClosed
  BY <1>25, ZenonT(40) DEF FireClosed, Goto
<1>26. CASE ServerSends
  BY <1>26, ZenonT(40) DEF ServerSends
<1>27. CASE ServerHangsUp
  BY <1>27, ZenonT(40) DEF ServerHangsUp
<1> QED
  BY <1>1, <1>2, <1>3, <1>4, <1>5, <1>6, <1>7, <1>8, <1>9, <1>10, <1>11, <1>12, <1>13,
     <1>14, <1>15, <1>16, <1>17, <1>18, <1>19, <1>20, <1>21, <1>22, <1>23, <1>24, <1>25, <1>26, <1>27, Zenon
  DEF ThreadStep, Prompt, Served

\* How often connected and closed have been called, by the phase.
LEMMA Counts ==
  ASSUME ToldInv
  PROVE  /\ Phase \in {"opening", "open"} => ~t.connected /\ out.connected = 0
         /\ Phase = "connected" => t.connected /\ out.connected = 1
         /\ Phase = "closed" => out.closed = 1
         /\ Phase # "closed" => out.closed = 0
  BY DEF ToldInv, Phase

\* Each is a step of the contract: none, Open, Ask or Resume, Connect, Settle or GiveUp,
\* Close.
LEMMA ThreadImplements ==
  ASSUME IInv, IInv', ThreadStep PROVE [Abs!Next]_(Abs!vars)
<1> USE DEF Abs!told, Abs!asks, Abs!ends
<1> Told = Phase /\ Told' = Phase'
  BY ToldIsPhase
<1>1. s'.quit = s.quit /\ freed' = freed
  BY ThreadEnds DEF IInv
<1>2. /\ Phase' \in {"opening", "open"} => ~t'.connected /\ out'.connected = 0
      /\ Phase' = "connected" => t'.connected /\ out'.connected = 1
      /\ Phase' = "closed" => out'.closed = 1
      /\ Phase' # "closed" => out'.closed = 0
  BY DEF IInv, ToldInv, Phase
<1>3. (t'.connected <=> t.connected) => out'.connected = out.connected
  BY DEF IInv, ToldInv
<1>4. /\ pc \in Waits => Asking = 1
      /\ pc \notin Waits => Asking = 0
      /\ pc' \in Waits => Asking' = 1
      /\ pc' \notin Waits => Asking' = 0
  BY DEF Asking
<1> USE Counts, <1>1, <1>2, <1>3, <1>4 DEF IInv
<1>5. CASE Phase' = Phase /\ (pc \in Waits <=> pc' \in Waits) /\ out'.detail = out.detail
           /\ (t'.connected <=> t.connected)
  <2>1. Asking' = Asking /\ out'.closed = out.closed /\ out'.connected = out.connected
    BY <1>5
  <2> QED
    BY <1>5, <2>1 DEF Abs!vars
<1>6. CASE /\ Phase = "opening" /\ Phase' = "open"
           /\ pc \notin Waits /\ pc' \notin Waits /\ out'.detail = out.detail
  <2>1. Abs!Open
    BY <1>6 DEF Abs!Open
  <2> QED
    BY <2>1 DEF Abs!Next
<1>7. CASE /\ Phase = "open" /\ Phase' = "open" /\ out'.detail = out.detail
           /\ (pc \in Waits <=> pc' \notin Waits)
  <2>1. Abs!Ask \/ Abs!Resume
    BY <1>7 DEF Abs!Ask, Abs!Resume, Abs!Running
  <2> QED
    BY <2>1 DEF Abs!Next
<1>8. CASE /\ Phase = "open" /\ Phase' = "connected" /\ out'.detail = out.detail
           /\ pc \notin Waits /\ pc' \notin Waits
  <2>1. Abs!Connect
    BY <1>8 DEF Abs!Connect
  <2> QED
    BY <2>1 DEF Abs!Next
<1>9. CASE /\ Phase \in {"opening", "open", "connected"} /\ Phase' = "ending"
           /\ pc \notin Waits /\ pc' \notin Waits /\ (t'.connected <=> t.connected)
           /\ out'.detail = Detail \/ (Phase = "opening" /\ out'.detail = "why")
  <2>1. \/ out'.detail = "why" /\ ~s.quit
        \/ out'.detail = "" /\ s.quit
        \/ out'.detail = "why" /\ s.quit /\ Phase = "opening"
    BY <1>9, Zenon DEF Detail
  <2>2. /\ Abs!Running /\ Asking' = Asking
        /\ out'.connected = out.connected /\ out'.closed = out.closed
    BY <1>9 DEF Abs!Running
  <2>3. Abs!Settle \/ Abs!GiveUp
    BY <1>9, <2>1, <2>2, Zenon DEF Abs!Settle, Abs!GiveUp
  <2> QED
    BY <2>3 DEF Abs!Next
<1>10. CASE /\ Phase = "ending" /\ Phase' = "closed" /\ (t'.connected <=> t.connected)
            /\ pc \notin Waits /\ pc' \notin Waits /\ out'.detail = out.detail
  <2>1. Abs!Close
    BY <1>10 DEF Abs!Close
  <2> QED
    BY <2>1 DEF Abs!Next
<1> QED
  BY ThreadSeen, <1>5, <1>6, <1>7, <1>8, <1>9, <1>10

\* The calls: an end is requested, destroy returns, and the others show nothing.
LEMMA CallerImplements ==
  ASSUME IInv, NEW c \in Callers, CallerNext(c) \/ CallerGoesOn(c)
  PROVE  [Abs!Next]_(Abs!vars)
<1> USE DEF IInv, Types
<1>1. CASE Answer(c) \/ Disconnect(c) \/ Destroy(c)
  <2>1. /\ pc' = pc /\ ~freed /\ freed' = freed /\ (s'.quit \/ s'.quit = s.quit)
        /\ UNCHANGED <<out.connected, out.detail, out.closed>>
    BY <1>1, Zenon DEF Answer, Disconnect, Destroy, MayCall, Stop, Fields, Tellings
  <2>2. CASE s'.quit
    <3>1. Abs!End
      BY <2>1, <2>2, <1>1, Zenon
      DEF Abs!End, Abs!told, Abs!asks, Told, Asking, Answer, Disconnect, Destroy, Stop, Fields
    <3> QED
      BY <3>1 DEF Abs!Next
  <2>3. CASE s'.quit = s.quit
    BY <2>1, <2>3 DEF Abs!vars, Told, Asking
  <2> QED
    BY <2>1, <2>2, <2>3
<1>2. CASE Post(c) \/ Motion(c) \/ Focus(c) \/ SetEncodings(c) \/ Wake(c)
  <2>1. UNCHANGED <<pc, out, freed>> /\ s'.quit = s.quit
    BY <1>2, Zenon DEF Post, Motion, Focus, SetEncodings, Wake, Calling, Fields
  <2> QED
    BY <2>1 DEF Abs!vars, Told, Asking
<1>3. CASE Join(c)
  <2>1. call[c] = <<"join">>
    BY <1>3, PlanSteps DEF Join, Doing
  <2>2. s.quit /\ ~freed
    BY <2>1 DEF DestroyInv, Joining
  <2>3. Abs!Free
    BY <1>3, <2>2 DEF Join, Abs!Free, Abs!told, Abs!asks, Told, Asking, ToldInv, Fields
  <2> QED
    BY <2>3 DEF Abs!Next
<1> QED
  BY <1>1, <1>2, <1>3 DEF CallerNext, CallerGoesOn

\* A session of libvncclient implements Session, the contract of vento/backend.h.
THEOREM LibvncImplements == Spec => SessionsImplement
<1>1. IInv /\ IInv' /\ [Next]_vars => [Abs!Next]_(Abs!vars)
  <2>1. UNCHANGED vars => UNCHANGED Abs!vars
    BY DEF vars, Abs!vars, Told, Asking
  <2> QED
    BY <2>1, ThreadImplements, CallerImplements DEF Next, ThreadStep
<1> QED
  BY InitImplements, IInvHolds, <1>1, PTL DEF Spec, SessionsImplement, Abs!Spec

=============================================================================
