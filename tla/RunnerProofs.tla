---------------------------- MODULE RunnerProofs ----------------------------
(***************************************************************************)
(* Proofs about Runner, for any number of questions and any client.        *)
(***************************************************************************)
EXTENDS Runner, TLAPS

\* Taking an element out of a sequence adds none.
LEMMA WithoutElements ==
  ASSUME NEW S, NEW s \in Seq(S), NEW i \in DOMAIN s
  PROVE  /\ Without(s, i) \in Seq(S)
         /\ \A j \in DOMAIN Without(s, i) : \E k \in DOMAIN s : Without(s, i)[j] = s[k]
<1>1. i \in 1..Len(s) /\ Len(s) \in Nat
  OBVIOUS
<1> DEFINE a == SubSeq(s, 1, i - 1)
           b == SubSeq(s, i + 1, Len(s))
<1>2. a \in Seq(S) /\ Len(a) = i - 1 /\ \A j \in 1..(i - 1) : a[j] = s[j]
  BY <1>1
<1>3. b \in Seq(S) /\ Len(b) = Len(s) - i /\ \A j \in 1..(Len(s) - i) : b[j] = s[i + j]
  BY <1>1
<1>4. Without(s, i) = a \o b
  BY DEF Without
<1> HIDE DEF a, b
<1>5. a \o b \in Seq(S) /\ Len(a \o b) = Len(s) - 1
  BY <1>1, <1>2, <1>3
<1>6. ASSUME NEW j \in 1..(Len(s) - 1) PROVE \E k \in 1..Len(s) : (a \o b)[j] = s[k]
  <2>1. CASE j < i
    <3>1. (a \o b)[j] = s[j]
      BY <1>1, <1>2, <1>3, <2>1
    <3>2. QED
      BY <1>1, <3>1
  <2>2. CASE j >= i
    <3>1. (a \o b)[j] = s[j + 1]
      BY <1>1, <1>2, <1>3, <2>2
    <3>2. j + 1 \in 1..Len(s)
      BY <1>1
    <3>3. QED
      BY <3>1, <3>2
  <2>3. j < i \/ j >= i
    BY <1>1
  <2>4. QED
    BY <2>1, <2>2, <2>3, Zenon
<1>7. DOMAIN (a \o b) = 1..(Len(s) - 1) /\ DOMAIN s = 1..Len(s)
  BY <1>1, <1>5
<1>8. QED
  BY <1>4, <1>5, <1>6, <1>7, Zenon


\* A sequence without its first element.
LEMMA TailElements ==
  ASSUME NEW S, NEW s \in Seq(S), s # <<>>
  PROVE  /\ Tail(s) \in Seq(S) /\ 1 \in DOMAIN s /\ Head(s) = s[1] /\ s[1] \in S
         /\ \A i \in DOMAIN Tail(s) : i + 1 \in DOMAIN s /\ Tail(s)[i] = s[i + 1]
<1>1. Len(s) \in Nat \ {0} /\ DOMAIN s = 1..Len(s)
  OBVIOUS
<1>2. Tail(s) \in Seq(S) /\ DOMAIN Tail(s) = 1..(Len(s) - 1)
  BY <1>1
<1>3. \A i \in 1..(Len(s) - 1) : Tail(s)[i] = s[i + 1]
  BY <1>1
<1>4. QED
  BY <1>1, <1>2, <1>3

\* A sequence with one more element.
LEMMA AppendElements ==
  ASSUME NEW S, NEW s \in Seq(S), NEW e \in S
  PROVE  /\ Append(s, e) \in Seq(S)
         /\ \A i \in DOMAIN Append(s, e) : \/ Append(s, e)[i] = e
                                           \/ i \in DOMAIN s /\ Append(s, e)[i] = s[i]
OBVIOUS

\* What the slot's operations make of a slot, field by field.
LEMMA SlotOperations ==
  ASSUME NEW slot \in SlotsOfAnswers
  PROVE  /\ Begin(slot) \in SlotsOfAnswers /\ Begin(slot).begun
         /\ \/ Begin(slot).is = slot.is /\ Begin(slot).value = slot.value
               /\ slot.is \in {"Empty", "Cancelled"}
            \/ Begin(slot).is = "Empty" /\ Begin(slot).value = NoAnswer
         /\ Taken(slot) \in SlotsOfAnswers /\ Taken(slot).is = "Empty" /\ Taken(slot).value = NoAnswer
         /\ Taken(slot).begun = FALSE
         /\ Withdraw(slot) \in SlotsOfAnswers /\ Withdraw(slot).begun = slot.begun
         /\ Withdraw(slot).value = slot.value
         /\ \/ Withdraw(slot).is = slot.is /\ (slot.begun => slot.is # "Empty")
            \/ Withdraw(slot).is = "Withdrawn" /\ slot.is = "Empty" /\ slot.begun
BY Zenon DEF SlotsOfAnswers, States, Begin, Emptied, Taken, Withdraw

\* The two answers a slot is given.
LEMMA SlotAnswers ==
  ASSUME NEW slot \in SlotsOfAnswers, NEW v \in Answers
  PROVE  /\ AnswerWith(slot, v) \in SlotsOfAnswers /\ AnswerWith(slot, v).is = "Answered"
         /\ AnswerWith(slot, v).value = v /\ AnswerWith(slot, v).begun = slot.begun
         /\ Cancel(slot, v) \in SlotsOfAnswers /\ Cancel(slot, v).is = "Cancelled"
         /\ Cancel(slot, v).value = v /\ Cancel(slot, v).begun = slot.begun
<1>1. v # NoAnswer
  BY RunnerAssumption DEF Answers
<1>2. QED
  BY <1>1, Zenon DEF SlotsOfAnswers, States, AnswerWith, Cancel

LEMMA InitIInv == Init => IInv
<1> SUFFICES ASSUME Init PROVE IInv
  OBVIOUS
<1> USE RunnerAssumption DEF Init
<1>1. credentials \in SlotsOfAnswers /\ trust \in SlotsOfAnswers
  BY DEF NewSlot, SlotsOfAnswers, States
<1>2. taken \in Takings
  BY DEF Takings
<1>3. events \in Seq(Events) /\ open \in Seq(Prompts) /\ early \in Seq(Messages)
  OBVIOUS
<1>4. TypeOK
  BY <1>1, <1>2, <1>3, Zenon DEF FlagsOK, TypeOK, NewSlot, Labels, Disconnecting
<1>5. QED
  BY <1>4 DEF IInv, Asking, TrustAsked, EventsNameQuestions, ClosedFirst, AnswerIsFresh,
     DisconnectIsSilent, NewSlot, AskingCredentials, PasswordLabels, Accepted, TrustNotPut

\* A step of disconnect, in whichever thread: the close comes first.
LEMMA DisconnectStepKeepsAsking ==
  ASSUME IInv, NEW at, NEW next, DisconnectStep(at, next),
         at \in {"cancelCredentials", "cancelTrust"} => hungUp,
         UNCHANGED <<client, closed, events, open>>
  PROVE  /\ FlagsOK' /\ hungUp'
         /\ credentials' \in SlotsOfAnswers /\ trust' \in SlotsOfAnswers
         /\ trust'.is \in {"Empty", "Answered"} /\ ~trust'.begun
         /\ credentials'.is = "Withdrawn" => kind' = "withdrawable"
         /\ Asking' /\ TrustAsked'
<1> USE DEF IInv, client
<1>1. Refusal \in Answers /\ Refusal.accept = FALSE
  BY DEF TypeOK, Refusal, Answers
<1>2. hungUp' = TRUE
  BY DEF DisconnectStep
<1>3. FlagsOK'
  BY <1>2, Zenon DEF TypeOK, FlagsOK
<1>4. credentials \in SlotsOfAnswers /\ trust \in SlotsOfAnswers
  BY DEF TypeOK
<1>5. /\ AnswerWith(trust, Refusal) \in SlotsOfAnswers /\ AnswerWith(trust, Refusal).is = "Answered"
       /\ AnswerWith(trust, Refusal).value = Refusal /\ AnswerWith(trust, Refusal).begun = trust.begun
       /\ Cancel(credentials, Refusal) \in SlotsOfAnswers /\ Cancel(credentials, Refusal).is = "Cancelled"
       /\ Cancel(credentials, Refusal).begun = credentials.begun
       /\ Cancel(credentials, Refusal).value = Refusal
  BY <1>1, <1>4, SlotAnswers
<1>6. \/ UNCHANGED <<credentials, trust>>
      \/ /\ credentials' \in SlotsOfAnswers /\ credentials'.is = "Cancelled"
         /\ credentials'.begun = credentials.begun /\ credentials'.value.accept = FALSE
         /\ UNCHANGED trust
      \/ /\ trust' \in SlotsOfAnswers /\ trust'.is = "Answered" /\ trust'.value.accept = FALSE
         /\ trust'.begun = trust.begun
         /\ UNCHANGED credentials
  BY <1>1, <1>5 DEF DisconnectStep
<1>7. /\ credentials' \in SlotsOfAnswers /\ trust' \in SlotsOfAnswers
      /\ trust'.is \in {"Empty", "Answered"} /\ ~trust'.begun
      /\ credentials'.is = "Withdrawn" => kind' = "withdrawable"
  BY <1>6 DEF TypeOK
<1>8. Asking'
  BY <1>6 DEF Asking, AskingCredentials, Ready
<1>9. TrustAsked'
  BY <1>6 DEF TrustAsked, TrustNotPut, Accepted
<1>10. QED
  BY <1>2, <1>3, <1>7, <1>8, <1>9

LEMMA IoKeepsIInv == IInv /\ Io => IInv'
<1> SUFFICES ASSUME IInv, Io PROVE IInv'
  OBVIOUS
<1> USE RunnerAssumption DEF IInv, Window, Closing, Slots, client, Put, Event, Take
<1>1. FlagsOK'
  BY Zenon DEF Io, FlagsOK, TypeOK
<1>2. TypeOK'
  BY <1>1 DEF Io, TypeOK, Labels, Disconnecting
<1>3. Asking' /\ TrustAsked' /\ EventsNameQuestions' /\ ClosedFirst' /\ AnswerIsFresh'
      /\ (ChecksFlag => DisconnectIsSilent)'
  BY DEF Io, TypeOK, Asking, AskingCredentials, PasswordLabels, Ready, TrustAsked, TrustNotPut, Accepted,
     EventsNameQuestions, ClosedFirst, AnswerIsFresh, DisconnectIsSilent
<1>4. QED
  BY <1>2, <1>3

LEMMA TakeEarlyKeepsIInv == IInv /\ TakeEarly => IInv'
<1> SUFFICES ASSUME IInv, TakeEarly PROVE IInv'
  OBVIOUS
<1> USE RunnerAssumption DEF IInv, Window, Closing, Slots, client, Put, Event, Take
<1>1. early' \in Seq(Messages)
  <2>1. early \in Seq(Messages)
    BY DEF TypeOK
  <2>2. QED
    BY <2>1, TailElements DEF TakeEarly
<1>2. FlagsOK'
  BY Zenon DEF TakeEarly, FlagsOK, TypeOK
<1>3. TypeOK'
  BY <1>1, <1>2 DEF TakeEarly, TypeOK, Labels, Disconnecting
<1>4. Asking' /\ TrustAsked' /\ EventsNameQuestions' /\ ClosedFirst' /\ AnswerIsFresh'
      /\ (ChecksFlag => DisconnectIsSilent)'
  BY DEF TakeEarly, TypeOK, Asking, AskingCredentials, PasswordLabels, Ready, TrustAsked, TrustNotPut, Accepted,
     EventsNameQuestions, ClosedFirst, AnswerIsFresh, DisconnectIsSilent
<1>5. QED
  BY <1>3, <1>4

LEMMA AskCredentialsKeepsIInv == IInv /\ AskCredentials => IInv'
<1> SUFFICES ASSUME IInv, AskCredentials PROVE IInv'
  OBVIOUS
<1> USE RunnerAssumption DEF IInv, Window, Closing, Slots, client, Put, Event, Take
<1>1. Begin(credentials) \in SlotsOfAnswers /\ Begin(credentials).begun
      /\ \/ Begin(credentials).is = credentials.is /\ Begin(credentials).value = credentials.value
            /\ credentials.is \in {"Empty", "Cancelled"}
         \/ Begin(credentials).is = "Empty" /\ Begin(credentials).value = NoAnswer
  BY SlotOperations, Zenon DEF TypeOK
<1>2. FlagsOK'
  BY Zenon DEF AskCredentials, FlagsOK, TypeOK
<1>3. TypeOK'
  BY <1>1, <1>2 DEF AskCredentials, TypeOK, Labels, Disconnecting
<1>4. Asking'
  BY <1>1 DEF AskCredentials, TypeOK, Asking, AskingCredentials, PasswordLabels, Ready
<1>5. TrustAsked'
  BY <1>1 DEF AskCredentials, TypeOK, TrustAsked, Asking, TrustNotPut, Accepted, PasswordLabels
<1>6. EventsNameQuestions'
  BY <1>1 DEF AskCredentials, TypeOK, EventsNameQuestions, Asking
<1>7. ClosedFirst'
  BY <1>1 DEF AskCredentials, TypeOK, ClosedFirst
<1>8. AnswerIsFresh' /\ (ChecksFlag => DisconnectIsSilent)'
  BY <1>1 DEF AskCredentials, TypeOK, Asking, TrustAsked, ClosedFirst, AnswerIsFresh, DisconnectIsSilent, AskingCredentials, Accepted, Ready
<1>9. QED
  BY <1>3, <1>4, <1>5, <1>6, <1>7, <1>8

LEMMA AskTrustKeepsIInv == IInv /\ AskTrust => IInv'
<1> SUFFICES ASSUME IInv, AskTrust PROVE IInv'
  OBVIOUS
<1> USE RunnerAssumption DEF IInv, Window, Closing, Slots, client, Put, Event, Take
<1>1. FlagsOK'
  BY Zenon DEF AskTrust, FlagsOK, TypeOK
<1>2. TypeOK'
  BY <1>1 DEF AskTrust, TypeOK, Labels, Disconnecting
<1>3. Asking' /\ TrustAsked' /\ EventsNameQuestions' /\ ClosedFirst' /\ AnswerIsFresh'
      /\ (ChecksFlag => DisconnectIsSilent)'
  BY DEF AskTrust, TypeOK, Asking, AskingCredentials, PasswordLabels, Ready, TrustAsked, TrustNotPut, Accepted,
     EventsNameQuestions, ClosedFirst, AnswerIsFresh, DisconnectIsSilent
<1>4. QED
  BY <1>2, <1>3

LEMMA AskPasswordKeepsIInv == IInv /\ AskPassword => IInv'
<1> SUFFICES ASSUME IInv, AskPassword PROVE IInv'
  OBVIOUS
<1> USE RunnerAssumption DEF IInv, Window, Closing, Slots, client, Put, Event, Take
<1>1. FlagsOK'
  BY Zenon DEF AskPassword, FlagsOK, TypeOK
<1>2. early' \in Seq(Messages)
  <2>1. early \in Seq(Messages)
    BY DEF TypeOK
  <2>2. early # <<>> => Tail(early) \in Seq(Messages)
    BY <2>1, TailElements
  <2>3. QED
    BY <2>1, <2>2 DEF AskPassword
<1>3. TypeOK'
  BY <1>1, <1>2 DEF AskPassword, TypeOK, Labels, Disconnecting
<1>4. Asking' /\ TrustAsked' /\ EventsNameQuestions' /\ ClosedFirst' /\ AnswerIsFresh'
      /\ (ChecksFlag => DisconnectIsSilent)'
  BY DEF AskPassword, TypeOK, Asking, AskingCredentials, PasswordLabels, Ready, TrustAsked, TrustNotPut, Accepted,
     EventsNameQuestions, ClosedFirst, AnswerIsFresh, DisconnectIsSilent
<1>5. QED
  BY <1>3, <1>4

LEMMA TestFiredKeepsIInv == IInv /\ TestFired => IInv'
<1> SUFFICES ASSUME IInv, TestFired PROVE IInv'
  OBVIOUS
<1> USE RunnerAssumption DEF IInv, Window, Closing, Slots, client, Put, Event, Take
<1>1. FlagsOK'
  BY Zenon DEF TestFired, FlagsOK, TypeOK
<1>2. TypeOK'
  BY <1>1 DEF TestFired, TypeOK, Labels, Disconnecting
<1>3. Asking' /\ TrustAsked' /\ EventsNameQuestions' /\ ClosedFirst' /\ AnswerIsFresh'
      /\ (ChecksFlag => DisconnectIsSilent)'
  BY DEF TestFired, TypeOK, Asking, AskingCredentials, PasswordLabels, Ready, TrustAsked, TrustNotPut, Accepted,
     EventsNameQuestions, ClosedFirst, AnswerIsFresh, DisconnectIsSilent
<1>4. QED
  BY <1>2, <1>3

LEMMA BeginAskingKeepsIInv == IInv /\ BeginAsking => IInv'
<1> SUFFICES ASSUME IInv, BeginAsking PROVE IInv'
  OBVIOUS
<1> USE RunnerAssumption DEF IInv, Window, Closing, Slots, client, Put, Event, Take
<1>1. Begin(credentials) \in SlotsOfAnswers /\ Begin(credentials).begun
      /\ \/ Begin(credentials).is = credentials.is /\ Begin(credentials).value = credentials.value
            /\ credentials.is \in {"Empty", "Cancelled"}
         \/ Begin(credentials).is = "Empty" /\ Begin(credentials).value = NoAnswer
  BY SlotOperations, Zenon DEF TypeOK
<1>2. FlagsOK'
  BY Zenon DEF BeginAsking, FlagsOK, TypeOK
<1>3. TypeOK'
  BY <1>1, <1>2 DEF BeginAsking, TypeOK, Labels, Disconnecting
<1>4. Asking'
  BY <1>1 DEF BeginAsking, TypeOK, Asking, AskingCredentials, PasswordLabels, Ready
<1>5. TrustAsked'
  BY <1>1 DEF BeginAsking, TypeOK, TrustAsked, Asking, TrustNotPut, Accepted, PasswordLabels
<1>6. EventsNameQuestions'
  BY <1>1 DEF BeginAsking, TypeOK, EventsNameQuestions, Asking
<1>7. ClosedFirst'
  BY <1>1 DEF BeginAsking, TypeOK, ClosedFirst
<1>8. AnswerIsFresh' /\ (ChecksFlag => DisconnectIsSilent)'
  BY <1>1 DEF BeginAsking, TypeOK, Asking, TrustAsked, ClosedFirst, AnswerIsFresh, DisconnectIsSilent, AskingCredentials, Accepted, Ready
<1>9. QED
  BY <1>3, <1>4, <1>5, <1>6, <1>7, <1>8

LEMMA ArmKeepsIInv == IInv /\ Arm => IInv'
<1> SUFFICES ASSUME IInv, Arm PROVE IInv'
  OBVIOUS
<1> USE RunnerAssumption DEF IInv, Window, Closing, Slots, client, Put, Event, Take
<1>1. Withdraw(credentials) \in SlotsOfAnswers /\ Withdraw(credentials).begun = credentials.begun
      /\ Withdraw(credentials).value = credentials.value
      /\ \/ Withdraw(credentials).is = credentials.is /\ (credentials.begun => credentials.is # "Empty")
         \/ Withdraw(credentials).is = "Withdrawn" /\ credentials.is = "Empty" /\ credentials.begun
  BY SlotOperations, Zenon DEF TypeOK
<1>2. FlagsOK'
  BY Zenon DEF Arm, FlagsOK, TypeOK
<1>3. TypeOK'
  BY <1>1, <1>2 DEF Arm, TypeOK, Labels, Disconnecting, Asking, PasswordLabels
<1>4. Asking'
  BY <1>1 DEF Arm, TypeOK, Asking, AskingCredentials, PasswordLabels, Ready
<1>5. TrustAsked'
  BY <1>1 DEF Arm, TypeOK, TrustAsked, Asking, TrustNotPut, Accepted, PasswordLabels
<1>6. EventsNameQuestions'
  BY <1>1 DEF Arm, TypeOK, EventsNameQuestions, Asking
<1>7. ClosedFirst'
  BY <1>1 DEF Arm, TypeOK, ClosedFirst
<1>8. AnswerIsFresh' /\ (ChecksFlag => DisconnectIsSilent)'
  BY <1>1 DEF Arm, TypeOK, Asking, TrustAsked, ClosedFirst, AnswerIsFresh, DisconnectIsSilent, AskingCredentials, Accepted, Ready
<1>9. QED
  BY <1>3, <1>4, <1>5, <1>6, <1>7, <1>8

LEMMA PutQuestionKeepsIInv == IInv /\ PutQuestion => IInv'
<1> SUFFICES ASSUME IInv, PutQuestion PROVE IInv'
  OBVIOUS
<1> USE RunnerAssumption DEF IInv, Window, Closing, Slots, client, Put, Event, Take
<1>1. events' \in Seq(Events)
  <2>1. events \in Seq(Events) /\ Event(IF kind = "trust" THEN "trust" ELSE "credentials") \in Events
    BY DEF TypeOK, Events
  <2>2. QED
    BY <2>1, AppendElements DEF PutQuestion
<1>2. FlagsOK'
  BY Zenon DEF PutQuestion, FlagsOK, TypeOK
<1>3. TypeOK'
  BY <1>1, <1>2 DEF PutQuestion, TypeOK, Labels, Disconnecting
<1>4. Asking'
  BY DEF PutQuestion, TypeOK, Asking, AskingCredentials, PasswordLabels, Ready
<1>5. TrustAsked'
  BY DEF PutQuestion, TypeOK, TrustAsked, Asking, TrustNotPut, Accepted, PasswordLabels
<1>6. EventsNameQuestions'
  BY DEF PutQuestion, TypeOK, EventsNameQuestions, Asking
<1>7. ClosedFirst'
  BY DEF PutQuestion, TypeOK, ClosedFirst
<1>8. AnswerIsFresh' /\ (ChecksFlag => DisconnectIsSilent)'
  BY DEF PutQuestion, TypeOK, Asking, TrustAsked, ClosedFirst, AnswerIsFresh, DisconnectIsSilent, AskingCredentials, Accepted, Ready
<1>9. QED
  BY <1>3, <1>4, <1>5, <1>6, <1>7, <1>8

LEMMA WaitTrustKeepsIInv == IInv /\ WaitTrust => IInv'
<1> SUFFICES ASSUME IInv, WaitTrust PROVE IInv'
  OBVIOUS
<1> USE RunnerAssumption DEF IInv, Window, Closing, Slots, client, Put, Event, Take
<1>1. taken' \in Takings
  BY DEF WaitTrust, TypeOK, SlotsOfAnswers, Takings
<1>2. Taken(trust) \in SlotsOfAnswers /\ Taken(trust).is = "Empty" /\ Taken(trust).value = NoAnswer
      /\ Taken(trust).begun = FALSE
  BY SlotOperations, Zenon DEF TypeOK
<1>3. trust.value \in Answers \cup {NoAnswer} /\ (trust.value # NoAnswer <=> trust.is \in {"Answered", "Cancelled"})
      /\ trust.is \in States
  BY DEF TypeOK, SlotsOfAnswers
<1>4. FlagsOK'
  BY Zenon DEF WaitTrust, FlagsOK, TypeOK
<1>5. TypeOK'
  BY <1>1, <1>2, <1>3, <1>4 DEF WaitTrust, TypeOK, Labels, Disconnecting, States
<1>6. Asking'
  BY <1>2, <1>3, Zenon DEF WaitTrust, TypeOK, Asking, AskingCredentials, PasswordLabels, Ready, States
<1>7. TrustAsked'
  BY <1>2, <1>3 DEF WaitTrust, TypeOK, TrustAsked, Asking, TrustNotPut, Accepted, PasswordLabels, States
<1>8. EventsNameQuestions'
  BY <1>2, <1>3 DEF WaitTrust, TypeOK, EventsNameQuestions, Asking, States
<1>9. ClosedFirst'
  BY <1>2, <1>3 DEF WaitTrust, TypeOK, ClosedFirst, States, Ready
<1>10. AnswerIsFresh' /\ (ChecksFlag => DisconnectIsSilent)'
  BY <1>2, <1>3 DEF WaitTrust, TypeOK, Asking, TrustAsked, ClosedFirst, AnswerIsFresh, DisconnectIsSilent, AskingCredentials, Accepted, Ready, States
<1>11. QED
  BY <1>5, <1>6, <1>7, <1>8, <1>9, <1>10

LEMMA WaitCredentialsKeepsIInv == IInv /\ WaitCredentials => IInv'
<1> SUFFICES ASSUME IInv, WaitCredentials PROVE IInv'
  OBVIOUS
<1> USE RunnerAssumption DEF IInv, Window, Closing, Slots, client, Put, Event, Take
<1>1. taken' \in Takings
  BY DEF WaitCredentials, TypeOK, SlotsOfAnswers, Takings
<1>2. Taken(credentials) \in SlotsOfAnswers /\ Taken(credentials).is = "Empty" /\ Taken(credentials).value = NoAnswer
      /\ Taken(credentials).begun = FALSE
  BY SlotOperations, Zenon DEF TypeOK
<1>3. credentials.value \in Answers \cup {NoAnswer} /\ (credentials.value # NoAnswer <=> credentials.is \in {"Answered", "Cancelled"})
      /\ credentials.is \in States
  BY DEF TypeOK, SlotsOfAnswers
<1>4. FlagsOK'
  BY Zenon DEF WaitCredentials, FlagsOK, TypeOK
<1>5. TypeOK'
  BY <1>1, <1>2, <1>3, <1>4 DEF WaitCredentials, TypeOK, Labels, Disconnecting, States
<1>6. Asking'
  BY <1>2, <1>3 DEF WaitCredentials, TypeOK, Asking, AskingCredentials, PasswordLabels, Ready, States
<1>7. TrustAsked'
  BY <1>2, <1>3 DEF WaitCredentials, TypeOK, TrustAsked, Asking, TrustNotPut, Accepted, PasswordLabels, States
<1>8. EventsNameQuestions'
  BY <1>2, <1>3 DEF WaitCredentials, TypeOK, EventsNameQuestions, Asking, States
<1>9. ClosedFirst'
  BY <1>2, <1>3 DEF WaitCredentials, TypeOK, ClosedFirst, States, Ready
<1>10. AnswerIsFresh' /\ (ChecksFlag => DisconnectIsSilent)'
  <2>1. /\ taken' = [by |-> asked, answer |-> credentials.value] /\ pc' # "finished"
        /\ credentials.is = "Answered" => credentials.value.at = asked
        /\ credentials.is = "Cancelled" => ~credentials.value.accept
    BY DEF WaitCredentials, Asking, AskingCredentials
  <2>2. QED
    BY <1>3, <2>1 DEF AnswerIsFresh, DisconnectIsSilent
<1>11. QED
  BY <1>5, <1>6, <1>7, <1>8, <1>9, <1>10

LEMMA WaitPasswordKeepsIInv == IInv /\ WaitPassword => IInv'
<1> SUFFICES ASSUME IInv, WaitPassword PROVE IInv'
  OBVIOUS
<1> USE RunnerAssumption DEF IInv, Window, Closing, Slots, client, Put, Event, Take
<1>1. taken' \in Takings
  BY DEF WaitPassword, TypeOK, SlotsOfAnswers, Takings
<1>2. Taken(credentials) \in SlotsOfAnswers /\ Taken(credentials).is = "Empty" /\ Taken(credentials).value = NoAnswer
      /\ Taken(credentials).begun = FALSE
  BY SlotOperations, Zenon DEF TypeOK
<1>3. credentials.value \in Answers \cup {NoAnswer} /\ (credentials.value # NoAnswer <=> credentials.is \in {"Answered", "Cancelled"})
      /\ credentials.is \in States
  BY DEF TypeOK, SlotsOfAnswers
<1>4. FlagsOK'
  BY Zenon DEF WaitPassword, FlagsOK, TypeOK
<1>5. TypeOK'
  BY <1>1, <1>2, <1>3, <1>4 DEF WaitPassword, TypeOK, Labels, Disconnecting, States
<1>6. Asking'
  BY <1>2, <1>3 DEF WaitPassword, TypeOK, Asking, AskingCredentials, PasswordLabels, Ready, States
<1>7. TrustAsked'
  BY <1>2, <1>3 DEF WaitPassword, TypeOK, TrustAsked, Asking, TrustNotPut, Accepted, PasswordLabels, States
<1>8. EventsNameQuestions'
  BY <1>2, <1>3 DEF WaitPassword, TypeOK, EventsNameQuestions, Asking, States
<1>9. ClosedFirst'
  <2>1. /\ taken' = [by |-> asked, answer |-> credentials.value]
        /\ pc' = "cancelled" => credentials.is = "Cancelled"
    BY DEF WaitPassword
  <2>2. outcome # "refused"
    BY DEF WaitPassword, Asking
  <2>3. QED
    BY <1>2, <1>3, <2>1, <2>2 DEF WaitPassword, ClosedFirst
<1>10. AnswerIsFresh' /\ (ChecksFlag => DisconnectIsSilent)'
  <2>1. /\ taken' = [by |-> asked, answer |-> credentials.value] /\ pc' # "finished"
        /\ credentials.is = "Answered" => credentials.value.at = asked
        /\ credentials.is = "Cancelled" => ~credentials.value.accept
    BY DEF WaitPassword, Asking, AskingCredentials
  <2>2. QED
    BY <1>3, <2>1 DEF AnswerIsFresh, DisconnectIsSilent
<1>11. QED
  BY <1>5, <1>6, <1>7, <1>8, <1>9, <1>10

LEMMA DisarmKeepsIInv == IInv /\ Disarm => IInv'
<1> SUFFICES ASSUME IInv, Disarm PROVE IInv'
  OBVIOUS
<1> USE RunnerAssumption DEF IInv, Window, Closing, Slots, client, Put, Event, Take
<1>1. events \in Seq(Events) /\ open \in Seq(Prompts)
  BY DEF TypeOK
<1>2. FlagsOK'
  BY Zenon DEF Disarm, FlagsOK, TypeOK
<1>3. Event("withdrawn") \in Events /\ Event("withdrawn").name = "withdrawn"
  BY DEF TypeOK, Events
<1>4. events' \in Seq(Events)
  <2>1. CASE pc = "withdrawn"
    <3>1. events' = Append(events, Event("withdrawn"))
      BY <2>1 DEF Disarm
    <3>2. QED
      BY <1>1, <1>3, <3>1, AppendElements
  <2>2. CASE pc # "withdrawn"
    BY <1>1, <2>2 DEF Disarm
  <2>3. QED
    BY <2>1, <2>2
<1>5. \A i \in DOMAIN events' : events'[i].name = "withdrawn" \/ (i \in DOMAIN events /\ events'[i] = events[i])
  <2>1. CASE pc = "withdrawn"
    <3>1. events' = Append(events, Event("withdrawn"))
      BY <2>1 DEF Disarm
    <3>2. QED
      BY <1>1, <1>3, <3>1, AppendElements
  <2>2. CASE pc # "withdrawn"
    BY <1>1, <2>2 DEF Disarm
  <2>3. QED
    BY <2>1, <2>2
<1>6. pc' \in {"test", "answered"} /\ pc \in PasswordLabels \ {"answered"} /\ outcome' \in {outcome, "refused"}
      /\ (outcome' = "refused" => outcome = "refused" \/ pc = "cancelled")
      /\ (pc' = "test" => outcome' = outcome)
      /\ UNCHANGED <<Slots, fired, listening, early, Closing, kind, asked, vetted, taken, open, ui, teardown>>
  BY DEF Disarm, PasswordLabels
<1>7. TypeOK'
  BY <1>2, <1>4, <1>6 DEF TypeOK, Labels
<1>8. Asking'
  BY <1>6 DEF TypeOK, Asking, AskingCredentials, PasswordLabels, Ready
<1>9. TrustAsked'
  BY <1>5, <1>6 DEF TypeOK, TrustAsked, Asking, TrustNotPut, Accepted, PasswordLabels
<1>10. EventsNameQuestions'
  BY <1>5 DEF EventsNameQuestions
<1>11. ClosedFirst'
  BY <1>6 DEF TypeOK, ClosedFirst, PasswordLabels
<1>12. AnswerIsFresh' /\ (ChecksFlag => DisconnectIsSilent)'
  BY <1>6 DEF AnswerIsFresh, DisconnectIsSilent
<1>13. QED
  BY <1>7, <1>8, <1>9, <1>10, <1>11, <1>12

LEMMA JoinListenerKeepsIInv == IInv /\ JoinListener => IInv'
<1> SUFFICES ASSUME IInv, JoinListener PROVE IInv'
  OBVIOUS
<1> USE RunnerAssumption DEF IInv, Window, Closing, Slots, client, Put, Event, Take
<1>1. FlagsOK'
  BY Zenon DEF JoinListener, FlagsOK, TypeOK
<1>2. TypeOK'
  BY <1>1 DEF JoinListener, TypeOK, Labels, Disconnecting
<1>3. Asking'
  BY DEF JoinListener, TypeOK, Asking, AskingCredentials, PasswordLabels, Ready
<1>4. TrustAsked'
  BY DEF JoinListener, TypeOK, TrustAsked, Asking, TrustNotPut, Accepted, PasswordLabels
<1>5. EventsNameQuestions'
  BY DEF JoinListener, EventsNameQuestions
<1>6. ClosedFirst'
  BY DEF JoinListener, TypeOK, ClosedFirst
<1>7. AnswerIsFresh' /\ (ChecksFlag => DisconnectIsSilent)'
  BY DEF JoinListener, AnswerIsFresh, DisconnectIsSilent, Accepted
<1>8. QED
  BY <1>2, <1>3, <1>4, <1>5, <1>6, <1>7

LEMMA FinishKeepsIInv == IInv /\ Finish => IInv'
<1> SUFFICES ASSUME IInv, Finish PROVE IInv'
  OBVIOUS
<1> USE RunnerAssumption DEF IInv, Window, Closing, Slots, client, Put, Event, Take
<1>1. events' \in Seq(Events)
  <2>1. events \in Seq(Events) /\ Event("closed") \in Events
    BY DEF TypeOK, Events
  <2>2. QED
    BY <2>1, AppendElements DEF Finish
<1>2. events \in Seq(Events) /\ open \in Seq(Prompts)
  BY DEF TypeOK
<1>3. FlagsOK'
  BY Zenon DEF Finish, FlagsOK, TypeOK
<1>4. TypeOK'
  BY <1>1, <1>3 DEF Finish, TypeOK, Labels, Disconnecting
<1>5. Asking'
  BY DEF Finish, TypeOK, Asking, AskingCredentials, PasswordLabels, Ready
<1>6. TrustAsked'
  BY DEF Finish, TypeOK, TrustAsked, TrustNotPut, Accepted
<1>7. EventsNameQuestions'
  <2>1. Event("closed") \in Events /\ Event("closed").name = "closed"
    BY DEF TypeOK, Events
  <2>2. events' = Append(events, Event("closed"))
    BY DEF Finish
  <2>3. QED
    BY <1>2, <2>1, <2>2, AppendElements DEF EventsNameQuestions
<1>8. ClosedFirst'
  BY DEF Finish, TypeOK, ClosedFirst
<1>9. AnswerIsFresh' /\ (ChecksFlag => DisconnectIsSilent)'
  BY DEF Finish, TypeOK, Asking, TrustAsked, ClosedFirst, AnswerIsFresh, DisconnectIsSilent, AskingCredentials, Accepted, Ready
<1>10. QED
  BY <1>4, <1>5, <1>6, <1>7, <1>8, <1>9

LEMMA ReadRefusalKeepsIInv == IInv /\ ReadRefusal => IInv'
<1> SUFFICES ASSUME IInv, ReadRefusal PROVE IInv'
  OBVIOUS
<1> USE RunnerAssumption DEF IInv, Window, Closing, Slots, client, Put, Event, Take
<1>1. early' \in Seq(Messages)
  <2>1. early \in Seq(Messages)
    BY DEF TypeOK
  <2>2. QED
    BY <2>1, AppendElements DEF ReadRefusal, Messages
<1>2. FlagsOK'
  BY Zenon DEF ReadRefusal, FlagsOK, TypeOK
<1>3. TypeOK'
  BY <1>1, <1>2 DEF ReadRefusal, TypeOK, Labels, Disconnecting
<1>4. Asking'
  BY Zenon DEF ReadRefusal, TypeOK, Asking, AskingCredentials, PasswordLabels, Ready
<1>5. TrustAsked'
  BY DEF ReadRefusal, TypeOK, TrustAsked, Asking, TrustNotPut, Accepted, PasswordLabels
<1>6. EventsNameQuestions'
  BY DEF ReadRefusal, EventsNameQuestions
<1>7. ClosedFirst'
  BY DEF ReadRefusal, TypeOK, ClosedFirst
<1>8. AnswerIsFresh' /\ (ChecksFlag => DisconnectIsSilent)'
  BY DEF ReadRefusal, AnswerIsFresh, DisconnectIsSilent, Accepted
<1>9. QED
  BY <1>3, <1>4, <1>5, <1>6, <1>7, <1>8

LEMMA FireKeepsIInv == IInv /\ Fire => IInv'
<1> SUFFICES ASSUME IInv, Fire PROVE IInv'
  OBVIOUS
<1> USE RunnerAssumption DEF IInv, Window, Closing, Slots, client, Put, Event, Take
<1>1. early' \in Seq(Messages)
  <2>1. early \in Seq(Messages)
    BY DEF TypeOK
  <2>2. QED
    BY <2>1, AppendElements DEF Fire, Messages
<1>2. Withdraw(credentials) \in SlotsOfAnswers /\ Withdraw(credentials).begun = credentials.begun
      /\ Withdraw(credentials).value = credentials.value
      /\ \/ Withdraw(credentials).is = credentials.is /\ (credentials.begun => credentials.is # "Empty")
         \/ Withdraw(credentials).is = "Withdrawn" /\ credentials.is = "Empty" /\ credentials.begun
  BY SlotOperations, Zenon DEF TypeOK
<1>3. FlagsOK'
  BY Zenon DEF Fire, FlagsOK, TypeOK
<1>4. TypeOK'
  BY <1>1, <1>2, <1>3, SMTT(20) DEF Fire, TypeOK, Labels, Disconnecting, Asking, PasswordLabels
<1>5. Asking'
  BY <1>2, Zenon DEF Fire, TypeOK, Asking, AskingCredentials, PasswordLabels, Ready
<1>6. TrustAsked'
  BY <1>2, Zenon DEF Fire, TypeOK, TrustAsked, Asking, TrustNotPut, Accepted, PasswordLabels
<1>7. EventsNameQuestions'
  BY <1>2 DEF Fire, TypeOK, EventsNameQuestions, Asking
<1>8. ClosedFirst'
  BY <1>2, Zenon DEF Fire, TypeOK, ClosedFirst
<1>9. AnswerIsFresh' /\ (ChecksFlag => DisconnectIsSilent)'
  BY <1>2 DEF Fire, TypeOK, Asking, TrustAsked, ClosedFirst, AnswerIsFresh, DisconnectIsSilent, AskingCredentials, Accepted, Ready
<1>10. QED
  BY <1>4, <1>5, <1>6, <1>7, <1>8, <1>9

LEMMA StopListeningKeepsIInv == IInv /\ StopListening => IInv'
<1> SUFFICES ASSUME IInv, StopListening PROVE IInv'
  OBVIOUS
<1> USE RunnerAssumption DEF IInv, Window, Closing, Slots, client, Put, Event, Take
<1>1. FlagsOK'
  BY Zenon DEF StopListening, FlagsOK, TypeOK
<1>2. TypeOK'
  BY <1>1 DEF StopListening, TypeOK, Labels, Disconnecting
<1>3. Asking'
  BY Zenon DEF StopListening, TypeOK, Asking, AskingCredentials, PasswordLabels, Ready
<1>4. TrustAsked'
  BY DEF StopListening, TypeOK, TrustAsked, Asking, TrustNotPut, Accepted, PasswordLabels
<1>5. EventsNameQuestions'
  BY DEF StopListening, EventsNameQuestions
<1>6. ClosedFirst'
  BY DEF StopListening, TypeOK, ClosedFirst
<1>7. AnswerIsFresh' /\ (ChecksFlag => DisconnectIsSilent)'
  BY DEF StopListening, AnswerIsFresh, DisconnectIsSilent, Accepted
<1>8. QED
  BY <1>2, <1>3, <1>4, <1>5, <1>6, <1>7

LEMMA HandleEventKeepsIInv == IInv /\ HandleEvent => IInv'
<1> SUFFICES ASSUME IInv, HandleEvent PROVE IInv'
  OBVIOUS
<1> USE RunnerAssumption DEF IInv, Window, Closing, Slots, client, Put, Event, Take
<1>1. events \in Seq(Events) /\ open \in Seq(Prompts)
  BY DEF TypeOK
<1> DEFINE e == Head(events)
           known == [accept |-> TRUE, empty |-> FALSE, to |-> e.question, at |-> asked]
           prompt == [kind |-> e.name, question |-> e.question]
<1>2. UNCHANGED <<credentials, client, Closing, ui, teardown>>
  BY DEF HandleEvent
<1>3. FlagsOK'
  BY <1>2, Zenon DEF FlagsOK, TypeOK
<1>4. events # <<>> /\ events' = Tail(events)
  BY DEF HandleEvent
<1>5. events' \in Seq(Events) /\ e \in Events /\ 1 \in DOMAIN events /\ e = events[1]
  BY <1>1, <1>4, TailElements
<1>6. \A i \in DOMAIN events' : i + 1 \in DOMAIN events /\ events'[i] = events[i + 1]
  BY <1>1, <1>4, TailElements
<1>7. e.name \in {"credentials", "trust"} => e.question \in Nat \ {0}
  BY <1>5 DEF EventsNameQuestions, Events
<1>8. known \in Answers /\ known.accept /\ known.at = asked /\ known.to = e.question
  BY <1>5 DEF TypeOK, Answers, Events
<1>9. \/ /\ e.name \in {"credentials", "trust"}
         /\ open' = Append(open, prompt)
         /\ UNCHANGED trust
      \/ /\ e.name = "trust"
         /\ trust' = AnswerWith(trust, known)
         /\ UNCHANGED open
      \/ /\ \E i \in DOMAIN open : open' = Without(open, i)
         /\ UNCHANGED trust
      \/ UNCHANGED <<open, trust>>
  BY DEF HandleEvent, FirstCredentials
<1> HIDE DEF e, known, prompt
<1>10. /\ open' \in Seq(Prompts)
      /\ \A i \in DOMAIN open' : \/ \E j \in DOMAIN open : open'[i] = open[j]
                                 \/ open'[i].kind = e.name
  <2>1. CASE e.name \in {"credentials", "trust"} /\ open' = Append(open, prompt)
    <3>1. prompt \in Prompts /\ prompt.kind = e.name
      BY <1>5, <1>7, <2>1 DEF prompt, Prompts
    <3>2. QED
      BY <1>1, <2>1, <3>1, AppendElements, SMTT(20)
  <2>2. CASE UNCHANGED open
    BY <1>1, <2>2
  <2>3. CASE \E i \in DOMAIN open : open' = Without(open, i)
    BY <1>1, <2>3, WithoutElements
  <2>4. QED
    BY <1>9, <2>1, <2>2, <2>3
<1>11. \/ UNCHANGED trust
       \/ /\ e.name = "trust"
          /\ trust' \in SlotsOfAnswers /\ trust'.is = "Answered" /\ trust'.value = known
          /\ trust'.begun = trust.begun
  <2>1. trust \in SlotsOfAnswers
    BY DEF TypeOK
  <2>2. /\ AnswerWith(trust, known) \in SlotsOfAnswers /\ AnswerWith(trust, known).is = "Answered"
        /\ AnswerWith(trust, known).value = known /\ AnswerWith(trust, known).begun = trust.begun
    BY <1>8, <2>1, SlotAnswers
  <2>3. QED
    BY <1>9, <2>2
<1>12. TypeOK'
  BY <1>2, <1>3, <1>5, <1>10, <1>11, Zenon DEF TypeOK, client, Closing
<1>13. Asking'
  BY <1>2 DEF Asking, AskingCredentials, Ready
<1>14. TrustAsked'
  <2>1. TrustNotPut => e.name # "trust"
    BY <1>5 DEF TrustAsked
  <2>2. TrustNotPut' <=> TrustNotPut
    BY <1>2 DEF TrustNotPut
  <2>3. ASSUME TrustNotPut PROVE /\ ~Accepted(trust)'
                                 /\ (\A i \in DOMAIN events : events[i].name # "trust")'
                                 /\ (\A i \in DOMAIN open : open[i].kind # "trust")'
    BY <2>1, <2>3, <1>6, <1>10, <1>11, Zenon DEF TrustAsked, Accepted
  <2>4. pc' = "wait" /\ kind' = "trust" /\ Accepted(trust)' => trust'.value.at = asked'
    BY <1>2, <1>8, <1>11 DEF TrustAsked, Accepted
  <2>5. QED
    BY <2>2, <2>3, <2>4 DEF TrustAsked
<1>15. EventsNameQuestions'
  BY <1>6 DEF EventsNameQuestions
<1>16. ClosedFirst'
  BY <1>2, <1>7, <1>8, <1>11 DEF ClosedFirst
<1>17. AnswerIsFresh' /\ (ChecksFlag => DisconnectIsSilent)'
  BY <1>2 DEF AnswerIsFresh, DisconnectIsSilent
<1>18. QED
  BY <1>12, <1>13, <1>14, <1>15, <1>16, <1>17

LEMMA AnswerPromptKeepsIInv == IInv /\ AnswerPrompt => IInv'
<1> SUFFICES ASSUME IInv, AnswerPrompt PROVE IInv'
  OBVIOUS
<1> USE RunnerAssumption DEF IInv, Window, Closing, Slots, client, Put, Event, Take
<1>1. events \in Seq(Events) /\ open \in Seq(Prompts)
  BY DEF TypeOK
<1>2. UNCHANGED <<client, Closing, events, ui, teardown>>
  BY Zenon DEF AnswerPrompt
<1>3. FlagsOK'
  BY <1>2, Zenon DEF FlagsOK, TypeOK
<1>4. open # <<>> /\ open' = Tail(open)
  BY Zenon DEF AnswerPrompt
<1>5. open' \in Seq(Prompts) /\ 1 \in DOMAIN open /\ Head(open) = open[1] /\ open[1] \in Prompts
  BY <1>1, <1>4, TailElements
<1>6. \A i \in DOMAIN open' : i + 1 \in DOMAIN open /\ open'[i] = open[i + 1]
  BY <1>1, <1>4, TailElements
<1>7. PICK accept \in BOOLEAN, empty \in BOOLEAN :
        LET answer == [accept |-> accept, empty |-> empty, to |-> open[1].question, at |-> asked]
        IN IF open[1].kind = "trust"
           THEN trust' = AnswerWith(trust, answer) /\ UNCHANGED credentials
           ELSE /\ credentials' = IF accept THEN AnswerWith(credentials, answer)
                                  ELSE Cancel(credentials, answer)
                /\ UNCHANGED trust
  BY <1>5 DEF AnswerPrompt
<1> DEFINE answer == [accept |-> accept, empty |-> empty, to |-> open[1].question, at |-> asked]
<1>8. answer \in Answers /\ answer.to # 0 /\ answer.at = asked /\ answer.accept = accept
  BY <1>5 DEF TypeOK, Answers, Prompts
<1> HIDE DEF answer
<1>9. /\ AnswerWith(trust, answer) \in SlotsOfAnswers /\ AnswerWith(trust, answer).is = "Answered"
       /\ AnswerWith(trust, answer).value = answer /\ AnswerWith(trust, answer).begun = trust.begun
  <2>1. trust \in SlotsOfAnswers
    BY DEF TypeOK
  <2>2. QED
    BY <1>8, <2>1, SlotAnswers
<1>10. /\ AnswerWith(credentials, answer) \in SlotsOfAnswers
       /\ AnswerWith(credentials, answer).is = "Answered" /\ AnswerWith(credentials, answer).value = answer
       /\ AnswerWith(credentials, answer).begun = credentials.begun
       /\ Cancel(credentials, answer) \in SlotsOfAnswers
       /\ Cancel(credentials, answer).is = "Cancelled" /\ Cancel(credentials, answer).value = answer
       /\ Cancel(credentials, answer).begun = credentials.begun
  <2>1. credentials \in SlotsOfAnswers
    BY DEF TypeOK
  <2>2. QED
    BY <1>8, <2>1, SlotAnswers
<1>11. \/ /\ open[1].kind = "trust"
         /\ trust' \in SlotsOfAnswers /\ trust'.is = "Answered" /\ trust'.value = answer
         /\ trust'.begun = trust.begun
         /\ UNCHANGED credentials
      \/ /\ credentials' \in SlotsOfAnswers /\ credentials'.value = answer
         /\ credentials'.begun = credentials.begun
         /\ credentials'.is \in {"Answered", "Cancelled"}
         /\ credentials'.is = "Answered" <=> answer.accept
         /\ UNCHANGED trust
  <2>1. CASE open[1].kind = "trust"
    BY <1>7, <1>8, <1>9, <1>10, <2>1, Zenon DEF answer
  <2>2. CASE open[1].kind # "trust" /\ accept
    BY <1>7, <1>8, <1>9, <1>10, <2>2, Zenon DEF answer
  <2>3. CASE open[1].kind # "trust" /\ ~accept
    BY <1>7, <1>8, <1>9, <1>10, <2>3, Zenon DEF answer
  <2>4. QED
    BY <2>1, <2>2, <2>3
<1>12. /\ credentials' \in SlotsOfAnswers /\ trust' \in SlotsOfAnswers
       /\ trust'.is \in {"Empty", "Answered"} /\ ~trust'.begun
       /\ credentials'.is = "Withdrawn" => kind' = "withdrawable"
  BY <1>2, <1>11, Zenon DEF TypeOK
<1>13. TypeOK'
  BY <1>2, <1>3, <1>5, <1>12, Zenon DEF TypeOK
<1>14. Asking'
  BY <1>2, <1>8, <1>11 DEF TypeOK, Asking, AskingCredentials, Ready
<1>15. TrustAsked'
  <2>1. TrustNotPut => open[1].kind # "trust"
    BY <1>5 DEF TrustAsked
  <2>2. TrustNotPut' <=> TrustNotPut
    BY <1>2 DEF TrustNotPut
  <2>3. ASSUME TrustNotPut PROVE /\ ~Accepted(trust)'
                                 /\ (\A i \in DOMAIN events : events[i].name # "trust")'
                                 /\ (\A i \in DOMAIN open : open[i].kind # "trust")'
    BY <2>1, <2>3, <1>2, <1>6, <1>11, Zenon DEF TrustAsked, Accepted
  <2>4. pc' = "wait" /\ kind' = "trust" /\ Accepted(trust)' => trust'.value.at = asked'
    BY <1>2, <1>8, <1>11, Zenon DEF TrustAsked, Accepted
  <2>5. QED
    BY <2>2, <2>3, <2>4 DEF TrustAsked
<1>16. EventsNameQuestions'
  BY <1>2 DEF EventsNameQuestions
<1>17. ClosedFirst'
  BY <1>2, <1>8, <1>11 DEF ClosedFirst
<1>18. AnswerIsFresh' /\ (ChecksFlag => DisconnectIsSilent)'
  BY <1>2 DEF AnswerIsFresh, DisconnectIsSilent
<1>19. QED
  BY <1>13, <1>14, <1>15, <1>16, <1>17, <1>18

LEMMA UiDisconnectKeepsIInv == IInv /\ UiDisconnect => IInv'
<1> SUFFICES ASSUME IInv, UiDisconnect PROVE IInv'
  OBVIOUS
<1> USE RunnerAssumption DEF IInv, Window, Closing, Slots, client, Put, Event, Take
<1>1. FlagsOK'
  BY Zenon DEF UiDisconnect, FlagsOK, TypeOK
<1>2. TypeOK'
  BY <1>1 DEF UiDisconnect, TypeOK, Labels, Disconnecting
<1>3. Asking'
  BY Zenon DEF UiDisconnect, TypeOK, Asking, AskingCredentials, PasswordLabels, Ready
<1>4. TrustAsked'
  BY Zenon DEF UiDisconnect, TypeOK, TrustAsked, Asking, TrustNotPut, Accepted, PasswordLabels
<1>5. EventsNameQuestions'
  BY Zenon DEF UiDisconnect, TypeOK, EventsNameQuestions, Asking
<1>6. ClosedFirst'
  BY Zenon DEF UiDisconnect, TypeOK, ClosedFirst
<1>7. AnswerIsFresh' /\ (ChecksFlag => DisconnectIsSilent)'
  BY DEF UiDisconnect, TypeOK, Asking, TrustAsked, ClosedFirst, AnswerIsFresh, DisconnectIsSilent, AskingCredentials, Accepted, Ready
<1>8. QED
  BY <1>2, <1>3, <1>4, <1>5, <1>6, <1>7

LEMMA UiDisconnectStepKeepsIInv == IInv /\ UiDisconnectStep => IInv'
<1> SUFFICES ASSUME IInv, UiDisconnectStep PROVE IInv'
  OBVIOUS
<1> USE RunnerAssumption DEF IInv, Window, Closing, Slots, client, Put, Event, Take
<1>1. PICK next \in Disconnecting \cup {"done"} :
        DisconnectStep(ui, next) /\ ui' = IF next = "done" THEN "idle" ELSE next
  BY DEF UiDisconnectStep
<1>2. UNCHANGED <<client, closed, events, open, teardown>> /\ ui \in Disconnecting
  BY DEF UiDisconnectStep
<1>3. /\ FlagsOK' /\ hungUp'
      /\ credentials' \in SlotsOfAnswers /\ trust' \in SlotsOfAnswers
      /\ trust'.is \in {"Empty", "Answered"} /\ ~trust'.begun
      /\ credentials'.is = "Withdrawn" => kind' = "withdrawable"
      /\ Asking' /\ TrustAsked'
  BY <1>1, <1>2, DisconnectStepKeepsAsking DEF ClosedFirst
<1>4. TypeOK'
  BY <1>1, <1>2, <1>3 DEF TypeOK, Disconnecting
<1>5. EventsNameQuestions'
  BY <1>2, Zenon DEF EventsNameQuestions
<1>6. ClosedFirst'
  BY <1>2, <1>3 DEF ClosedFirst
<1>7. AnswerIsFresh' /\ (ChecksFlag => DisconnectIsSilent)'
  BY <1>2 DEF AnswerIsFresh, DisconnectIsSilent
<1>8. QED
  BY <1>3, <1>4, <1>5, <1>6, <1>7

LEMMA ShutdownKeepsIInv == IInv /\ Shutdown => IInv'
<1> SUFFICES ASSUME IInv, Shutdown PROVE IInv'
  OBVIOUS
<1> USE RunnerAssumption DEF IInv, Window, Closing, Slots, client, Put, Event, Take
<1>0. /\ UNCHANGED <<credentials, trust, client, hungUp, events, open>>
      /\ ui' = "gone" /\ teardown' \in {"done", "close"} /\ closed'
  BY DEF Shutdown
<1>1. FlagsOK'
  BY Zenon DEF Shutdown, FlagsOK, TypeOK
<1>2. TypeOK'
  BY <1>1, Zenon DEF Shutdown, TypeOK, Labels, Disconnecting
<1>3. Asking'
  BY Zenon DEF Shutdown, TypeOK, Asking, AskingCredentials, PasswordLabels, Ready
<1>4. TrustAsked'
  BY <1>0, Zenon DEF TrustAsked, TrustNotPut, Accepted
<1>5. EventsNameQuestions'
  BY <1>0, Zenon DEF EventsNameQuestions
<1>6. ClosedFirst'
  BY <1>0, Zenon DEF ClosedFirst
<1>7. AnswerIsFresh' /\ (ChecksFlag => DisconnectIsSilent)'
  BY <1>0, Zenon DEF AnswerIsFresh, DisconnectIsSilent
<1>8. QED
  BY <1>2, <1>3, <1>4, <1>5, <1>6, <1>7

LEMMA TeardownStepKeepsIInv == IInv /\ TeardownStep => IInv'
<1> SUFFICES ASSUME IInv, TeardownStep PROVE IInv'
  OBVIOUS
<1> USE RunnerAssumption DEF IInv, Window, Closing, Slots, client, Put, Event, Take
<1>1. PICK next \in Disconnecting \cup {"done"} :
        DisconnectStep(teardown, next) /\ teardown' = next
  BY DEF TeardownStep
<1>2. UNCHANGED <<client, closed, events, open, ui>> /\ teardown \in Disconnecting
  BY Zenon DEF TeardownStep
<1>3. /\ FlagsOK' /\ hungUp'
      /\ credentials' \in SlotsOfAnswers /\ trust' \in SlotsOfAnswers
      /\ trust'.is \in {"Empty", "Answered"} /\ ~trust'.begun
      /\ credentials'.is = "Withdrawn" => kind' = "withdrawable"
      /\ Asking' /\ TrustAsked'
  BY <1>1, <1>2, DisconnectStepKeepsAsking DEF ClosedFirst
<1>4. TypeOK'
  BY <1>1, <1>2, <1>3, Zenon DEF TypeOK, Disconnecting
<1>5. EventsNameQuestions'
  BY <1>2 DEF EventsNameQuestions
<1>6. ClosedFirst'
  BY <1>2, <1>3 DEF ClosedFirst
<1>7. AnswerIsFresh' /\ (ChecksFlag => DisconnectIsSilent)'
  BY <1>2 DEF AnswerIsFresh, DisconnectIsSilent
<1>8. QED
  BY <1>3, <1>4, <1>5, <1>6, <1>7

LEMMA JoinKeepsIInv == IInv /\ Join => IInv'
<1> SUFFICES ASSUME IInv, Join PROVE IInv'
  OBVIOUS
<1> USE RunnerAssumption DEF IInv, Window, Closing, Slots, client, Put, Event, Take
<1>1. FlagsOK'
  BY Zenon DEF Join, FlagsOK, TypeOK
<1>2. TypeOK'
  BY <1>1, Zenon DEF Join, TypeOK, Labels, Disconnecting
<1>3. Asking'
  BY Zenon DEF Join, TypeOK, Asking, AskingCredentials, PasswordLabels, Ready
<1>4. TrustAsked'
  BY Zenon DEF Join, TypeOK, TrustAsked, Asking, TrustNotPut, Accepted, PasswordLabels
<1>5. EventsNameQuestions'
  BY Zenon DEF Join, TypeOK, EventsNameQuestions, Asking
<1>6. ClosedFirst'
  BY Zenon DEF Join, TypeOK, ClosedFirst
<1>7. AnswerIsFresh' /\ (ChecksFlag => DisconnectIsSilent)'
  BY DEF Join, TypeOK, Asking, TrustAsked, ClosedFirst, AnswerIsFresh, DisconnectIsSilent, AskingCredentials, Accepted, Ready
<1>8. QED
  BY <1>2, <1>3, <1>4, <1>5, <1>6, <1>7

LEMMA StutterKeepsIInv == IInv /\ UNCHANGED vars => IInv'
<1> SUFFICES ASSUME IInv, UNCHANGED vars PROVE IInv'
  OBVIOUS
<1> USE RunnerAssumption DEF IInv, Window, Closing, Slots, client, Put, Event, Take
<1>1. TypeOK'
  BY DEF vars, TypeOK, FlagsOK
<1>2. Asking'
  BY DEF vars, Asking, AskingCredentials, Ready, Accepted
<1>3. TrustAsked'
  BY DEF vars, TrustAsked, TrustNotPut, Ready, Accepted
<1>4. EventsNameQuestions'
  BY DEF vars, EventsNameQuestions
<1>5. ClosedFirst' /\ AnswerIsFresh' /\ (ChecksFlag => DisconnectIsSilent)'
  BY DEF vars, ClosedFirst, AnswerIsFresh, DisconnectIsSilent
<1>6. QED
  BY <1>1, <1>2, <1>3, <1>4, <1>5

\* Every step keeps the invariant.
LEMMA NextIInv == IInv /\ [Next]_vars => IInv'
  BY IoKeepsIInv, TakeEarlyKeepsIInv, AskCredentialsKeepsIInv, AskTrustKeepsIInv, AskPasswordKeepsIInv, TestFiredKeepsIInv, BeginAskingKeepsIInv, ArmKeepsIInv, PutQuestionKeepsIInv, WaitTrustKeepsIInv, WaitCredentialsKeepsIInv, WaitPasswordKeepsIInv, DisarmKeepsIInv, JoinListenerKeepsIInv, FinishKeepsIInv, ReadRefusalKeepsIInv, FireKeepsIInv, StopListeningKeepsIInv, HandleEventKeepsIInv, AnswerPromptKeepsIInv, UiDisconnectKeepsIInv, UiDisconnectStepKeepsIInv, ShutdownKeepsIInv, TeardownStepKeepsIInv, JoinKeepsIInv, StutterKeepsIInv
  DEF Next, ProtocolStep, WindowStep, Joined

\* The invariant holds throughout every session.
THEOREM IInvHolds == Spec => []IInv
  BY InitIInv, NextIInv, PTL DEF Spec

\* begin drops what an earlier question left: every answer that lets a session
\* go on was delivered after the question it answers had begun.
THEOREM AnswerIsFreshHolds == Spec => []AnswerIsFresh
<1>1. IInv => AnswerIsFresh
  BY DEF IInv
<1>2. QED
  BY <1>1, IInvHolds, PTL

\* Withdraw::fire and Withdraw::arm, in whichever order the two threads call
\* them: a fired withdrawal always ends the wait.
THEOREM WithdrawalIsNotMissedHolds == Spec => []WithdrawalIsNotMissed
<1>1. IInv => WithdrawalIsNotMissed
  BY DEF IInv, Asking, WithdrawalIsNotMissed
<1>2. QED
  BY <1>1, IInvHolds, PTL

\* disconnect's order, close and then cancel: with a client that looks at its
\* flag as it ends, no session that disconnect ended is reported as refused.
THEOREM DisconnectIsSilentHolds ==
  ASSUME ChecksFlag
  PROVE  Spec => []DisconnectIsSilent
<1>1. IInv => DisconnectIsSilent
  BY DEF IInv
<1>2. QED
  BY <1>1, IInvHolds, PTL
=============================================================================
