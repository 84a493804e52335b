------------------------------ MODULE MCRunner ------------------------------
(***************************************************************************)
(* A session's questions for TLC. Runner, with the two ways a client asks  *)
(* for credentials: with a Withdraw, as RustDesk's does (Asks), and        *)
(* without (PlainAsks); MaxQuestions is enough for the answer to a         *)
(* question to meet the next. And Pins, which answers most of the          *)
(* questions about a server. part says which of the three a behaviour is   *)
(* of, and never changes.                                                  *)
(***************************************************************************)
EXTENDS Runner

CONSTANTS PlainAsks, PlainQuestions, Clients, MaxChanges, NoPin

VARIABLES part, pinFile, pinClient, changes, ledger

Plain == INSTANCE Runner WITH Asks <- PlainAsks, MaxQuestions <- PlainQuestions

\* A name spelled in two ways, the same on a network, and another.
Addresses == {<<"a", "low", "">>, <<"a", "up", "">>, <<"a", "low", "net">>, <<"b", "low", "">>}

\* Two fingerprints, one of them as two libraries print it.
Prints == {<<1, ":">>, <<1, " ">>, <<2, ":">>}

\* No file yet; and one edited by hand, where an address is there twice.
Start ==
  {<<>>,
   << <<<<"a", "">>, <<1, ":">>>>, <<<<"#", "#">>, NoPin>>, <<<<"a", "">>, <<2, ":">>>>,
      <<<<"b", "">>, <<1, " ">>>> >>}

P == INSTANCE Pins WITH file <- pinFile, client <- pinClient

pinVars == <<pinFile, pinClient, changes, ledger>>

\* Of the pins, where they do not run, one initial state is enough.
MCInit ==
  /\ part \in {"withdrawable", "plain", "pins"} /\ Init /\ P!Init
  /\ part # "pins" => pinFile = <<>>

MCNext ==
  /\ UNCHANGED part
  /\ \/ part = "withdrawable" /\ Next /\ UNCHANGED pinVars
     \/ part = "plain" /\ Plain!Next /\ UNCHANGED pinVars
     \/ part = "pins" /\ P!Next /\ UNCHANGED vars

\* No step that is owed asks a question, so Fairness is a plain session's too; and of
\* a session that has not begun nothing is owed. The pins owe nothing.
MCSpec == MCInit /\ [][MCNext]_<<vars, part, pinVars>> /\ Fairness

\* Without a Withdraw there is one question at a time: its answer is its own, and
\* a prompt on screen is the one the protocol thread waits behind, or there is no
\* session left behind it.
PlainIsInStep == part = "plain" => AnswersOwnQuestion /\ OpenPromptIsAwaited

\* Of the pins that answer a question in silence: each was accepted for that address,
\* none is lost to a crash or a failing call, and the last one given or taken back
\* stands unless two clients overlapped (Pins!PinsStand).
PinsStand == P!PinsStand

\* disconnect ends the session whatever it is doing (waiting behind a prompt, about
\* to ask, or answered late by a prompt still open), and destroy, which joins
\* the protocol's thread, returns once the window has gone.
EndsWhenTold == DisconnectEnds /\ DestroyReturns
=============================================================================
