------------------------------ MODULE Session -------------------------------
(***************************************************************************)
(* What the header of the C backends (api/include/vento/backend.h) lets    *)
(* its callers rely on, for one session and whatever library is under it:  *)
(* the callbacks connected, credentials_needed and the other questions,    *)
(* and closed; the calls that end a session; and destroy, which frees it.  *)
(* The callbacks are counted, so that one made again, or too late, is no   *)
(* step of this. The sessions of libvnc, TigerVNC, FreeRDP and RealVNC are *)
(* shown to implement it. Where the backends do what the header does not   *)
(* say, the step has a name of its own: AskBeside and GiveUp.              *)
(***************************************************************************)
EXTENDS Naturals

VARIABLES
  phase,     \* "opening", "open", "connected", "ending" (the detail is settled), "closed"
  connects,  \* how often connected was called
  closes,    \* how often closed was called
  asking,    \* how many questions have been put and are being waited for
  several,   \* whether the library puts one beside another
  ended,     \* an end was requested: disconnect, destroy, or a no that the session heeds
  declined,  \* a no was passed on to the library, which ends the session or not
  detail,    \* what closed reports: "none" so far, "" for no reason, or "why"
  freed      \* destroy has returned

vars == <<phase, connects, closes, asking, several, ended, declined, detail, freed>>
told == <<phase, connects, closes, detail>>
asks == <<asking, several>>
ends == <<ended, declined, freed>>

TypeOK ==
  /\ phase \in {"opening", "open", "connected", "ending", "closed"}
  /\ connects \in {0, 1} /\ closes \in {0, 1}
  /\ asking \in Nat /\ several \in BOOLEAN
  /\ ended \in BOOLEAN /\ declined \in BOOLEAN /\ freed \in BOOLEAN
  /\ detail \in {"none", "", "why"}

Init ==
  /\ phase \in {"opening", "open"}
  /\ connects = 0 /\ closes = 0 /\ asking = 0 /\ several \in BOOLEAN
  /\ ~ended /\ ~declined /\ detail = "none" /\ ~freed

Running == phase \in {"opening", "open", "connected"}

\* The address was dialled.
Open ==
  /\ phase = "opening"
  /\ phase' = "open"
  /\ UNCHANGED <<connects, closes, detail>> /\ UNCHANGED asks /\ UNCHANGED ends

\* credentials_needed, trust_needed, unverified, question, security_needed, message.
Ask ==
  /\ Running /\ asking = 0
  /\ asking' = 1
  /\ UNCHANGED several /\ UNCHANGED told /\ UNCHANGED ends

\* RealVNC's core puts a question while another is up, of which the header says that
\* "only one of these questions can be outstanding".
AskBeside ==
  /\ several
  /\ Running /\ asking > 0
  /\ asking' = asking + 1
  /\ UNCHANGED several /\ UNCHANGED told /\ UNCHANGED ends

\* The library goes on: answered, or told to end.
Resume ==
  /\ asking > 0
  /\ asking' = asking - 1
  /\ UNCHANGED several /\ UNCHANGED told /\ UNCHANGED ends

\* The same with a no, which the library is told; or the question makes way for another.
Decline ==
  /\ asking > 0
  /\ asking' \in {asking - 1, asking}
  /\ declined' = TRUE
  /\ UNCHANGED <<several, ended, freed>> /\ UNCHANGED told

\* connected: once, and of a session that is not over.
Connect ==
  /\ phase \in {"opening", "open"} /\ (asking > 0 => several)
  /\ phase' = "connected" /\ connects' = connects + 1
  /\ UNCHANGED <<closes, detail>> /\ UNCHANGED asks /\ UNCHANGED ends

\* disconnect, a no, or the first part of destroy; idempotent.
End ==
  /\ ~freed
  /\ ended' = TRUE
  /\ UNCHANGED <<declined, freed>> /\ UNCHANGED told /\ UNCHANGED asks

\* The session is over and why is settled: nothing for a requested end, and otherwise
\* the reason, unless somebody declined.
Settle ==
  /\ Running
  /\ phase' = "ending"
  /\ \/ detail' = "" /\ (ended \/ declined)
     \/ detail' = "why" /\ ~ended
  /\ UNCHANGED <<connects, closes>> /\ UNCHANGED asks /\ UNCHANGED ends

\* A connection that could not be made is told of with its reason though the end was
\* requested meanwhile, where the header has the detail "empty for a requested disconnect".
GiveUp ==
  /\ phase = "opening" /\ ended
  /\ phase' = "ending" /\ detail' = "why"
  /\ UNCHANGED <<connects, closes>> /\ UNCHANGED asks /\ UNCHANGED ends

\* closed: once, and the last callback.
Close ==
  /\ phase = "ending"
  /\ phase' = "closed" /\ closes' = closes + 1
  /\ UNCHANGED <<connects, detail>> /\ UNCHANGED asks /\ UNCHANGED ends

\* destroy returns.
Free ==
  /\ phase = "closed" /\ ended /\ ~freed
  /\ freed' = TRUE
  /\ UNCHANGED <<ended, declined>> /\ UNCHANGED told /\ UNCHANGED asks

Next ==
  \/ Open \/ Ask \/ AskBeside \/ Resume \/ Decline \/ Connect \/ End \/ Settle \/ GiveUp
  \/ Close \/ Free

Spec == Init /\ [][Next]_vars
=============================================================================
