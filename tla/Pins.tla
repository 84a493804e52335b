-------------------------------- MODULE Pins --------------------------------
(***************************************************************************)
(* The pins of the Linux client: what a session's window does with a       *)
(* fingerprint (api/src/trust.rs, gui/session.rs), and the file it keeps   *)
(* them in (linux/src/known_hosts.rs), which several clients read and      *)
(* replace, and which a crash or a failing call interrupts anywhere.       *)
(*                                                                         *)
(* An address is a name, how it is spelled, and the network it is on where *)
(* the backend has one ("" otherwise); a fingerprint is its digits and how *)
(* a library prints them. The readings of a port (same_server) are left    *)
(* out: a name stands for a host and one port.                             *)
(***************************************************************************)
EXTENDS Naturals, Sequences, FiniteSetsExt

CONSTANTS
  Clients,     \* the processes
  Addresses, Prints,
  Start,       \* what the file may hold at first: edited by hand, or not there
  MaxChanges,  \* bound: the changes begun
  NoPin

VARIABLES
  file,      \* known_hosts: a sequence of lines, <<key, fingerprint>> or Comment
  client,    \* what each client is doing
  changes,
  ledger     \* ghost: what the pins should be

vars == <<file, client, changes, ledger>>

\* A line that is no entry, which is kept as it is.
NoKey == <<"#", "#">>
Comment == <<NoKey, NoPin>>

\* trust::key folds the spelling of an address; canonical that of a fingerprint.
Key(address) == <<address[1], address[3]>>
Canonical(print) == print[1]

Keys == {Key(a) : a \in Addresses}

-----------------------------------------------------------------------------
(* A table, and what it says.                                              *)

Entries(table, key) == {i \in DOMAIN table : table[i][1] = key}

\* Table::get: the first entry counts.
Get(table, key) ==
  IF Entries(table, key) = {} THEN NoPin ELSE table[Min(Entries(table, key))][2]

\* Mutant: the last entry for a key is the one that is changed.
SetLast(table, key, print) ==
  IF Entries(table, key) = {}
  THEN Append(table, <<key, print>>)
  ELSE [table EXCEPT ![Max(Entries(table, key))] = <<key, print>>]

\* Table::set: the first entry is changed in place and any later ones dropped, or a
\* new one is added.
Set(table, key, print) ==
  IF Entries(table, key) = {}
  THEN Append(table, <<key, print>>)
  ELSE LET first == Min(Entries(table, key)) IN
       SubSeq(table, 1, first - 1) \o << <<key, print>> >>
         \o SelectSeq(SubSeq(table, first + 1, Len(table)), LAMBDA line : line[1] # key)

\* same_server: one key, or the same name on any network where none was said.
SameServer(stored, asked) ==
  stored = asked \/ (asked[2] = "" /\ stored[1] = asked[1])

\* Mutant: only the entries are written back, and the comments are lost.
WithoutComments(table, asked) ==
  SelectSeq(table, LAMBDA line : line # Comment /\ ~SameServer(line[1], asked))

\* Table::remove_where.
Without(table, asked) == SelectSeq(table, LAMBDA line : ~SameServer(line[1], asked))

\* Mutant: a fingerprint pinned anywhere is a match.
VerdictAnywhere(table, key, print) ==
  IF \E i \in DOMAIN table : table[i] # Comment /\ Canonical(table[i][2]) = Canonical(print)
  THEN "matches"
  ELSE IF Get(table, key) # NoPin THEN "changed" ELSE "new"

\* trust::verdict.
Verdict(table, key, print) ==
  LET pin == Get(table, key) IN
  IF pin # NoPin
  THEN IF Canonical(pin) = Canonical(print) THEN "matches" ELSE "changed"
  ELSE IF \E i \in DOMAIN table :
            table[i] # Comment /\ Canonical(table[i][2]) = Canonical(print)
  THEN "another" ELSE "new"

-----------------------------------------------------------------------------

Idle(temp) ==
  [at |-> "idle", key |-> NoPin, print |-> NoPin, base |-> <<>>, table |-> <<>>, temp |-> temp]

TypeOK ==
  /\ \A p \in Clients :
       /\ client[p].at \in {"idle", "ask", "put", "forget", "write", "sync", "rename"}
       /\ client[p].key \in Keys \cup {NoPin} /\ client[p].print \in Prints \cup {NoPin}
  /\ \A i \in DOMAIN file : file[i] = Comment \/ file[i] \in Keys \X Prints
  /\ changes \in 0..MaxChanges

Init ==
  /\ file \in Start
  /\ client = [p \in Clients |-> Idle(<<>>)]
  /\ changes = 0
  /\ ledger = [start |-> file,
               last |-> [k \in Keys |-> Get(file, k)],
               touched |-> {},
               accepted |-> {<<file[i][1], Canonical(file[i][2])>> :
                               i \in {j \in DOMAIN file : file[j] # Comment}},
               slipped |-> FALSE,
               raced |-> FALSE]

At(p, at) == client[p].at = at
Becomes(p, change) == client' = [client EXCEPT ![p] = change]
GoesTo(p, at) == Becomes(p, [client[p] EXCEPT !.at = at])
Stops(p) == Becomes(p, Idle(client[p].temp))

\* trust_needed: trust::decide on the file as it is, or as empty where it cannot be
\* read. A match is silent, a first key that is vouched for is pinned (RustDesk's, which
\* has a network), and anything else is asked; with --trust the pins are only read, and
\* nothing is asked.
TrustNeeded(p, address, print, trusting) ==
  /\ At(p, "idle")
  /\ \E table \in {file, <<>>} :
       LET key == Key(address)
           verdict == Verdict(table, key, print)
           vouched == key[2] # "" /\ verdict \in {"new", "another"}
           asking == [Idle(client[p].temp) EXCEPT !.key = key, !.print = print] IN
       \/ /\ verdict = "matches"
          /\ ledger' = [ledger EXCEPT
               !.slipped = @ \/ <<key, Canonical(print)>> \notin ledger.accepted]
          /\ UNCHANGED <<client, changes>>
       \/ /\ verdict # "matches" /\ ~trusting /\ vouched /\ changes < MaxChanges
          /\ Becomes(p, [asking EXCEPT !.at = "put"])
          /\ changes' = changes + 1
          /\ ledger' = [ledger EXCEPT !.accepted = @ \cup {<<key, Canonical(print)>>}]
       \/ /\ verdict # "matches" /\ ~trusting /\ ~vouched /\ changes < MaxChanges
          /\ Becomes(p, [asking EXCEPT !.at = "ask"])
          /\ UNCHANGED <<changes, ledger>>
       \/ verdict # "matches" /\ trusting /\ UNCHANGED <<client, changes, ledger>>
  /\ UNCHANGED file

\* trust::answered: pinned only when accepted and to be remembered.
Answered(p, accept, remember) ==
  /\ At(p, "ask")
  /\ IF accept /\ remember /\ changes < MaxChanges
     THEN /\ GoesTo(p, "put") /\ changes' = changes + 1
          /\ ledger' = [ledger EXCEPT
               !.accepted = @ \cup {<<client[p].key, Canonical(client[p].print)>>}]
     ELSE Stops(p) /\ UNCHANGED <<changes, ledger>>
  /\ UNCHANGED file

\* vento --forget.
Forget(p, address) ==
  /\ At(p, "idle") /\ changes < MaxChanges
  /\ Becomes(p, [Idle(client[p].temp) EXCEPT !.at = "forget", !.key = Key(address)])
  /\ changes' = changes + 1
  /\ UNCHANGED <<file, ledger>>

\* Store::set and remove_where, up to the write: the file is read, and left alone where
\* it already says so or cannot be read.
Read(p) ==
  /\ At(p, "put") \/ At(p, "forget")
  /\ LET c == client[p]
         changed == IF c.at = "forget" THEN Without(file, c.key)
                    ELSE IF Get(file, c.key) = c.print THEN file
                    ELSE Set(file, c.key, c.print) IN
     \/ Stops(p)
     \/ /\ changed # file
        /\ Becomes(p, [c EXCEPT !.at = "write", !.base = file, !.table = changed])
  /\ UNCHANGED <<file, changes, ledger>>

InPart(table) == SubSeq(table, 1, Len(table) \div 2)

\* Mutant: the file is written in place.
WriteInPlace(p) ==
  /\ At(p, "write")
  /\ GoesTo(p, "sync")
  /\ file' = InPart(client[p].table)
  /\ UNCHANGED <<changes, ledger>>

\* Store::write: the file beside it, which is this process's own, is opened, emptied,
\* and so far written in part, ...
Write(p) ==
  /\ At(p, "write")
  /\ Becomes(p, [client[p] EXCEPT !.at = "sync", !.temp = InPart(client[p].table)])
  /\ UNCHANGED <<file, changes, ledger>>

\* ... then whole and on the disk ...
Sync(p) ==
  /\ At(p, "sync")
  /\ Becomes(p, [client[p] EXCEPT !.at = "rename", !.temp = client[p].table])
  /\ UNCHANGED <<file, changes, ledger>>

\* ... and renamed over the file.
Rename(p) ==
  /\ At(p, "rename")
  /\ LET c == client[p] now == c.temp IN
     /\ file' = now
     /\ ledger' = [ledger EXCEPT
          !.last = [k \in Keys |->
            IF c.print = NoPin THEN IF SameServer(k, c.key) THEN NoPin ELSE @[k]
            ELSE IF k = c.key THEN c.print ELSE @[k]],
          !.touched = @ \cup
            (IF c.print = NoPin THEN {k \in Keys : SameServer(k, c.key)} ELSE {c.key}),
          !.raced = @ \/ file # c.base]
  /\ Becomes(p, Idle(<<>>))
  /\ UNCHANGED changes

\* A call of Store::write fails, and the file beside is removed.
WriteFails(p) ==
  /\ client[p].at \in {"write", "sync", "rename"}
  /\ Becomes(p, Idle(<<>>))
  /\ UNCHANGED <<file, changes, ledger>>

\* The process dies, and what it has written beside the file stays.
Crash(p) ==
  /\ ~At(p, "idle")
  /\ Stops(p)
  /\ UNCHANGED <<file, changes, ledger>>

ClientNext(p) ==
  \/ \E a \in Addresses : Forget(p, a)
  \/ \E a \in Addresses, f \in Prints, trusting \in BOOLEAN : TrustNeeded(p, a, f, trusting)
  \/ \E accept, remember \in BOOLEAN : Answered(p, accept, remember)
  \/ Read(p) \/ Write(p) \/ Sync(p) \/ Rename(p) \/ WriteFails(p) \/ Crash(p)

Next == \E p \in Clients : ClientNext(p)

Spec == Init /\ [][Next]_vars

-----------------------------------------------------------------------------

\* The lines no change was about; a comment is of no address.
Untouched(table) == SelectSeq(table, LAMBDA line : line[1] \notin ledger.touched)

\* However clients overlap, fail and crash: nobody is let through in silence but with a
\* fingerprint that was pinned for that very address; the file holds no other; and the
\* lines that are comments, or are of an address nobody has changed since, are all
\* still there and in their order. Where no client replaced a file that another had replaced since it read it,
\* every address has the pin it was given last, and none if it was forgotten.
PinsStand ==
  /\ ~ledger.slipped
  /\ \A i \in DOMAIN file :
       file[i] # Comment => <<file[i][1], Canonical(file[i][2])>> \in ledger.accepted
  /\ Untouched(file) = Untouched(ledger.start)
  /\ ledger.raced \/ \A k \in Keys : Get(file, k) = ledger.last[k]
=============================================================================
