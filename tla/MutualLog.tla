----------------------------- MODULE MutualLog -----------------------------
(***************************************************************************)
(* What the peers promise their applications: one log of messages, in an   *)
(* order every peer agrees on.  The log only grows, entries are stamped    *)
(* with the mutual time at which they are added, that time never runs      *)
(* backwards, and what a client knows of the log is right and is never     *)
(* taken back, though it may have holes.                                   *)
(***************************************************************************)
EXTENDS Integers, Sequences

CONSTANT Clients

VARIABLES
  log,   \* the messages, in the order the host gave them
  now,   \* the mutual time
  view   \* client -> its partial copy of the log, indexes starting at 0

logVars == <<log, now, view>>

LogInit ==
  /\ log = <<>>
  /\ now = 0
  /\ DOMAIN view = Clients
  /\ \A c \in Clients : DOMAIN view[c] = {}

Advance ==
  /\ now' \in Nat
  /\ now' >= now
  /\ UNCHANGED <<log, view>>

Commit ==
  /\ Len(log') >= Len(log)
  /\ \A k \in 1..Len(log) : log'[k] = log[k]
  /\ \A k \in (Len(log) + 1)..Len(log') : log'[k].time = now
  /\ UNCHANGED <<now, view>>

Learn(c) ==
  /\ DOMAIN view' = Clients
  /\ \A b \in Clients \ {c} : view'[b] = view[b]
  /\ DOMAIN view[c] \subseteq DOMAIN view'[c]
  /\ \A i \in DOMAIN view[c] : view'[c][i] = view[c][i]
  /\ \A i \in DOMAIN view'[c] \ DOMAIN view[c] :
       i \in 0..(Len(log) - 1) /\ view'[c][i] = log[i + 1]
  /\ UNCHANGED <<log, now>>

LogNext ==
  \/ Advance
  \/ Commit
  \/ \E c \in Clients : Learn(c)

LogSpec == LogInit /\ [][LogNext]_logVars

===========================================================================
