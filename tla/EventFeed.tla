----------------------------- MODULE EventFeed -----------------------------
(***************************************************************************)
(* What Find with Watch promises a caller, whatever the machinery behind   *)
(* it: from the moment it joins, a watcher walks along the log of          *)
(* broadcast events one event at a time, is sent each event its query      *)
(* matches and skips the others, and stops only by being ended.  It never  *)
(* jumps over an event, never receives one twice, and is told that it      *)
(* fell behind only if it was overrun: once more than BufferSize events    *)
(* behind.                                                                 *)
(***************************************************************************)
EXTENDS Naturals, Sequences

CONSTANTS Subs,        \* the Find(Watch) calls
          Events,      \* the updates a watch stream can carry
          Interest,    \* Interest[s]: the updates that match the query of s
          BufferSize   \* how far behind a watcher may fall

VARIABLES log,         \* every event broadcast so far, in order
          status,      \* "off", "live", "overrun", or how the watch ended
          cursor,      \* the last position of the log the watcher dealt with
          delivered    \* the positions sent to the watcher, in order

feedVars == <<log, status, cursor, delivered>>

Active == {"live", "overrun"}
Outcomes == {"ended", "exhausted", "failed"}

Init ==
    /\ log = <<>>
    /\ status = [s \in Subs |-> "off"]
    /\ cursor = [s \in Subs |-> 0]
    /\ delivered = [s \in Subs |-> <<>>]

Publish(e) ==
    /\ log' = Append(log, e)
    /\ UNCHANGED <<status, cursor, delivered>>

Join(s) ==
    /\ status[s] = "off"
    /\ status' = [status EXCEPT ![s] = "live"]
    /\ cursor' = [cursor EXCEPT ![s] = Len(log)]
    /\ UNCHANGED <<log, delivered>>

\* So far behind that events may be dropped for it.
Overrun(s) ==
    /\ status[s] = "live"
    /\ Len(log) > cursor[s] + BufferSize
    /\ status' = [status EXCEPT ![s] = "overrun"]
    /\ UNCHANGED <<log, cursor, delivered>>

Advance(s) ==
    /\ status[s] \in Active
    /\ cursor[s] < Len(log)
    /\ cursor' = [cursor EXCEPT ![s] = @ + 1]
    /\ UNCHANGED <<log, status>>

Deliver(s) ==
    /\ Advance(s)
    /\ log[cursor[s] + 1] \in Interest[s]
    /\ delivered' = [delivered EXCEPT ![s] = Append(@, cursor[s] + 1)]

Skip(s) ==
    /\ Advance(s)
    /\ log[cursor[s] + 1] \notin Interest[s]
    /\ UNCHANGED delivered

End(s, outcome) ==
    /\ status[s] \in Active
    /\ outcome = "exhausted" => status[s] = "overrun"
    /\ status' = [status EXCEPT ![s] = outcome]
    /\ UNCHANGED <<log, cursor, delivered>>

Next ==
    \/ \E e \in Events : Publish(e)
    \/ \E s \in Subs :
          \/ Join(s)
          \/ Overrun(s)
          \/ Deliver(s)
          \/ Skip(s)
          \/ \E outcome \in Outcomes : End(s, outcome)

Spec == Init /\ [][Next]_feedVars
=============================================================================
