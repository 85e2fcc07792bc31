---------------------------- MODULE SampleStream ----------------------------
(***************************************************************************)
(* What the message queue promises, without a queue: a growing log of the  *)
(* entries put and one cursor.  Everything at or before the cursor has     *)
(* been delivered, in log order, or given up; at most Window entries lie   *)
(* beyond it, and only the oldest of them can be given up by a put.        *)
(***************************************************************************)
EXTENDS Integers, Sequences

CONSTANTS Window, Entries

VARIABLES log, cursor, delivered

streamVars == <<log, cursor, delivered>>

StreamInit ==
  /\ log = << >>
  /\ cursor = 0
  /\ delivered = << >>

\* A put adds an entry; when Window entries were outstanding it costs the oldest.
Extend(e) ==
  /\ log' = Append(log, e)
  /\ cursor' = IF Len(log) - cursor >= Window THEN cursor + 1 ELSE cursor
  /\ UNCHANGED delivered

Deliver ==
  /\ cursor < Len(log)
  /\ cursor' = cursor + 1
  /\ delivered' = Append(delivered, log[cursor + 1])
  /\ UNCHANGED log

\* Everything outstanding is given up at once.
Forget ==
  /\ cursor' = Len(log)
  /\ UNCHANGED <<log, delivered>>

StreamNext ==
  \/ \E e \in Entries : Extend(e)
  \/ Deliver
  \/ Forget

StreamSpec == StreamInit /\ [][StreamNext]_streamVars
=============================================================================
