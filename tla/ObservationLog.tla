--------------------------- MODULE ObservationLog ---------------------------
(***************************************************************************)
(* What the capture path promises, without sessions, requests or a clock:  *)
(* an append-only log that takes an event exactly when no logged event     *)
(* with the same hash is younger than Window before it.                    *)
(***************************************************************************)
EXTENDS Integers, Sequences

CONSTANTS Hashes, Times, Window

VARIABLE log

Accepts(hash, ts) ==
  \A i \in DOMAIN log : log[i].hash = hash => log[i].ts + Window <= ts

Record(hash, ts) ==
  /\ Accepts(hash, ts)
  /\ log' = Append(log, [hash |-> hash, ts |-> ts])

Init == log = <<>>

Next == \E hash \in Hashes, ts \in Times : Record(hash, ts)

Spec == Init /\ [][Next]_log
=============================================================================
