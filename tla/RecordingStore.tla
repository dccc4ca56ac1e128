--------------------------- MODULE RecordingStore ---------------------------
(***************************************************************************)
(* What recording uploads promise a cohort: a recording is published only  *)
(* when its file is stored, and a published recording keeps its file until *)
(* it is destroyed.  Failed, cancelled and retried uploads only ever put   *)
(* or withdraw files no recording uses.                                    *)
(***************************************************************************)
CONSTANT Keys
VARIABLES stored,   \* files in the bucket
          rows      \* published recordings

Init == stored = {} /\ rows = {}

Put(k) == stored' = stored \cup {k} /\ rows' = rows
Publish(k) == k \in stored /\ rows' = rows \cup {k} /\ stored' = stored
Withdraw(k) == k \notin rows /\ stored' = stored \ {k} /\ rows' = rows
Destroy(k) == k \in rows /\ rows' = rows \ {k} /\ stored' = stored \ {k}

Next == \E k \in Keys : Put(k) \/ Publish(k) \/ Withdraw(k) \/ Destroy(k)

Spec == Init /\ [][Next]_<<stored, rows>>
=============================================================================
