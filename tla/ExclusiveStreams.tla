-------------------------- MODULE ExclusiveStreams --------------------------
(***************************************************************************)
(* What the Icecast manager promises to listeners and to the database: a   *)
(* mount point has at most one source, only that source's status is ever   *)
(* recorded, and the last thing it records is that it went off the air.    *)
(***************************************************************************)
CONSTANTS Mounts, Handles, Statuses, Final

VARIABLES
  streams,   \* the sources on air: pairs <<mount, handle>>
  shown      \* the status recorded for each mount

OnAir(m) == \E p \in streams : p[1] = m
Exclusive(S) == \A p, q \in S : p[1] = q[1] \/ p[2] = q[2] => p = q

Init ==
  /\ streams = {}
  /\ shown \in [Mounts -> Final]

\* One source, or all those of a boot, go on air.
Begin ==
  /\ \E S \in SUBSET (Mounts \X Handles) :
       /\ S # {}
       /\ Exclusive(streams \cup S)
       /\ S \cap streams = {}
       /\ streams' = streams \cup S
  /\ UNCHANGED shown

Report(m) ==
  /\ OnAir(m)
  /\ \E s \in Statuses : shown' = [shown EXCEPT ![m] = s]
  /\ UNCHANGED streams

\* A source leaves; what it records is final, if the record still exists.
End(p) ==
  /\ p \in streams
  /\ streams' = streams \ {p}
  /\ \E s \in Final \cup {shown[p[1]]} : shown' = [shown EXCEPT ![p[1]] = s]

\* The process dies: all sources at once, nothing recorded.
Die ==
  /\ streams' = {}
  /\ UNCHANGED shown

Next ==
  \/ Begin \/ Die
  \/ \E m \in Mounts : Report(m)
  \/ \E p \in streams : End(p)

Spec == Init /\ [][Next]_<<streams, shown>>
=============================================================================
