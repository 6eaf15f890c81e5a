-------------------------- MODULE MCScrobbleRetry --------------------------
(* Constants of the ScrobbleRetry instance TLC checks.                     *)
EXTENDS ScrobbleRetry

CONSTANTS e1, e2, s1, drainJob, otherJob

EveryMinute == [j \in Jobs |-> 1]
AtOnceOrLater == [j \in Jobs |-> IF j = Retry THEN 0 ELSE 1]
OneService == [e \in Entries |-> s1]
=============================================================================
