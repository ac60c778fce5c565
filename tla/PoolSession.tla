---------------------------- MODULE PoolSession ----------------------------
(***************************************************************************)
(* What PoolManager promises about its upstream session, without sockets,  *)
(* descriptors or the event loop: one login at a time, MaxTries retries at *)
(* a fixed delay before the next pool of the list is taken, a session that *)
(* is never given up, and a stall from which nothing recovers.             *)
(***************************************************************************)
EXTENDS Naturals

CONSTANT MaxTries   \* failed attempts that are retried on the same pool

VARIABLES
  session,  \* attempting, backoff (a retry is scheduled), online or stalled
  tries     \* failed attempts since the last login or change of pool

vars == <<session, tries>>

TypeOK ==
  /\ session \in {"attempting", "backoff", "online", "stalled"}
  /\ tries \in 0..MaxTries

\* A list whose connections cannot even be created is stalled from the start.
Init == session \in {"attempting", "stalled"} /\ tries = 0

\* A failed attempt is retried later ...
RetryLater ==
  /\ session = "attempting"
  /\ tries < MaxTries
  /\ session' = "backoff"
  /\ tries' = tries + 1

\* ... or, after MaxTries of them, the next pool is attempted at once, if a
\* connection to any pool left in the list can be created.
NextPool ==
  /\ session = "attempting"
  /\ tries = MaxTries
  /\ session' \in {"attempting", "stalled"}
  /\ tries' = 0

\* The retry is due.
Retry ==
  /\ session = "backoff"
  /\ session' \in {"attempting", "stalled"}
  /\ UNCHANGED tries

\* A complete login resets the count; one with a defective job does not.
LogIn ==
  /\ session = "attempting"
  /\ session' = "online"
  /\ tries' \in {0, tries}

\* The attempt ends without an error that PoolManager is told of: the
\* connection is hung up or closed, the login is lost or gets no usable reply.
GoSilent ==
  /\ session = "attempting"
  /\ session' = "stalled"
  /\ UNCHANGED tries

Next == RetryLater \/ NextPool \/ Retry \/ LogIn \/ GoSilent

SafeSpec == Init /\ [][Next]_vars

Spec == SafeSpec /\ WF_vars(Retry)
=============================================================================
