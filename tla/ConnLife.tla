------------------------------ MODULE ConnLife ------------------------------
(***************************************************************************)
(* The life of one connection, as the owners of a Connection and the event *)
(* loop see it in its type, its state and its mark for closing.  The same  *)
(* life is lived by the connection that Connection follows byte by byte    *)
(* and by each entry of the table that EventLoop and its owners share.     *)
(***************************************************************************)

VARIABLES
  type,    \* NONE (no object), POOL or WORKER
  state,   \* as Connection reports it
  closing  \* should_close_

vars == <<type, state, closing>>

Absent == type = "NONE" /\ state = "DISCONNECTED" /\ closing = FALSE

\* A line sent within the step that opens it may fail already.
BornAs(t, s) ==
  /\ Absent
  /\ type' = t /\ state' = s
  /\ closing' \in BOOLEAN

\* connect_to_pool succeeds: the handshake is still to come, nothing was sent.
Dial == BornAs("POOL", "CONNECTING") /\ closing' = FALSE

\* accept_worker: there is no handshake.
Accept == BornAs("WORKER", "CONNECTED")

\* The handshake is complete, and the login that follows at once may fail.
HandshakeDone ==
  /\ type = "POOL" /\ state = "CONNECTING"
  /\ state' = "CONNECTED"
  /\ closing' \in {closing, TRUE}
  /\ UNCHANGED type

\* The handshake fails: whoever reports ERROR also marks the connection.
HandshakeFails ==
  /\ type = "POOL" /\ state = "CONNECTING"
  /\ state' = "ERROR" /\ closing' = TRUE
  /\ UNCHANGED type

\* A hangup, the end of the stream, a failed write, or an owner's wish: none of
\* them is reported to the owner by a state.
Mark ==
  /\ type # "NONE" /\ ~closing
  /\ closing' = TRUE
  /\ UNCHANGED <<type, state>>

\* Nothing but cleanup_closed destroys a connection, and only a marked one.
Destroy ==
  /\ closing
  /\ type' = "NONE" /\ state' = "DISCONNECTED" /\ closing' = FALSE

Init == Absent \/ (type = "POOL" /\ state = "CONNECTING" /\ closing = FALSE)
               \/ (type = "WORKER" /\ state = "CONNECTED" /\ closing = FALSE)

Next == Dial \/ Accept \/ HandshakeDone \/ HandshakeFails \/ Mark \/ Destroy

Spec == Init /\ [][Next]_vars
=============================================================================
