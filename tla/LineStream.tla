----------------------------- MODULE LineStream -----------------------------
(***************************************************************************)
(* What the owner of a Connection relies on: its message callback is given *)
(* the lines of the peer's byte stream, each once, in order and whole, for *)
(* as long as the connection is open.                                      *)
(***************************************************************************)
EXTENDS Integers, Sequences

CONSTANT Streams   \* what a peer may say: sequences of "x", "cr" and "lf"

VARIABLES
  stream,  \* all the bytes of this peer
  lines,   \* the lines handed over, each as the sequence of its positions
  from,    \* the position at which the next line begins
  open

vars == <<stream, lines, from, open>>

Span(a, b) == [i \in 1..(b - a + 1) |-> a + i - 1]

\* The line that ends at e: a carriage return before its end is not part of it.
LineTo(e) ==
  IF e > from /\ stream[e - 1] = "cr" THEN Span(from, e - 2) ELSE Span(from, e - 1)

Init ==
  /\ stream \in Streams
  /\ lines = <<>> /\ from = 1
  /\ open = TRUE

HandOver ==
  /\ open
  /\ \E e \in from..Len(stream) :
       /\ stream[e] = "lf"
       /\ \A f \in from..(e - 1) : stream[f] # "lf"
       /\ lines' = Append(lines, LineTo(e))
       /\ from' = e + 1
  /\ UNCHANGED <<stream, open>>

Close ==
  /\ open
  /\ open' = FALSE
  /\ UNCHANGED <<stream, lines, from>>

Next == HandOver \/ Close

Spec == Init /\ [][Next]_vars
=============================================================================
