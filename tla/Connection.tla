----------------------------- MODULE Connection -----------------------------
(***************************************************************************)
(* One Connection of gpu-proxy (connection.cpp) with the handlers of the   *)
(* event loop that drive it: creation, TLS handshake, the bytes that are   *)
(* read and cut into lines, the lines that are written, destruction.       *)
(* Connections to pools use TLS, connections from workers do not.          *)
(*                                                                         *)
(* Part of the program: Connection, connect_to_pool and, for this one      *)
(* connection, EventLoop::poll_and_process.  Environment: the peer, the    *)
(* kernel's socket, OpenSSL, and the owners, who call send_line at any     *)
(* moment, also from within the callbacks of this connection.              *)
(***************************************************************************)
EXTENDS Integers, Sequences

CONSTANTS
  Streams,   \* what a peer may say: sequences of "x", "cr" and "lf"
  MaxRead,   \* BUFFER_SIZE - 1: the most that one read takes
  Lengths    \* the lines the owners send, by their lengths with "\n"

ASSUME ConnectionAssumption ==
  /\ Streams \subseteq Seq({"x", "cr", "lf"})
  /\ MaxRead \in Nat \ {0}
  /\ Lengths \in Seq(Nat \ {0})

Setup  == <<"socket", "options", "resolve", "connect", "context", "ssl">>
Phases == {Setup[i] : i \in DOMAIN Setup}
            \cup {"poll", "dispatch", "read", "lines", "gone"}

Complete == 4   \* flights of a TLS 1.2 handshake: 0 and 2 are the client's

VARIABLES
  type, state, closing,  \* type_, state_, should_close_
  pc,                    \* the call under way; "gone" when there is no object
  resources,             \* the descriptor, SSL_CTX and SSL that are held
  revents,               \* what poll() reported and is still to be handled
  handshake,             \* flights exchanged; Complete: tls_handshake_complete
  want,                  \* tls_want_read and tls_want_write
  read_buffer,           \* the positions in stream of the bytes it has
  delivered,             \* observation: the lines given to message_cb_
  read_to,               \* the bytes up to here were appended to read_buffer_
  next_line,             \* the next line the owners send
  reported,              \* observation: those for which send_line returned true
  held,                  \* OpenSSL: the bytes up to here were decrypted
  pending,               \* OpenSSL: the record that SSL_write could not write
  stream, arrived,       \* the peer's bytes; those up to here reached the socket
  records,               \* where the TLS records not yet decrypted end
  flight,                \* the server's flight is in the socket
  peer,                  \* open, or ended (fin) or broken (reset)
  room,                  \* the socket is connected and its send buffer has room
  wire                   \* observation: the bytes written, as <<line, index>>

objectVars == <<type, state, closing>>
tlsVars    == <<handshake, want, flight>>
readVars   == <<read_buffer, delivered, read_to, held, records>>
writeVars  == <<next_line, reported, pending, wire>>
netVars    == <<stream, arrived, peer>>
vars == <<objectVars, pc, resources, revents, tlsVars, readVars, writeVars,
          netVars, room>>

ConnTypeOK ==
  /\ type \in {"POOL", "WORKER"}
  /\ state \in {"CONNECTING", "CONNECTED", "ERROR"}
  /\ closing \in BOOLEAN
  /\ pc \in Phases
  /\ resources \in SUBSET {"fd", "ctx", "ssl"}
  /\ revents \in SUBSET {"in", "out", "hup"}
  /\ handshake \in 0..Complete
  /\ want \in {{}, {"read"}, {"write"}}
  /\ stream \in Streams
  /\ read_buffer \in Seq(1..Len(stream))
  /\ delivered \in Seq(Seq(1..Len(stream)))
  /\ read_to \in 0..held /\ held \in 0..arrived /\ arrived \in 0..Len(stream)
  /\ records \in SUBSET ((held + 1)..arrived)
  /\ next_line \in 1..(Len(Lengths) + 1)
  /\ reported \in SUBSET DOMAIN Lengths
  /\ pending \in Seq((DOMAIN Lengths) \X (Nat \ {0}))
  /\ wire \in Seq((DOMAIN Lengths) \X (Nat \ {0}))
  /\ flight \in BOOLEAN /\ room \in BOOLEAN
  /\ peer \in {"open", "fin", "reset"}

Span(a, b) == [i \in 1..(b - a + 1) |-> a + i - 1]
Min2(a, b) == IF a < b THEN a ELSE b

-----------------------------------------------------------------------------
(* Creation: connect_to_pool, call by call, or accept_worker.              *)

Init ==
  /\ \/ type = "POOL" /\ state = "CONNECTING" /\ pc = "socket"
        /\ resources = {} /\ handshake = 0 /\ room = FALSE
     \/ type = "WORKER" /\ state = "CONNECTED" /\ pc = "poll"
        /\ resources = {"fd"} /\ handshake = Complete /\ room = TRUE
  /\ closing = FALSE /\ revents = {} /\ want = {}
  /\ read_buffer = <<>> /\ delivered = <<>> /\ read_to = 0
  /\ next_line = 1 /\ reported = {} /\ held = 0 /\ pending = <<>>
  /\ stream \in Streams /\ arrived = 0 /\ records = {}
  /\ flight = FALSE /\ peer = "open" /\ wire = <<>>

\* What a call of the set-up leaves behind when it succeeds.
Acquired(call) ==
  CASE call = "socket"  -> {"fd"}
    [] call = "context" -> {"ctx"}
    [] call = "ssl"     -> {"ssl"}
    [] OTHER            -> {}

SetupStep ==
  \E i \in DOMAIN Setup :
    /\ pc = Setup[i]
    /\ pc' = IF i = Len(Setup) THEN "poll" ELSE Setup[i + 1]
    /\ resources' = resources \cup Acquired(pc)
    /\ UNCHANGED <<objectVars, revents, tlsVars, readVars, writeVars, netVars, room>>

\* Mutant of SetupFails: only the destructor cleans up.
SetupFails_NoClose ==
  /\ \E i \in DOMAIN Setup : pc = Setup[i]
  /\ pc' = "gone"
  /\ \/ /\ pc \in {"socket", "options", "resolve", "connect"}
        /\ UNCHANGED <<state, resources>>
     \/ /\ pc \in {"context", "ssl"}
        /\ state' = "ERROR"
        /\ resources' = {}
  /\ UNCHANGED <<type, closing, revents, tlsVars, readVars, writeVars, netVars, room>>

\* Before there is an object the descriptor is closed by hand; after that the
\* destructor frees what the object holds.
SetupFails ==
  /\ \E i \in DOMAIN Setup : pc = Setup[i]
  /\ pc' = "gone"
  /\ \/ /\ pc \in {"socket", "options", "resolve", "connect"}
        /\ resources' = resources \ {"fd"}
        /\ UNCHANGED state
     \/ /\ pc \in {"context", "ssl"}
        /\ state' = "ERROR"
        /\ resources' = {}
  /\ UNCHANGED <<type, closing, revents, tlsVars, readVars, writeVars, netVars, room>>

-----------------------------------------------------------------------------
(* poll_and_process, for this connection.                                  *)

tls_handshake_pending == type = "POOL" /\ handshake # Complete

\* Mutant of Events: until OpenSSL has said what it waits for, only reading is polled.
Events_OnlyIn ==
  CASE tls_handshake_pending /\ want = {"write"} -> {"out", "hup"}
    [] tls_handshake_pending /\ want = {"read"}  -> {"in", "hup"}
    [] tls_handshake_pending /\ want = {}        -> {"in", "hup"}
    [] ~tls_handshake_pending                    -> {"in", "hup"}

\* pfd.events.
Events ==
  CASE tls_handshake_pending /\ want = {"write"} -> {"out", "hup"}
    [] tls_handshake_pending /\ want = {"read"}  -> {"in", "hup"}
    [] tls_handshake_pending /\ want = {}        -> {"in", "out", "hup"}
    [] ~tls_handshake_pending                    -> {"in", "hup"}

\* What the socket has to report.  Bytes that OpenSSL holds are not in it.
Pollable ==
  (IF arrived > held \/ flight \/ peer # "open" THEN {"in"} ELSE {})
    \cup (IF room THEN {"out"} ELSE {})
    \cup (IF peer = "reset" THEN {"hup"} ELSE {})

\* A pass with an event on some connection, not necessarily on this one.
Poll ==
  /\ pc = "poll"
  /\ revents' = Events \cap Pollable
  /\ pc' = "dispatch"
  /\ UNCHANGED <<objectVars, resources, tlsVars, readVars, writeVars, netVars, room>>

\* POLLERR or POLLHUP: what the socket still has is never read.
OnHangup ==
  /\ pc = "dispatch" /\ "hup" \in revents
  /\ closing' = TRUE
  /\ revents' = {}
  /\ UNCHANGED <<type, state, pc, resources, tlsVars, readVars, writeVars, netVars, room>>

\* The write event comes before the read event.
Handle(e) ==
  /\ pc = "dispatch"
  /\ e \in revents /\ "hup" \notin revents
  /\ e = "in" => "out" \notin revents
  /\ revents' = revents \ {e}

\* SSL_connect takes the server's flight if it is there and then writes the
\* next one of the client if there is room.
AfterServer == IF handshake \in {1, 3} /\ flight THEN handshake + 1 ELSE handshake
AfterClient == IF AfterServer \in {0, 2} /\ room THEN AfterServer + 1 ELSE AfterServer

\* Mutant of Wants: the flags are not reset before SSL_connect.
Wants_Kept(h) ==
  want \cup (CASE h \in {0, 2} -> {"write"} [] h \in {1, 3} -> {"read"} [] h = Complete -> {})

\* What SSL_connect waits for after h flights.
Wants(h) ==
  CASE h \in {0, 2} -> {"write"} [] h \in {1, 3} -> {"read"} [] h = Complete -> {}

\* perform_tls_handshake.  The callback of CONNECTED and the read that follows
\* at once are steps of their own (SendLine, ReadData).
HandshakeGoesOn(e) ==
  /\ Handle(e)
  /\ tls_handshake_pending /\ state = "CONNECTING" /\ peer # "reset"
  /\ handshake' = AfterClient
  /\ flight' = FALSE
  /\ room' \in IF AfterClient # AfterServer THEN BOOLEAN ELSE {room}
  /\ want' = Wants(AfterClient)
  /\ \/ AfterClient \in {0, 2} /\ UNCHANGED <<state, pc>>
     \/ AfterClient \in {1, 3} /\ peer = "open" /\ UNCHANGED <<state, pc>>
     \/ AfterClient = Complete /\ state' = "CONNECTED" /\ pc' = "read"
  /\ UNCHANGED <<type, closing, resources, readVars, writeVars, netVars>>

\* Mutant of HandshakeFails: the state is reported and the connection left open.
HandshakeFails_LeftOpen(e) ==
  /\ Handle(e)
  /\ tls_handshake_pending
  /\ state' = "ERROR"
  /\ want' = {}
  /\ UNCHANGED <<type, closing, pc, resources, handshake, flight, readVars, writeVars,
                 netVars, room>>

\* A failed connect (SO_ERROR), no SSL_set_fd, or an error of SSL_connect.
HandshakeFails(e) ==
  /\ Handle(e)
  /\ tls_handshake_pending
  /\ state' = "ERROR" /\ closing' = TRUE
  /\ want' = {}
  /\ UNCHANGED <<type, pc, resources, handshake, flight, readVars, writeVars, netVars, room>>

OnReadEvent ==
  /\ Handle("in")
  /\ ~tls_handshake_pending
  /\ pc' = "read"
  /\ UNCHANGED <<objectVars, resources, tlsVars, readVars, writeVars, netVars, room>>

\* cleanup_closed: the destructor frees everything.
EndOfPass ==
  /\ pc = "dispatch" /\ revents = {}
  /\ \/ ~closing /\ pc' = "poll" /\ UNCHANGED resources
     \/ closing /\ pc' = "gone" /\ resources' = {}
  /\ UNCHANGED <<objectVars, revents, tlsVars, readVars, writeVars, netVars, room>>

-----------------------------------------------------------------------------
(* read_data and process_read_buffer.                                      *)

\* The bytes up to d can be read without waiting: those that have arrived, or
\* what is left of the record that OpenSSL decrypted last, or else the next one.
Readable(d) ==
  \/ type = "WORKER" /\ d = arrived
  \/ type = "POOL" /\ (held > read_to \/ records = {}) /\ d = held
  \/ type = "POOL" /\ held = read_to /\ d \in records /\ \A r \in records : d <= r

\* One read takes MaxRead bytes at most.
ReadData ==
  \E d \in (read_to + 1)..Len(stream) :
    /\ pc = "read"
    /\ Readable(d)
    /\ read_to' = Min2(d, read_to + MaxRead)
    /\ held' = IF type = "POOL" THEN d ELSE read_to'
    /\ records' = records \ {d}
    /\ read_buffer' = read_buffer \o Span(read_to + 1, read_to')
    /\ pc' = "lines"
    /\ UNCHANGED <<objectVars, resources, revents, tlsVars, delivered, writeVars,
                   netVars, room>>

\* EAGAIN, WANT_READ.
NothingToRead ==
  /\ pc = "read" /\ Readable(read_to) /\ peer = "open"
  /\ pc' = "dispatch"
  /\ UNCHANGED <<objectVars, resources, revents, tlsVars, readVars, writeVars, netVars, room>>

\* The end of the stream comes after all its bytes; an error at any time.
ReadEnds ==
  /\ pc = "read"
  /\ peer = "reset" \/ (peer = "fin" /\ Readable(read_to))
  /\ closing' = TRUE
  /\ pc' = "dispatch"
  /\ UNCHANGED <<type, state, resources, revents, tlsVars, readVars, writeVars, netVars, room>>

Newlines == {i \in DOMAIN read_buffer : stream[read_buffer[i]] = "lf"}

\* The line before the newline at i, with a carriage return taken off.
LineBefore(i) ==
  IF i > 1 /\ stream[read_buffer[i - 1]] = "cr"
    THEN SubSeq(read_buffer, 1, i - 2) ELSE SubSeq(read_buffer, 1, i - 1)

\* Mutant of HandLine: what is left after a line is thrown away with it.
HandLine_Clears ==
  \E i \in Newlines :
    /\ pc = "lines"
    /\ \A j \in Newlines : i <= j
    /\ delivered' = Append(delivered, LineBefore(i))
    /\ read_buffer' = <<>>
    /\ UNCHANGED <<objectVars, pc, resources, revents, tlsVars, read_to, held,
                   records, writeVars, netVars, room>>

\* Mutant of HandLine: one line is handled per read.
HandLine_OnePerRead ==
  \E i \in Newlines :
    /\ pc = "lines" /\ pc' = "dispatch"
    /\ \A j \in Newlines : i <= j
    /\ delivered' = Append(delivered, LineBefore(i))
    /\ read_buffer' = SubSeq(read_buffer, i + 1, Len(read_buffer))
    /\ UNCHANGED <<objectVars, resources, revents, tlsVars, read_to, held,
                   records, writeVars, netVars, room>>

\* message_cb_ is called with the first line; it may have marked the connection
\* for closing before, and is called all the same.
HandLine ==
  \E i \in Newlines :
    /\ pc = "lines"
    /\ \A j \in Newlines : i <= j
    /\ delivered' = Append(delivered, LineBefore(i))
    /\ read_buffer' = SubSeq(read_buffer, i + 1, Len(read_buffer))
    /\ UNCHANGED <<objectVars, pc, resources, revents, tlsVars, read_to, held,
                   records, writeVars, netVars, room>>

\* mark_for_closing: WorkerManager rejects the worker whose line it was given.
Rejected ==
  /\ type = "WORKER" /\ pc = "lines" /\ delivered # <<>>
  /\ closing' = TRUE
  /\ UNCHANGED <<type, state, pc, resources, revents, tlsVars, readVars, writeVars,
                 netVars, room>>

NoMoreLines ==
  /\ pc = "lines" /\ Newlines = {}
  /\ pc' = "dispatch"
  /\ UNCHANGED <<objectVars, resources, revents, tlsVars, readVars, writeVars, netVars, room>>

-----------------------------------------------------------------------------
(* send_line, called by the owners.                                        *)

Bytes(n) == [i \in 1..Lengths[n] |-> <<n, i>>]

\* is_connected() || tls_handshake_complete; ERROR counts as connected.
MaySend == state # "CONNECTING" \/ handshake = Complete

\* The line being sent, and what send_line returns for it.
Sends(n, ok) ==
  /\ n = next_line /\ n \in DOMAIN Lengths
  /\ pc \in {"poll", "dispatch", "read", "lines"}
  /\ next_line' = n + 1
  /\ reported' = IF ok THEN reported \cup {n} ELSE reported
  /\ UNCHANGED <<type, state, pc, resources, revents, tlsVars, readVars, netVars>>

SendRefused(n) ==
  /\ Sends(n, FALSE)
  /\ ~MaySend
  /\ UNCHANGED <<closing, pending, wire, room>>

\* All of the line goes out.
SendWhole(n) ==
  /\ Sends(n, TRUE)
  /\ MaySend /\ state # "ERROR" /\ room /\ pending = <<>>
  /\ wire' = wire \o Bytes(n)
  /\ room' \in BOOLEAN
  /\ UNCHANGED <<closing, pending>>

\* Mutant of SendShort: the owner sends the line again.
SendShort_Again(n) ==
  /\ Sends(n, FALSE)
  /\ type = "WORKER" /\ room
  /\ \E k \in 1..(Lengths[n] - 1) : wire' = wire \o SubSeq(Bytes(n), 1, k) \o Bytes(n)
  /\ room' = FALSE
  /\ UNCHANGED <<closing, pending>>

\* write() takes the beginning of the line; the rest is forgotten.
SendShort(n) ==
  /\ Sends(n, FALSE)
  /\ type = "WORKER" /\ room
  /\ \E k \in 1..(Lengths[n] - 1) : wire' = wire \o SubSeq(Bytes(n), 1, k)
  /\ room' = FALSE
  /\ UNCHANGED <<closing, pending>>

\* SSL_write would block: "Try again later".  OpenSSL keeps the record.
SendBlocked(n) ==
  /\ Sends(n, TRUE)
  /\ type = "POOL" /\ state = "CONNECTED" /\ ~room /\ pending = <<>>
  /\ pending' = Bytes(n)
  /\ UNCHANGED <<closing, wire, room>>

\* SSL_write takes the next line for a repetition of the blocked call, if it is
\* not shorter and happens to be at the same address: it writes the record it
\* kept, and of the new line only what is beyond the length of the old.
SendInPlace(n) ==
  /\ Sends(n, TRUE)
  /\ pending # <<>> /\ Len(pending) <= Lengths[n]
  /\ \/ /\ room
        /\ wire' = wire \o pending \o SubSeq(Bytes(n), Len(pending) + 1, Lengths[n])
        /\ pending' = <<>>
        /\ room' \in BOOLEAN
     \/ /\ ~room
        /\ UNCHANGED <<wire, pending, room>>
  /\ UNCHANGED closing

\* A worker's full socket, a call that is not the repetition OpenSSL expects, a
\* failed handshake, or a peer that has gone.
SendFails(n) ==
  /\ Sends(n, FALSE)
  /\ MaySend
  /\ \/ type = "WORKER" /\ ~room
     \/ pending # <<>>
     \/ state = "ERROR"
     \/ peer # "open"
  /\ closing' = TRUE
  /\ UNCHANGED <<pending, wire, room>>

SendLine(n) ==
  \/ SendRefused(n) \/ SendWhole(n) \/ SendShort(n)
  \/ SendBlocked(n) \/ SendInPlace(n) \/ SendFails(n)

-----------------------------------------------------------------------------
(* The peer and the kernel.                                                *)

Alive == pc \notin {Setup[i] : i \in DOMAIN Setup} \cup {"gone"}

\* The TCP connection is established, or the peer has read something.
SocketWritable ==
  /\ Alive /\ ~room /\ peer # "reset"
  /\ room' = TRUE
  /\ UNCHANGED <<objectVars, pc, resources, revents, tlsVars, readVars, writeVars, netVars>>

ServerAnswers ==
  /\ Alive /\ handshake \in {1, 3} /\ ~flight /\ peer = "open"
  /\ flight' = TRUE
  /\ UNCHANGED <<objectVars, pc, resources, revents, handshake, want, readVars,
                 writeVars, netVars, room>>

\* The bytes up to n arrive, from a pool as one TLS record.
BytesArrive(n) ==
  /\ Alive /\ peer = "open"
  /\ handshake = Complete \/ (handshake = 3 /\ flight)
  /\ n \in (arrived + 1)..Len(stream)
  /\ arrived' = n
  /\ records' = IF type = "POOL" THEN records \cup {n} ELSE records
  /\ UNCHANGED <<objectVars, pc, resources, revents, tlsVars, read_buffer, delivered,
                 read_to, held, writeVars, stream, peer, room>>

PeerEnds ==
  /\ Alive /\ peer = "open"
  /\ peer' \in {"fin", "reset"}
  /\ UNCHANGED <<objectVars, pc, resources, revents, tlsVars, readVars, writeVars,
                 stream, arrived, room>>

-----------------------------------------------------------------------------

LoopStep ==
  \/ Poll \/ OnHangup \/ OnReadEvent \/ EndOfPass
  \/ \E e \in {"in", "out"} : HandshakeGoesOn(e) \/ HandshakeFails(e)
  \/ ReadData \/ NothingToRead \/ ReadEnds \/ HandLine \/ NoMoreLines

Next ==
  \/ SetupStep \/ SetupFails
  \/ LoopStep
  \/ Rejected \/ \E n \in DOMAIN Lengths : SendLine(n)
  \/ SocketWritable \/ ServerAnswers \/ PeerEnds
  \/ \E n \in 1..Len(stream) : BytesArrive(n)
  \/ pc = "gone" /\ UNCHANGED vars

Spec == Init /\ [][Next]_vars

\* The loop keeps turning.
FairSpec == Spec /\ WF_vars(LoopStep)

-----------------------------------------------------------------------------
(* Properties.                                                             *)

\* However creation or use of a connection ends, nothing it acquired stays
\* behind: a retry every five seconds would use up the descriptors otherwise.
NothingLeaks == pc = "gone" => resources = {}

\* The position at which read_buffer_ begins.
From == read_to - Len(read_buffer) + 1

Reading == INSTANCE LineStream
             WITH lines <- delivered, from <- From, open <- pc # "gone"

\* What is not yet handed over is exactly what read_buffer_ has: the lines come
\* out as LineStream says, whatever the pieces in which their bytes arrive.
ImplementsLineStream == Reading!Spec

\* A connection as ConnLife sees it is there when connect_to_pool or accept_worker
\* has returned it, until it is destroyed.
Living(value, absent) == IF Alive THEN value ELSE absent

Life == INSTANCE ConnLife
          WITH type <- Living(type, "NONE"), state <- Living(state, "DISCONNECTED"),
               closing <- Living(closing, FALSE)

\* What the loop and the owners take for granted of each connection in their table:
\* ERROR comes with the mark for closing, a mark is never taken back, a state is
\* never left but for the next one, and only what is marked is destroyed.
ImplementsConnLife == Life!Spec

\* The loop never goes to sleep on a line: at every poll, each complete line that
\* has reached the socket was handed over, or is behind bytes that poll() reports,
\* or OpenSSL has decrypted it, where poll() does not see it.
NoLineBehind ==
  pc = "poll" =>
    \A e \in 1..arrived : stream[e] = "lf" =>
      \/ e < From
      \/ "in" \in Events \cap Pollable
      \/ type = "POOL" /\ e \in (read_to + 1)..held

\* The loop never goes to sleep on a handshake that can go on: the flags left by
\* the last SSL_connect make poll() ask for room when it is the client's turn, and
\* for bytes, or the end of them, when it is the server's.
NoLostWakeup ==
  pc = "poll" /\ tls_handshake_pending =>
    /\ handshake \in {0, 2} /\ room => "out" \in Events \cap Pollable
    /\ handshake \in {1, 3} /\ (flight \/ peer # "open") => "in" \in Events \cap Pollable

\* Bytes of lines go out in order and at most once, whatever writes are short,
\* blocked, or mistaken for one another: no line is sent twice or overtaken.
Precedes(a, b) == a[1] < b[1] \/ (a[1] = b[1] /\ a[2] < b[2])

WireInOrder ==
  \A i, j \in DOMAIN wire : i < j => Precedes(wire[i], wire[j])

\* Every complete line that reaches the socket is handed over or the connection
\* ends, if no decrypted bytes stay in OpenSSL for ever, where poll() does not
\* see them: a record longer than one read needs another one to follow.
Leaves == closing \/ pc = "gone"

EveryLineRead ==
  []<>(held = read_to) =>
    \A e \in UNION {1..Len(s) : s \in Streams} :
      (e <= arrived /\ stream[e] = "lf") ~> (e < From \/ Leaves)

\* The poll asks for what the handshake waits for: a server that answers and
\* reads completes it, or it fails.
PeerPlaysItsPart == WF_vars(SocketWritable) /\ WF_vars(ServerAnswers)

HandshakeEnds ==
  PeerPlaysItsPart => (pc = "poll" /\ tls_handshake_pending ~> ~tls_handshake_pending \/ Leaves)

\* A line that would block is tried again later (connection.cpp), so what
\* send_line has reported goes out or the connection ends.
OnTheWire(n) == \A i \in 1..Lengths[n] : \E j \in DOMAIN wire : wire[j] = <<n, i>>

TriedAgainLater ==
  PeerPlaysItsPart =>
    \A n \in DOMAIN Lengths : n \in reported ~> (OnTheWire(n) \/ Leaves)

=============================================================================
