------------------------- MODULE Connection_proofs -------------------------
(***************************************************************************)
(* Theorems about one Connection, for every set of streams, every read     *)
(* size and every sequence of lines to send.                               *)
(***************************************************************************)
EXTENDS Connection, TLAPS, SequenceTheorems

-----------------------------------------------------------------------------
(* Types.  A worker's connection has no TLS state.                         *)

PlainWorker == type = "WORKER" => records = {} /\ pending = <<>>

TypeInv == ConnTypeOK /\ PlainWorker

LEMMA PhaseNames ==
  /\ DOMAIN Setup = 1..6
  /\ \A i \in 1..6 : Setup[i] \in Phases
  /\ {"poll", "dispatch", "read", "lines", "gone"} \subseteq Phases
BY DEF Setup, Phases

LEMMA StreamTypes ==
  ASSUME ConnTypeOK
  PROVE  stream \in Seq({"x", "cr", "lf"}) /\ Len(stream) \in Nat
BY ConnectionAssumption DEF ConnTypeOK

LEMMA BytesTypes ==
  ASSUME NEW n \in DOMAIN Lengths
  PROVE  /\ Lengths[n] \in Nat \ {0}
         /\ Bytes(n) \in Seq((DOMAIN Lengths) \X (Nat \ {0}))
         /\ Len(Bytes(n)) = Lengths[n]
         /\ \A i \in 1..Lengths[n] : Bytes(n)[i] = <<n, i>>
<1>1. Lengths[n] \in Nat \ {0}
  BY ConnectionAssumption
<1>2. Bytes(n) \in [1..Lengths[n] -> (DOMAIN Lengths) \X (Nat \ {0})]
  BY <1>1 DEF Bytes
<1>3. Bytes(n) \in Seq((DOMAIN Lengths) \X (Nat \ {0})) /\ Len(Bytes(n)) = Lengths[n]
  BY <1>1, <1>2, IsASeq, LenProperties
<1> QED
  BY <1>1, <1>3 DEF Bytes

\* The steps that neither read nor write only have to keep these.
LEMMA QuietTypes ==
  ASSUME TypeInv, UNCHANGED <<type, stream, arrived>>, UNCHANGED readVars,
         UNCHANGED writeVars,
         state' \in {"CONNECTING", "CONNECTED", "ERROR"}, closing' \in BOOLEAN,
         pc' \in Phases, resources' \in SUBSET {"fd", "ctx", "ssl"},
         revents' \in SUBSET {"in", "out", "hup"}, handshake' \in 0..Complete,
         want' \in {{}, {"read"}, {"write"}}, flight' \in BOOLEAN, room' \in BOOLEAN,
         peer' \in {"open", "fin", "reset"}
  PROVE  TypeInv'
BY DEF TypeInv, ConnTypeOK, PlainWorker, readVars, writeVars

LEMMA TypeInit == Init => TypeInv
<1> SUFFICES ASSUME Init PROVE TypeInv
  OBVIOUS
<1>1. /\ type \in {"POOL", "WORKER"} /\ state \in {"CONNECTING", "CONNECTED", "ERROR"}
      /\ resources \in SUBSET {"fd", "ctx", "ssl"}
      /\ handshake \in 0..Complete /\ want \in {{}, {"read"}, {"write"}}
      /\ revents \in SUBSET {"in", "out", "hup"} /\ peer \in {"open", "fin", "reset"}
  BY DEF Init, Complete
<1>7. pc \in Phases
  <2>1. Setup[1] = "socket"
    BY DEF Setup
  <2> QED
    BY <2>1, PhaseNames DEF Init
<1>2. closing \in BOOLEAN /\ flight \in BOOLEAN /\ room \in BOOLEAN
  BY DEF Init
<1>3. stream \in Seq({"x", "cr", "lf"}) /\ Len(stream) \in Nat
  BY ConnectionAssumption DEF Init
<1>4. /\ read_to \in 0..held /\ held \in 0..arrived /\ arrived \in 0..Len(stream)
      /\ records \in SUBSET ((held + 1)..arrived)
      /\ next_line \in 1..(Len(Lengths) + 1) /\ reported \in SUBSET DOMAIN Lengths
  BY <1>3, ConnectionAssumption DEF Init
<1>5. /\ \A S : read_buffer \in Seq(S) /\ delivered \in Seq(S)
      /\ \A S : pending \in Seq(S) /\ wire \in Seq(S)
  BY EmptySeq DEF Init
<1>6. stream \in Streams /\ PlainWorker
  BY DEF Init, PlainWorker
<1> QED
  BY <1>1, <1>2, <1>4, <1>5, <1>6, <1>7 DEF TypeInv, ConnTypeOK

\* A part of a sequence, and a run of positions.
LEMMA PartTypes ==
  ASSUME NEW S, NEW s \in Seq(S), NEW a \in Nat \ {0}, NEW b \in Int, b <= Len(s)
  PROVE  /\ SubSeq(s, a, b) \in Seq(S)
         /\ Len(SubSeq(s, a, b)) = IF a <= b THEN b - a + 1 ELSE 0
         /\ \A i \in 1..(b - a + 1) : SubSeq(s, a, b)[i] = s[a + i - 1]
<1>1. \A i \in a..b : i \in 1..Len(s)
  BY LenProperties
<1>2. \A i \in a..b : s[i] \in S
  BY <1>1, ElementOfSeq
<1>3. a \in Int
  OBVIOUS
<1> QED
  BY <1>2, <1>3, SubSeqProperties

LEMMA SpanTypes ==
  ASSUME NEW S, NEW a \in Nat, NEW b \in Nat, a <= b + 1, a..b \subseteq S
  PROVE  /\ Span(a, b) \in Seq(S)
         /\ Len(Span(a, b)) = b - a + 1
         /\ \A i \in 1..(b - a + 1) : Span(a, b)[i] = a + i - 1
<1>1. Span(a, b) \in [1..(b - a + 1) -> S] /\ b - a + 1 \in Nat
  BY DEF Span
<1>2. Span(a, b) \in Seq(S)
  BY <1>1, SeqDef
<1>3. DOMAIN Span(a, b) = 1..(b - a + 1)
  BY DEF Span
<1>4. Len(Span(a, b)) = b - a + 1
  BY <1>1, <1>2, <1>3, LenProperties
<1> QED
  BY <1>2, <1>4 DEF Span

LEMMA ReadDataTypes ==
  ASSUME TypeInv, ReadData
  PROVE  TypeInv'
<1>1. PICK d \in (read_to + 1)..Len(stream) :
        /\ Readable(d)
        /\ read_to' = Min2(d, read_to + MaxRead)
        /\ held' = IF type = "POOL" THEN d ELSE read_to'
        /\ records' = records \ {d}
        /\ read_buffer' = read_buffer \o Span(read_to + 1, read_to')
  BY DEF ReadData
<1>2. /\ read_to \in 0..held /\ held \in 0..arrived /\ arrived \in 0..Len(stream)
      /\ records \in SUBSET ((held + 1)..arrived) /\ MaxRead \in Nat \ {0}
      /\ Len(stream) \in Nat
  BY StreamTypes, ConnectionAssumption DEF TypeInv, ConnTypeOK
<1>3. read_to \in Nat /\ held \in Nat /\ arrived \in Nat /\ d \in Nat /\ read_to < d
  BY <1>2
<1>4. read_to < read_to' /\ read_to' <= d /\ read_to' \in Nat
  BY <1>1, <1>2, <1>3 DEF Min2
<1>5. d <= arrived
  BY <1>1, <1>2 DEF Readable
<1>6. read_to' \in 0..held' /\ held' \in 0..arrived
  BY <1>1, <1>2, <1>4, <1>5 DEF Readable
<1>7. records' \in SUBSET ((held' + 1)..arrived) /\ (type = "WORKER" => records' = {})
  <2>1. CASE type = "POOL"
    <3>1. held' = d
      BY <1>1, <2>1
    <3>2. \A r \in records : r # d => d + 1 <= r
      BY <1>1, <1>2, <2>1 DEF Readable
    <3> QED
      BY <1>1, <1>2, <2>1, <3>1, <3>2
  <2>2. CASE type = "WORKER"
    BY <1>1, <2>2 DEF TypeInv, PlainWorker
  <2> QED
    BY <2>1, <2>2 DEF TypeInv, ConnTypeOK
<1>8. read_buffer' \in Seq(1..Len(stream))
  <2>1. Span(read_to + 1, read_to') \in Seq(1..Len(stream))
    <3> DEFINE P == 1..Len(stream)
               a == read_to + 1
               b == read_to'
    <3>1. a..b \subseteq P
      BY <1>1, <1>2, <1>4
    <3>2. \A x, y \in Nat : x < y => x + 1 \in Nat /\ x + 1 <= y + 1
      OBVIOUS
    <3>3. a \in Nat /\ b \in Nat /\ a <= b + 1
      BY <1>3, <1>4, <3>2
    <3> HIDE DEF P, a, b
    <3>4. Span(a, b) \in Seq(P)
      BY <3>1, <3>3, SpanTypes
    <3> QED
      BY <3>4 DEF P, a, b
  <2> QED
    BY <1>1, <2>1, ConcatProperties DEF TypeInv, ConnTypeOK
<1>9. /\ UNCHANGED <<objectVars, resources, revents, tlsVars, delivered, writeVars, netVars, room>>
      /\ pc' \in Phases
  BY PhaseNames DEF ReadData
<1> QED
  BY <1>6, <1>7, <1>8, <1>9
     DEF TypeInv, ConnTypeOK, PlainWorker, objectVars, tlsVars, writeVars, netVars

LEMMA HandLineTypes ==
  ASSUME TypeInv, HandLine
  PROVE  TypeInv'
<1> DEFINE P == 1..Len(stream)
<1>1. PICK i \in Newlines :
        /\ delivered' = Append(delivered, LineBefore(i))
        /\ read_buffer' = SubSeq(read_buffer, i + 1, Len(read_buffer))
  BY DEF HandLine
<1>2. read_buffer \in Seq(P) /\ delivered \in Seq(Seq(P))
  BY DEF TypeInv, ConnTypeOK
<1> HIDE DEF P
<1>3. i \in 1..Len(read_buffer) /\ Len(read_buffer) \in Nat
  BY <1>1, <1>2, LenProperties DEF Newlines
<1>4. ASSUME NEW a \in Nat \ {0}, NEW b \in Int, b <= Len(read_buffer)
      PROVE  SubSeq(read_buffer, a, b) \in Seq(P)
  BY <1>2, <1>4, PartTypes
<1>5. LineBefore(i) \in Seq(P) /\ read_buffer' \in Seq(P)
  <2>1. SubSeq(read_buffer, 1, i - 2) \in Seq(P)
    <3>1. i - 2 \in Int /\ i - 2 <= Len(read_buffer) /\ 1 \in Nat \ {0}
      BY <1>3
    <3> QED
      BY <3>1, <1>4
  <2>2. SubSeq(read_buffer, 1, i - 1) \in Seq(P)
    <3>1. i - 1 \in Int /\ i - 1 <= Len(read_buffer) /\ 1 \in Nat \ {0}
      BY <1>3
    <3> QED
      BY <3>1, <1>4
  <2>3. SubSeq(read_buffer, i + 1, Len(read_buffer)) \in Seq(P)
    <3>1. i + 1 \in Nat \ {0} /\ Len(read_buffer) \in Int
      BY <1>3
    <3> QED
      BY <3>1, <1>4
  <2> QED
    BY <1>1, <2>1, <2>2, <2>3 DEF LineBefore
<1>6. delivered' \in Seq(Seq(P))
  BY <1>1, <1>2, <1>5, AppendProperties
<1>7. UNCHANGED <<objectVars, pc, resources, revents, tlsVars, read_to, held, records,
                  writeVars, netVars, room>>
  BY DEF HandLine
<1> QED
  BY <1>5, <1>6, <1>7
     DEF P, TypeInv, ConnTypeOK, PlainWorker, objectVars, tlsVars, writeVars, netVars

LEMMA SendTypes ==
  ASSUME TypeInv, NEW n \in DOMAIN Lengths, SendLine(n)
  PROVE  TypeInv'
<1> DEFINE B == Seq((DOMAIN Lengths) \X (Nat \ {0}))
<1>1. Bytes(n) \in B /\ Len(Bytes(n)) = Lengths[n] /\ Lengths[n] \in Nat \ {0}
  BY BytesTypes
<1>2. wire \in B /\ pending \in B /\ Len(pending) \in Nat
  BY LenProperties DEF TypeInv, ConnTypeOK
<1>3. ASSUME NEW a \in Nat \ {0}, NEW b \in Int, b <= Lengths[n]
      PROVE  SubSeq(Bytes(n), a, b) \in B
  <2> DEFINE S == (DOMAIN Lengths) \X (Nat \ {0})
             t == Bytes(n)
  <2>1. t \in Seq(S) /\ b <= Len(t)
    BY <1>1, <1>3
  <2> HIDE DEF S, t
  <2>2. SubSeq(t, a, b) \in Seq(S)
    BY <2>1, PartTypes
  <2> QED
    BY <2>2 DEF S, t
<1> HIDE DEF B
<1>4. wire' \in B
  <2>1. \A s, t \in B : s \o t \in B
    BY ConcatProperties DEF B
  <2>2. CASE UNCHANGED wire
    BY <1>2, <2>2
  <2>3. CASE wire' = wire \o Bytes(n)
    BY <1>1, <1>2, <2>1, <2>3
  <2>4. CASE \E k \in 1..(Lengths[n] - 1) : wire' = wire \o SubSeq(Bytes(n), 1, k)
    <3>1. PICK k \in 1..(Lengths[n] - 1) : wire' = wire \o SubSeq(Bytes(n), 1, k)
      BY <2>4
    <3>2. 1 \in Nat \ {0} /\ k \in Int /\ k <= Lengths[n]
      BY <1>1
    <3> QED
      BY <1>2, <1>3, <2>1, <3>1, <3>2
  <2>5. CASE wire' = wire \o pending \o SubSeq(Bytes(n), Len(pending) + 1, Lengths[n])
    <3>1. Len(pending) + 1 \in Nat \ {0} /\ Lengths[n] \in Int /\ Lengths[n] <= Lengths[n]
      BY <1>1, <1>2
    <3>2. SubSeq(Bytes(n), Len(pending) + 1, Lengths[n]) \in B
      BY <1>3, <3>1
    <3> QED
      BY <1>2, <2>1, <2>5, <3>2
  <2> QED
    BY <2>2, <2>3, <2>4, <2>5 DEF SendLine, SendRefused, SendWhole, SendShort,
       SendBlocked, SendInPlace, SendFails
<1>5. pending' \in B
  <2>1. <<>> \in B
    BY EmptySeq DEF B
  <2> QED
    BY <1>1, <1>2, <2>1 DEF SendLine, SendRefused, SendWhole, SendShort,
       SendBlocked, SendInPlace, SendFails
<1>6. type = "WORKER" => pending' = <<>>
  BY DEF SendLine, SendRefused, SendWhole, SendShort, SendBlocked, SendInPlace,
     SendFails, TypeInv, PlainWorker
<1>7. closing' \in BOOLEAN /\ room' \in BOOLEAN
  BY DEF SendLine, SendRefused, SendWhole, SendShort, SendBlocked, SendInPlace,
     SendFails, TypeInv, ConnTypeOK
<1>8. /\ reported' \in {reported, reported \cup {n}} /\ next_line' = n + 1
      /\ UNCHANGED <<type, state, pc, resources, revents, tlsVars, readVars, netVars>>
  BY DEF SendLine, SendRefused, SendWhole, SendShort, SendBlocked, SendInPlace,
     SendFails, Sends
<1>9. n + 1 \in 1..(Len(Lengths) + 1) /\ reported' \in SUBSET DOMAIN Lengths
  BY <1>8, ConnectionAssumption DEF TypeInv, ConnTypeOK
<1> QED
  BY <1>4, <1>5, <1>6, <1>7, <1>8, <1>9
     DEF B, TypeInv, ConnTypeOK, PlainWorker, tlsVars, readVars, netVars

LEMMA HandshakeTypes ==
  ASSUME TypeInv, NEW e \in {"in", "out"}, HandshakeGoesOn(e) \/ HandshakeFails(e)
  PROVE  TypeInv'
<1>1. AfterClient \in 0..Complete
  BY DEF AfterClient, AfterServer, Complete, TypeInv, ConnTypeOK
<1>2. Wants(AfterClient) \in {{}, {"read"}, {"write"}}
  BY <1>1 DEF Wants, Complete
<1>3. pc \in Phases /\ "read" \in Phases
  BY PhaseNames DEF TypeInv, ConnTypeOK
<1>4. revents' \in SUBSET {"in", "out", "hup"}
  BY DEF HandshakeGoesOn, HandshakeFails, Handle, TypeInv, ConnTypeOK
<1>5. CASE HandshakeGoesOn(e)
  <2>1. UNCHANGED <<type, closing, resources, readVars, writeVars, netVars>>
    BY <1>5 DEF HandshakeGoesOn
  <2>2. handshake' \in 0..Complete /\ want' \in {{}, {"read"}, {"write"}}
    BY <1>1, <1>2, <1>5 DEF HandshakeGoesOn
  <2>3. state' \in {"CONNECTING", "CONNECTED", "ERROR"} /\ pc' \in Phases
    BY <1>3, <1>5 DEF HandshakeGoesOn, TypeInv, ConnTypeOK
  <2>4. flight' \in BOOLEAN /\ room' \in BOOLEAN
    BY <1>5 DEF HandshakeGoesOn, TypeInv, ConnTypeOK
  <2> QED
    BY <1>4, <2>1, <2>2, <2>3, <2>4, QuietTypes DEF TypeInv, ConnTypeOK, netVars
<1>6. CASE HandshakeFails(e)
  <2>1. /\ UNCHANGED <<type, pc, resources, handshake, flight, readVars, writeVars, netVars, room>>
        /\ state' = "ERROR" /\ closing' = TRUE /\ want' = {}
    BY <1>6 DEF HandshakeFails
  <2> QED
    BY <1>4, <2>1, QuietTypes DEF TypeInv, ConnTypeOK, netVars
<1> QED
  BY <1>5, <1>6

\* Creation, the other handlers of a pass, and the ends of a read.
LEMMA LoopTypes ==
  ASSUME TypeInv,
         \/ SetupStep \/ SetupFails \/ Poll \/ OnHangup \/ OnReadEvent \/ EndOfPass
         \/ NothingToRead \/ ReadEnds \/ NoMoreLines \/ Rejected
  PROVE  TypeInv'
<1>1. UNCHANGED <<type, stream, arrived, peer>> /\ UNCHANGED readVars /\ UNCHANGED writeVars
  BY DEF SetupStep, SetupFails, Poll, OnHangup, OnReadEvent, EndOfPass, NothingToRead,
     ReadEnds, NoMoreLines, Rejected, Handle, objectVars, netVars
<1>2. UNCHANGED tlsVars /\ room' = room
  BY DEF SetupStep, SetupFails, Poll, OnHangup, OnReadEvent, EndOfPass, NothingToRead,
     ReadEnds, NoMoreLines, Rejected
<1>3. state' \in {state, "ERROR"} /\ closing' \in {closing, TRUE}
  BY DEF SetupStep, SetupFails, Poll, OnHangup, OnReadEvent, EndOfPass, NothingToRead,
     ReadEnds, NoMoreLines, Rejected, objectVars
<1>4. pc' \in Phases
  <2>1. CASE SetupStep
    <3>1. PICK i \in DOMAIN Setup :
            pc' = IF i = Len(Setup) THEN "poll" ELSE Setup[i + 1]
      BY <2>1 DEF SetupStep
    <3>2. Len(Setup) = 6
      BY DEF Setup
    <3>3. i # 6 => i + 1 \in 1..6
      BY PhaseNames
    <3> QED
      BY <3>1, <3>2, <3>3, PhaseNames
  <2>2. CASE ~SetupStep
    BY <2>2, PhaseNames DEF SetupFails, Poll, OnHangup, OnReadEvent, EndOfPass,
       NothingToRead, ReadEnds, NoMoreLines, Rejected, TypeInv, ConnTypeOK
  <2> QED
    BY <2>1, <2>2
<1>5. resources' \in SUBSET {"fd", "ctx", "ssl"}
  <2>1. Acquired(pc) \subseteq {"fd", "ctx", "ssl"}
    BY DEF Acquired
  <2> QED
    BY <2>1 DEF SetupStep, SetupFails, Poll, OnHangup, OnReadEvent, EndOfPass,
       NothingToRead, ReadEnds, NoMoreLines, Rejected, TypeInv, ConnTypeOK
<1>6. revents' \in SUBSET {"in", "out", "hup"}
  <2>1. Pollable \subseteq {"in", "out", "hup"}
    BY DEF Pollable
  <2> QED
    BY <2>1 DEF SetupStep, SetupFails, Poll, OnHangup, OnReadEvent, EndOfPass, Handle,
       NothingToRead, ReadEnds, NoMoreLines, Rejected, TypeInv, ConnTypeOK
<1> QED
  BY <1>1, <1>2, <1>3, <1>4, <1>5, <1>6, QuietTypes DEF TypeInv, ConnTypeOK, tlsVars

LEMMA ArrivalTypes ==
  ASSUME TypeInv, NEW n \in 1..Len(stream), BytesArrive(n)
  PROVE  TypeInv'
<1>1. /\ UNCHANGED <<objectVars, pc, resources, revents, tlsVars, read_buffer, delivered,
                     read_to, held, writeVars, stream, peer, room>>
      /\ n \in (arrived + 1)..Len(stream) /\ arrived' = n
      /\ records' = IF type = "POOL" THEN records \cup {n} ELSE records
  BY DEF BytesArrive
<1>2. /\ held \in Nat /\ arrived \in Nat /\ Len(stream) \in Nat /\ held <= arrived
      /\ records \in SUBSET ((held + 1)..arrived) /\ n \in Nat
  BY StreamTypes DEF TypeInv, ConnTypeOK
<1>3. arrived' \in 0..Len(stream) /\ held \in 0..arrived'
  BY <1>1, <1>2
<1>4. records' \in SUBSET ((held + 1)..arrived')
  BY <1>1, <1>2
<1> QED
  BY <1>1, <1>3, <1>4
     DEF TypeInv, ConnTypeOK, PlainWorker, objectVars, tlsVars, writeVars

LEMMA WorldTypes ==
  ASSUME TypeInv, SocketWritable \/ ServerAnswers \/ PeerEnds
  PROVE  TypeInv'
<1>1. /\ UNCHANGED <<objectVars, pc, resources, revents, handshake, want, stream, arrived>>
      /\ UNCHANGED readVars /\ UNCHANGED writeVars
      /\ flight' \in BOOLEAN /\ room' \in BOOLEAN /\ peer' \in {"open", "fin", "reset"}
  BY DEF SocketWritable, ServerAnswers, PeerEnds, tlsVars, netVars, TypeInv, ConnTypeOK
<1> QED
  BY <1>1, QuietTypes DEF TypeInv, ConnTypeOK, objectVars

LEMMA TypeStep == TypeInv /\ [Next]_vars => TypeInv'
<1> SUFFICES ASSUME TypeInv, [Next]_vars PROVE TypeInv'
  OBVIOUS
<1>1. CASE LoopStep
  BY <1>1, HandshakeTypes, LoopTypes, ReadDataTypes, HandLineTypes DEF LoopStep
<1>2. CASE SetupStep \/ SetupFails \/ Rejected
  BY <1>2, LoopTypes
<1>3. ASSUME NEW n \in DOMAIN Lengths, SendLine(n) PROVE TypeInv'
  BY <1>3, SendTypes
<1>4. CASE SocketWritable \/ ServerAnswers \/ PeerEnds
  BY <1>4, WorldTypes
<1>5. ASSUME NEW n \in 1..Len(stream), BytesArrive(n) PROVE TypeInv'
  BY <1>5, ArrivalTypes
<1>6. CASE UNCHANGED vars
  BY <1>6 DEF vars, objectVars, tlsVars, readVars, writeVars, netVars, TypeInv, ConnTypeOK,
     PlainWorker
<1> QED
  BY <1>1, <1>2, <1>3, <1>4, <1>5, <1>6 DEF Next

\* Positions, records and lines stay in their ranges: nothing is read that has
\* not arrived, and nothing is sent that is not a line of the owners.
THEOREM ConnTypeCorrect == Spec => []ConnTypeOK
BY TypeInit, TypeStep, PTL DEF Spec, TypeInv

-----------------------------------------------------------------------------
(* Resources.  What is held at each call of the set-up.                    *)

HeldInSetup ==
  /\ pc = "gone" => resources = {}
  /\ pc = "socket" => resources = {}
  /\ pc \in {"options", "resolve", "connect"} => resources = {"fd"}

LEMMA SetupCalls ==
  /\ Setup[1] = "socket" /\ Setup[2] = "options" /\ Setup[3] = "resolve"
  /\ Setup[4] = "connect" /\ Setup[5] = "context" /\ Setup[6] = "ssl"
  /\ Len(Setup) = 6
BY DEF Setup

LEMMA HeldStep == HeldInSetup /\ [Next]_vars => HeldInSetup'
<1> SUFFICES ASSUME HeldInSetup, [Next]_vars PROVE HeldInSetup'
  OBVIOUS
<1>1. CASE SetupStep
  <2>1. PICK i \in 1..6 :
          /\ pc = Setup[i]
          /\ pc' = IF i = 6 THEN "poll" ELSE Setup[i + 1]
          /\ resources' = resources \cup Acquired(pc)
    BY <1>1, PhaseNames, SetupCalls DEF SetupStep
  <2>2. i = 1 \/ i = 2 \/ i = 3 \/ i = 4 \/ i = 5 \/ i = 6
    OBVIOUS
  <2>3. CASE i = 1
    <3>1. pc = "socket" /\ pc' = "options"
      BY <2>1, <2>3, SetupCalls
    <3> QED
      BY <2>1, <3>1 DEF HeldInSetup, Acquired
  <2>4. CASE i = 2
    <3>1. pc = "options" /\ pc' = "resolve"
      BY <2>1, <2>4, SetupCalls
    <3> QED
      BY <2>1, <3>1 DEF HeldInSetup, Acquired
  <2>5. CASE i = 3
    <3>1. pc = "resolve" /\ pc' = "connect"
      BY <2>1, <2>5, SetupCalls
    <3> QED
      BY <2>1, <3>1 DEF HeldInSetup, Acquired
  <2>6. CASE i = 4 \/ i = 5 \/ i = 6
    <3>1. pc' \in {"context", "ssl", "poll"}
      BY <2>1, <2>6, SetupCalls
    <3> QED
      BY <3>1 DEF HeldInSetup
  <2> QED
    BY <2>2, <2>3, <2>4, <2>5, <2>6
<1>2. CASE SetupFails
  BY <1>2 DEF SetupFails, HeldInSetup
<1>3. CASE EndOfPass
  BY <1>3 DEF EndOfPass, HeldInSetup
<1>4. CASE LoopStep /\ ~EndOfPass
  <2>1. pc' \in {"poll", "dispatch", "read", "lines"}
    BY <1>4 DEF LoopStep, Poll, OnHangup, OnReadEvent, HandshakeGoesOn, HandshakeFails,
       Handle, ReadData, NothingToRead, ReadEnds, HandLine, NoMoreLines
  <2> QED
    BY <2>1 DEF HeldInSetup
<1>5. ASSUME NEW n \in DOMAIN Lengths, SendLine(n) PROVE HeldInSetup'
  BY <1>5 DEF SendLine, SendRefused, SendWhole, SendShort, SendBlocked, SendInPlace,
     SendFails, Sends, HeldInSetup
<1>6. ASSUME NEW n \in 1..Len(stream),
             SocketWritable \/ ServerAnswers \/ PeerEnds \/ BytesArrive(n)
      PROVE  HeldInSetup'
  BY <1>6 DEF SocketWritable, ServerAnswers, PeerEnds, BytesArrive, HeldInSetup
<1>7. CASE SocketWritable \/ ServerAnswers \/ PeerEnds \/ Rejected
  BY <1>7 DEF SocketWritable, ServerAnswers, PeerEnds, Rejected, HeldInSetup
<1>8. CASE UNCHANGED vars
  BY <1>8 DEF vars, HeldInSetup
<1> QED
  BY <1>1, <1>2, <1>3, <1>4, <1>5, <1>6, <1>7, <1>8 DEF Next

\* Whatever call of the set-up fails, and however a connection ends, its
\* descriptor, its SSL_CTX and its SSL are given back.
THEOREM NothingLeaksCorrect == Spec => []NothingLeaks
<1>1. Init => HeldInSetup
  BY DEF Init, HeldInSetup
<1>2. HeldInSetup => NothingLeaks
  BY DEF HeldInSetup, NothingLeaks
<1> QED
  BY <1>1, <1>2, HeldStep, PTL DEF Spec

-----------------------------------------------------------------------------
(* The order of the bytes that are written.                                *)

\* All of s comes before all of t; s is in order; s is of lines before n.
Before(s, t) == \A i \in DOMAIN s, j \in DOMAIN t : Precedes(s[i], t[j])
Ordered(s)   == \A i, j \in DOMAIN s : i < j => Precedes(s[i], s[j])
Below(s, n)  == \A i \in DOMAIN s : s[i][1] < n

Marks == (DOMAIN Lengths) \X (Nat \ {0})

\* The record that OpenSSL keeps comes after all that was written and before
\* all that may be; only connections to pools have one.
WriteInv ==
  /\ Ordered(wire) /\ Ordered(pending) /\ Before(wire, pending)
  /\ Below(wire, next_line) /\ Below(pending, next_line)

LEMMA OrderedConcat ==
  ASSUME NEW s \in Seq(Marks), NEW t \in Seq(Marks), Ordered(s), Ordered(t), Before(s, t)
  PROVE  s \o t \in Seq(Marks) /\ Ordered(s \o t)
<1>1. /\ s \o t \in Seq(Marks)
      /\ Len(s \o t) = Len(s) + Len(t)
      /\ \A i \in 1..(Len(s) + Len(t)) :
           (s \o t)[i] = IF i <= Len(s) THEN s[i] ELSE t[i - Len(s)]
  BY ConcatProperties
<1>2. Len(s) \in Nat /\ Len(t) \in Nat /\ DOMAIN s = 1..Len(s) /\ DOMAIN t = 1..Len(t)
  BY LenProperties
<1>3. DOMAIN (s \o t) = 1..(Len(s) + Len(t))
  BY <1>1, LenProperties
<1>4. SUFFICES ASSUME NEW i \in 1..(Len(s) + Len(t)), NEW j \in 1..(Len(s) + Len(t)), i < j
               PROVE  Precedes((s \o t)[i], (s \o t)[j])
  BY <1>1, <1>3 DEF Ordered
<1>5. CASE j <= Len(s)
  <2>1. i \in 1..Len(s) /\ j \in 1..Len(s)
    BY <1>2, <1>4, <1>5
  <2> QED
    BY <1>1, <1>2, <1>4, <2>1 DEF Ordered
<1>6. CASE i <= Len(s) /\ ~(j <= Len(s))
  <2>1. i \in 1..Len(s) /\ j - Len(s) \in 1..Len(t)
    BY <1>2, <1>4, <1>6
  <2> QED
    BY <1>1, <1>2, <1>6, <2>1 DEF Before
<1>7. CASE ~(i <= Len(s))
  <2>1. /\ i - Len(s) \in 1..Len(t) /\ j - Len(s) \in 1..Len(t)
        /\ i - Len(s) < j - Len(s) /\ ~(j <= Len(s))
    BY <1>2, <1>4, <1>7
  <2> QED
    BY <1>1, <1>2, <1>7, <2>1 DEF Ordered
<1> QED
  BY <1>2, <1>5, <1>6, <1>7

LEMMA BelowConcat ==
  ASSUME NEW s \in Seq(Marks), NEW t \in Seq(Marks), NEW n, Below(s, n), Below(t, n)
  PROVE  Below(s \o t, n)
<1>1. /\ s \o t \in Seq(Marks)
      /\ Len(s \o t) = Len(s) + Len(t)
      /\ \A i \in 1..(Len(s) + Len(t)) :
           (s \o t)[i] = IF i <= Len(s) THEN s[i] ELSE t[i - Len(s)]
  BY ConcatProperties
<1>2. Len(s) \in Nat /\ Len(t) \in Nat /\ DOMAIN s = 1..Len(s) /\ DOMAIN t = 1..Len(t)
  BY LenProperties
<1>3. DOMAIN (s \o t) = 1..(Len(s) + Len(t))
  BY <1>1, LenProperties
<1>4. SUFFICES ASSUME NEW i \in 1..(Len(s) + Len(t)) PROVE (s \o t)[i][1] < n
  BY <1>3 DEF Below
<1>5. CASE i <= Len(s)
  BY <1>1, <1>2, <1>5 DEF Below
<1>6. CASE ~(i <= Len(s))
  <2>1. i - Len(s) \in 1..Len(t)
    BY <1>2, <1>6
  <2> QED
    BY <1>1, <1>2, <1>6, <2>1 DEF Below
<1> QED
  BY <1>5, <1>6

\* A part of the next line is in order, after all lines before it and below
\* the line after it.
LEMMA NextLine ==
  ASSUME NEW n \in DOMAIN Lengths, NEW a \in Nat \ {0}, NEW b \in Nat, b <= Lengths[n]
  PROVE  /\ SubSeq(Bytes(n), a, b) \in Seq(Marks)
         /\ Ordered(SubSeq(Bytes(n), a, b))
         /\ Below(SubSeq(Bytes(n), a, b), n + 1)
         /\ \A s \in Seq(Marks) : Below(s, n) => Before(s, SubSeq(Bytes(n), a, b))
<1> DEFINE t == SubSeq(Bytes(n), a, b)
<1>1. /\ Lengths[n] \in Nat \ {0} /\ Bytes(n) \in Seq(Marks) /\ Len(Bytes(n)) = Lengths[n]
      /\ \A i \in 1..Lengths[n] : Bytes(n)[i] = <<n, i>>
  BY BytesTypes DEF Marks
<1>2. n \in Nat
  BY ConnectionAssumption
<1>3. /\ t \in Seq(Marks)
      /\ Len(t) = IF a <= b THEN b - a + 1 ELSE 0
      /\ \A i \in 1..(b - a + 1) : t[i] = Bytes(n)[a + i - 1]
  BY <1>1, PartTypes
<1>4. \A i \in DOMAIN t : i \in 1..(b - a + 1) /\ t[i] = <<n, a + i - 1>> /\ i \in Nat
  <2> SUFFICES ASSUME NEW i \in DOMAIN t
               PROVE  i \in 1..(b - a + 1) /\ t[i] = <<n, a + i - 1>> /\ i \in Nat
    OBVIOUS
  <2>1. i \in 1..Len(t)
    BY <1>3, LenProperties
  <2>2. i \in 1..(b - a + 1) /\ i \in Nat
    BY <1>3, <2>1
  <2>3. a + i - 1 \in 1..Lengths[n]
    BY <1>1, <2>2
  <2> QED
    BY <1>1, <1>3, <2>2, <2>3
<1> HIDE DEF t
<1>5. Ordered(t)
  <2> SUFFICES ASSUME NEW i \in DOMAIN t, NEW j \in DOMAIN t, i < j
               PROVE  Precedes(t[i], t[j])
    BY DEF Ordered
  <2>1. t[i] = <<n, a + i - 1>> /\ t[j] = <<n, a + j - 1>> /\ i \in Nat /\ j \in Nat
    BY <1>4
  <2>2. t[i][1] = t[j][1] /\ t[i][2] = a + i - 1 /\ t[j][2] = a + j - 1
    BY <2>1
  <2>3. a + i - 1 < a + j - 1
    BY <2>1
  <2> QED
    BY <2>2, <2>3 DEF Precedes
<1>6. Below(t, n + 1)
  <2> SUFFICES ASSUME NEW i \in DOMAIN t PROVE t[i][1] < n + 1
    BY DEF Below
  <2>1. t[i][1] = n
    BY <1>4
  <2> QED
    BY <1>2, <2>1
<1>7. \A s \in Seq(Marks) : Below(s, n) => Before(s, t)
  <2> SUFFICES ASSUME NEW s \in Seq(Marks), Below(s, n), NEW i \in DOMAIN s, NEW j \in DOMAIN t
               PROVE  Precedes(s[i], t[j])
    BY DEF Before
  <2>1. s[i][1] < n /\ t[j][1] = n
    BY <1>4 DEF Below
  <2> QED
    BY <2>1 DEF Precedes
<1> QED
  BY <1>3, <1>5, <1>6, <1>7 DEF t

LEMMA BelowNext ==
  ASSUME NEW s \in Seq(Marks), NEW n \in Nat, Below(s, n)
  PROVE  Below(s, n + 1)
<1> SUFFICES ASSUME NEW i \in DOMAIN s PROVE s[i][1] < n + 1
  BY DEF Below
<1>1. s[i] \in Marks /\ DOMAIN Lengths \subseteq Nat
  BY ConnectionAssumption, LenProperties, ElementOfSeq
<1>2. s[i][1] \in Nat /\ s[i][1] < n
  BY <1>1 DEF Marks, Below
<1> QED
  BY <1>2

LEMMA NothingOrdered ==
  /\ Ordered(<<>>)
  /\ \A s : Before(s, <<>>)
  /\ \A n : Below(<<>>, n)
BY DEF Ordered, Before, Below

LEMMA LineFollows ==
  ASSUME NEW s \in Seq(Marks), NEW n \in DOMAIN Lengths, NEW a \in Nat \ {0},
         NEW b \in Nat, b <= Lengths[n], Ordered(s), Below(s, n)
  PROVE  /\ Ordered(s \o SubSeq(Bytes(n), a, b))
         /\ Below(s \o SubSeq(Bytes(n), a, b), n + 1)
<1> DEFINE t == SubSeq(Bytes(n), a, b)
<1>1. t \in Seq(Marks) /\ Ordered(t) /\ Below(t, n + 1) /\ Before(s, t)
  BY NextLine
<1>2. Below(s, n + 1)
  <2>1. n \in Nat
    BY ConnectionAssumption
  <2> QED
    BY <2>1, BelowNext
<1> HIDE DEF t
<1>3. Ordered(s \o t) /\ Below(s \o t, n + 1)
  BY <1>1, <1>2, OrderedConcat, BelowConcat
<1> QED
  BY <1>3 DEF t

LEMMA SendOrder ==
  ASSUME TypeInv, WriteInv, NEW n \in DOMAIN Lengths, SendLine(n)
  PROVE  WriteInv'
<1>1. n = next_line /\ next_line' = n + 1
  BY DEF SendLine, SendRefused, SendWhole, SendShort, SendBlocked, SendInPlace, SendFails,
     Sends
<1>2. wire \in Seq(Marks) /\ pending \in Seq(Marks)
  BY DEF TypeInv, ConnTypeOK, Marks
<1>3. /\ n \in Nat /\ Lengths[n] \in Nat \ {0}
      /\ Bytes(n) \in Seq(Marks) /\ Len(Bytes(n)) = Lengths[n]
  BY BytesTypes, ConnectionAssumption DEF Marks
<1>4. /\ Ordered(wire) /\ Ordered(pending) /\ Before(wire, pending)
      /\ Below(wire, n) /\ Below(pending, n)
      /\ Below(wire, n + 1) /\ Below(pending, n + 1)
  BY <1>1, <1>2, <1>3, BelowNext DEF WriteInv
<1>5. SubSeq(Bytes(n), 1, Lengths[n]) = Bytes(n)
  BY <1>3, SubSeqFull
<1>6. CASE UNCHANGED <<wire, pending>>
  BY <1>1, <1>4, <1>6 DEF WriteInv
<1>7. CASE SendWhole(n)
  <2>1. pending = <<>> /\ pending' = <<>> /\ wire' = wire \o SubSeq(Bytes(n), 1, Lengths[n])
    BY <1>5, <1>7 DEF SendWhole
  <2>2. Ordered(wire') /\ Below(wire', n + 1)
    BY <1>2, <1>3, <1>4, <2>1, LineFollows
  <2> QED
    BY <1>1, <2>1, <2>2, NothingOrdered DEF WriteInv
<1>8. CASE SendShort(n)
  <2>1. PICK k \in 1..(Lengths[n] - 1) : wire' = wire \o SubSeq(Bytes(n), 1, k)
    BY <1>8 DEF SendShort
  <2>2. pending = <<>> /\ pending' = <<>>
    BY <1>8 DEF SendShort, TypeInv, PlainWorker
  <2>3. k \in Nat /\ k <= Lengths[n] /\ 1 \in Nat \ {0}
    BY <1>3
  <2>4. Ordered(wire') /\ Below(wire', n + 1)
    BY <1>2, <1>4, <2>1, <2>3, LineFollows
  <2> QED
    BY <1>1, <2>2, <2>4, NothingOrdered DEF WriteInv
<1>9. CASE SendBlocked(n)
  <2>1. UNCHANGED wire /\ pending' = SubSeq(Bytes(n), 1, Lengths[n])
    BY <1>5, <1>9 DEF SendBlocked
  <2>2. Ordered(pending') /\ Below(pending', n + 1) /\ Before(wire, pending')
    BY <1>2, <1>3, <1>4, <2>1, NextLine
  <2> QED
    BY <1>1, <1>4, <2>1, <2>2 DEF WriteInv
<1>10. CASE SendInPlace(n) /\ ~UNCHANGED <<wire, pending>>
  <2> DEFINE a == Len(pending) + 1
             w == wire \o pending
  <2>1. wire' = w \o SubSeq(Bytes(n), a, Lengths[n]) /\ pending' = <<>>
    BY <1>10 DEF SendInPlace
  <2>2. a \in Nat \ {0}
    BY <1>2, LenProperties
  <2>3. w \in Seq(Marks) /\ Ordered(w) /\ Below(w, n)
    BY <1>2, <1>4, OrderedConcat, BelowConcat
  <2> HIDE DEF a, w
  <2>4. /\ Ordered(w \o SubSeq(Bytes(n), a, Lengths[n]))
        /\ Below(w \o SubSeq(Bytes(n), a, Lengths[n]), n + 1)
    <3>1. Lengths[n] \in Nat /\ Lengths[n] <= Lengths[n]
      BY <1>3
    <3> QED
      BY <2>2, <2>3, <3>1, LineFollows
  <2> QED
    BY <1>1, <2>1, <2>4, NothingOrdered DEF WriteInv
<1> QED
  BY <1>6, <1>7, <1>8, <1>9, <1>10 DEF SendLine, SendRefused, SendFails

LEMMA WriteStep == TypeInv /\ WriteInv /\ [Next]_vars => WriteInv'
<1> SUFFICES ASSUME TypeInv, WriteInv, [Next]_vars PROVE WriteInv'
  OBVIOUS
<1>1. ASSUME NEW n \in DOMAIN Lengths, SendLine(n) PROVE WriteInv'
  BY <1>1, SendOrder
<1>2. UNCHANGED writeVars => WriteInv'
  BY DEF writeVars, WriteInv
<1>3. ASSUME \/ LoopStep \/ SetupStep \/ SetupFails \/ Rejected
             \/ SocketWritable \/ ServerAnswers \/ PeerEnds
      PROVE  WriteInv'
  BY <1>2, <1>3 DEF LoopStep, SetupStep, SetupFails, Poll, OnHangup, OnReadEvent, EndOfPass,
     HandshakeGoesOn, HandshakeFails, ReadData, NothingToRead, ReadEnds, HandLine,
     NoMoreLines, Rejected, SocketWritable, ServerAnswers, PeerEnds
<1>4. ASSUME NEW n \in 1..Len(stream), BytesArrive(n) PROVE WriteInv'
  BY <1>2, <1>4 DEF BytesArrive
<1>5. CASE UNCHANGED vars
  BY <1>2, <1>5 DEF vars, writeVars
<1> QED
  BY <1>1, <1>3, <1>4, <1>5 DEF Next

\* Whatever writes are short or block, however often, and whatever SSL_write
\* takes for a repetition: no byte of a line is sent twice or out of its turn.
THEOREM WireInOrderCorrect == Spec => []WireInOrder
<1>1. Init => WriteInv
  BY NothingOrdered DEF Init, WriteInv
<1>2. WriteInv => WireInOrder
  BY DEF WriteInv, Ordered, WireInOrder
<1> QED
  BY <1>1, <1>2, TypeInit, TypeStep, WriteStep, PTL DEF Spec

-----------------------------------------------------------------------------
(* The lines.  read_buffer_ holds exactly the last bytes that were read.   *)

BufferInv ==
  /\ Len(read_buffer) <= read_to
  /\ \A i \in DOMAIN read_buffer : read_buffer[i] = From + i - 1

LEMMA ReadTypes ==
  ASSUME TypeInv
  PROVE  /\ read_buffer \in Seq(1..Len(stream)) /\ delivered \in Seq(Seq(1..Len(stream)))
         /\ DOMAIN read_buffer = 1..Len(read_buffer) /\ Len(read_buffer) \in Nat
         /\ read_to \in Nat /\ read_to <= Len(stream) /\ Len(stream) \in Nat
<1>1. Len(stream) \in Nat /\ read_buffer \in Seq(1..Len(stream))
  BY StreamTypes DEF TypeInv, ConnTypeOK
<1>2. held \in Nat /\ arrived \in Nat /\ arrived <= Len(stream) /\ held <= arrived
  BY <1>1 DEF TypeInv, ConnTypeOK
<1> QED
  BY <1>1, <1>2, LenProperties DEF TypeInv, ConnTypeOK

\* A read appends the bytes that follow those that it has.
LEMMA ReadAppends ==
  ASSUME TypeInv, BufferInv, ReadData
  PROVE  BufferInv' /\ UNCHANGED <<stream, delivered, From>> /\ pc # "gone" /\ pc' # "gone"
<1>1. PICK d \in (read_to + 1)..Len(stream) :
        /\ pc = "read" /\ pc' = "lines"
        /\ read_to' = Min2(d, read_to + MaxRead)
        /\ read_buffer' = read_buffer \o Span(read_to + 1, read_to')
        /\ UNCHANGED <<delivered, netVars>>
  BY DEF ReadData
<1>2. /\ read_buffer \in Seq(1..Len(stream)) /\ DOMAIN read_buffer = 1..Len(read_buffer)
      /\ Len(read_buffer) \in Nat /\ read_to \in Nat /\ Len(stream) \in Nat
      /\ MaxRead \in Nat \ {0}
  BY ReadTypes, ConnectionAssumption
<1>3. d \in Nat /\ read_to < d /\ d <= Len(stream)
  BY <1>2
<1>4. read_to' \in Nat /\ read_to < read_to' /\ read_to' <= Len(stream)
  BY <1>1, <1>2, <1>3 DEF Min2
<1> DEFINE P == 1..Len(stream)
           a == read_to + 1
           b == read_to'
           t == Span(a, b)
<1>5. /\ a \in Nat /\ b \in Nat /\ a <= b + 1 /\ a..b \subseteq P
      /\ b - a + 1 = read_to' - read_to
  <2>1. \A x, y, z \in Nat : x < y /\ y <= z =>
          /\ x + 1 \in Nat /\ x + 1 <= y + 1 /\ (x + 1)..y \subseteq 1..z
          /\ y - (x + 1) + 1 = y - x
    OBVIOUS
  <2> QED
    BY <1>2, <1>4, <2>1
<1>6. /\ t \in Seq(P) /\ Len(t) = read_to' - read_to
      /\ \A i \in 1..(read_to' - read_to) : t[i] = read_to + i
  <2> HIDE DEF P, a, b
  <2>1. /\ t \in Seq(P) /\ Len(t) = b - a + 1
        /\ \A i \in 1..(b - a + 1) : t[i] = a + i - 1
    BY <1>5, SpanTypes
  <2>2. \A i \in 1..(b - a + 1) : a + i - 1 = read_to + i
    BY <1>2, <1>4 DEF a, b
  <2> QED
    BY <1>5, <2>1, <2>2
<1> HIDE DEF P, t
<1>7. /\ Len(read_buffer') = Len(read_buffer) + (read_to' - read_to)
      /\ DOMAIN read_buffer' = 1..Len(read_buffer')
      /\ \A i \in 1..Len(read_buffer') :
           read_buffer'[i] = IF i <= Len(read_buffer) THEN read_buffer[i]
                                                      ELSE t[i - Len(read_buffer)]
  <2>1. read_buffer \in Seq(P) /\ read_buffer' = read_buffer \o t
    BY <1>1, <1>2 DEF P, t
  <2>2. /\ Len(read_buffer \o t) = Len(read_buffer) + Len(t)
        /\ read_buffer \o t \in Seq(P)
        /\ \A i \in 1..(Len(read_buffer) + Len(t)) :
             (read_buffer \o t)[i] = IF i <= Len(read_buffer) THEN read_buffer[i]
                                                           ELSE t[i - Len(read_buffer)]
    BY <1>6, <2>1, ConcatProperties
  <2>3. DOMAIN (read_buffer \o t) = 1..Len(read_buffer \o t)
    BY <2>2, LenProperties
  <2> QED
    BY <1>6, <2>1, <2>2, <2>3
<1>8. From' = From /\ From \in Int /\ From = read_to - Len(read_buffer) + 1
  BY <1>2, <1>4, <1>7 DEF From
<1>9. ASSUME NEW i \in DOMAIN read_buffer' PROVE read_buffer'[i] = From + i - 1
  <2>1. i \in 1..(Len(read_buffer) + (read_to' - read_to)) /\ i \in Nat
    BY <1>7, <1>9
  <2>2. CASE i <= Len(read_buffer)
    <3>1. i \in DOMAIN read_buffer
      BY <1>2, <2>1, <2>2
    <3> QED
      BY <1>7, <2>2, <3>1, <2>1 DEF BufferInv
  <2>3. CASE ~(i <= Len(read_buffer))
    <3>1. i - Len(read_buffer) \in 1..(read_to' - read_to)
      BY <1>2, <1>4, <2>1, <2>3
    <3>2. t[i - Len(read_buffer)] = read_to + (i - Len(read_buffer))
      BY <1>6, <3>1
    <3>3. read_buffer'[i] = read_to + (i - Len(read_buffer))
      BY <1>7, <1>9, <2>3, <3>2
    <3> QED
      BY <1>2, <1>8, <2>1, <3>3
  <2> QED
    BY <2>2, <2>3
<1>10. Len(read_buffer') <= read_to'
  BY <1>2, <1>4, <1>7 DEF BufferInv
<1> QED
  BY <1>1, <1>8, <1>9, <1>10 DEF BufferInv, netVars

\* The first line of the buffer is the next line of the stream.
LEMMA LineHandedOver ==
  ASSUME TypeInv, BufferInv, HandLine
  PROVE  BufferInv' /\ Reading!HandOver
<1> DEFINE P == 1..Len(stream)
           n == Len(read_buffer)
<1>1. PICK i \in Newlines :
        /\ pc = "lines" /\ pc' = pc
        /\ \A j \in Newlines : i <= j
        /\ delivered' = Append(delivered, LineBefore(i))
        /\ read_buffer' = SubSeq(read_buffer, i + 1, n)
        /\ UNCHANGED <<read_to, stream>>
  BY DEF HandLine, netVars
<1>2. /\ read_buffer \in Seq(P) /\ DOMAIN read_buffer = 1..n
      /\ n \in Nat /\ read_to \in Nat /\ Len(stream) \in Nat
      /\ n <= read_to /\ \A k \in 1..n : read_buffer[k] = From + k - 1
  BY ReadTypes DEF BufferInv
<1>3. From \in Nat \ {0} /\ From = read_to - n + 1
  <2>1. From = read_to - n + 1
    BY DEF From, n
  <2>2. \A x, y \in Nat : y <= x => x - y + 1 \in Nat \ {0}
    OBVIOUS
  <2> QED
    BY <1>2, <2>1, <2>2
<1>4. i \in 1..n /\ i \in Nat /\ stream[read_buffer[i]] = "lf"
  BY <1>1, <1>2 DEF Newlines
<1> HIDE DEF P, n
<1> DEFINE e == From + i - 1
<1>5. /\ read_buffer[i] = e /\ stream[e] = "lf" /\ e \in Nat
      /\ e \in From..Len(stream)
  <2>1. read_buffer[i] = e /\ read_buffer[i] \in P
    BY <1>2, <1>4, ElementOfSeq DEF n
  <2> QED
    BY <1>2, <1>3, <1>4, <2>1 DEF P
<1>6. \A f \in From..(e - 1) : stream[f] # "lf"
  <2> SUFFICES ASSUME NEW f \in From..(e - 1), stream[f] = "lf" PROVE FALSE
    OBVIOUS
  <2> DEFINE k == f - From + 1
  <2>1. k \in 1..n /\ k < i /\ k \in Nat /\ From + k - 1 = f
    BY <1>2, <1>3, <1>4
  <2>2. read_buffer[k] = f
    BY <1>2, <2>1
  <2>3. k \in Newlines
    BY <1>2, <2>1, <2>2 DEF Newlines
  <2> HIDE DEF k
  <2>4. i <= k
    BY <1>1, <2>3
  <2> QED
    BY <1>4, <2>1, <2>4
<1>7. ASSUME NEW b \in 0..i
      PROVE  SubSeq(read_buffer, 1, b) = Reading!Span(From, From + b - 1)
  <2> DEFINE s == SubSeq(read_buffer, 1, b)
             t == Reading!Span(From, From + b - 1)
  <2>1. b \in Nat /\ b <= n /\ 1 \in Nat \ {0} /\ From + b - 1 - From + 1 = b
    BY <1>2, <1>3, <1>4
  <2>2. s \in Seq(P) /\ Len(s) = b /\ \A k \in 1..b : s[k] = read_buffer[k]
    <3>1. /\ s \in Seq(P) /\ Len(s) = (IF 1 <= b THEN b - 1 + 1 ELSE 0)
          /\ \A k \in 1..(b - 1 + 1) : s[k] = read_buffer[1 + k - 1]
      BY <1>2, <2>1, PartTypes DEF n
    <3>2. (b - 1 + 1) = b /\ (1 <= b \/ b = 0) /\ \A k \in 1..b : 1 + k - 1 = k
      BY <2>1
    <3> QED
      BY <2>1, <3>1, <3>2
  <2>3. t = [k \in 1..b |-> From + k - 1]
    <3> DEFINE m == From + b - 1
    <3>1. m - From + 1 = b
      BY <1>3, <2>1
    <3> HIDE DEF m
    <3>2. Reading!Span(From, m) = [k \in 1..(m - From + 1) |-> From + k - 1]
      BY Zenon DEF Reading!Span
    <3>3. Reading!Span(From, m) = [k \in 1..b |-> From + k - 1]
      BY <3>1, <3>2
    <3> QED
      BY <3>3 DEF m
  <2>4. DOMAIN s = 1..b
    BY <2>2, LenProperties
  <2>5. s \in [1..b -> P]
    BY <2>2, LenProperties
  <2>6. \A k \in 1..b : s[k] = From + k - 1
    BY <1>2, <2>1, <2>2
  <2> HIDE DEF s, t
  <2> QED
    BY <2>3, <2>5, <2>6 DEF s, t
<1>8. LineBefore(i) = Reading!LineTo(e)
  <2>1. e > From <=> i > 1
    BY <1>3, <1>4
  <2>2. ASSUME i > 1 PROVE read_buffer[i - 1] = e - 1
    <3>1. i - 1 \in 1..n /\ From + (i - 1) - 1 = e - 1
      BY <1>2, <1>3, <1>4, <2>2
    <3> QED
      BY <1>2, <3>1
  <2>3. SubSeq(read_buffer, 1, i - 1) = Reading!Span(From, e - 1)
    <3>1. i - 1 \in 0..i /\ From + (i - 1) - 1 = e - 1
      BY <1>3, <1>4
    <3> QED
      BY <1>7, <3>1
  <2>4. ASSUME i > 1 PROVE SubSeq(read_buffer, 1, i - 2) = Reading!Span(From, e - 2)
    <3>1. i - 2 \in 0..i /\ From + (i - 2) - 1 = e - 2
      BY <1>3, <1>4, <2>4
    <3> QED
      BY <1>7, <3>1
  <2> HIDE DEF e
  <2> QED
    BY <2>1, <2>2, <2>3, <2>4 DEF LineBefore, Reading!LineTo
<1>9. /\ Len(read_buffer') = n - i /\ DOMAIN read_buffer' = 1..(n - i)
      /\ \A k \in 1..(n - i) : read_buffer'[k] = read_buffer[i + k]
  <2>1. i + 1 \in Nat \ {0} /\ n \in Int /\ n <= n
    BY <1>2, <1>4
  <2>2. /\ read_buffer' \in Seq(P)
        /\ Len(read_buffer') = IF i + 1 <= n THEN n - (i + 1) + 1 ELSE 0
        /\ \A k \in 1..(n - (i + 1) + 1) : read_buffer'[k] = read_buffer[(i + 1) + k - 1]
    BY <1>1, <1>2, <2>1, PartTypes DEF n
  <2>3. n - (i + 1) + 1 = n - i /\ Len(read_buffer') = n - i
    BY <1>2, <1>4, <2>2
  <2>4. \A k \in 1..(n - i) : (i + 1) + k - 1 = i + k
    BY <1>4
  <2> QED
    BY <2>2, <2>3, <2>4, LenProperties
<1>10. From' = e + 1 /\ From' = From + i
  <2>1. From' = read_to - (n - i) + 1
    BY <1>1, <1>9 DEF From
  <2> QED
    BY <1>2, <1>3, <1>4, <2>1
<1>11. BufferInv'
  <2>1. Len(read_buffer') <= read_to'
    BY <1>1, <1>2, <1>4, <1>9
  <2>2. ASSUME NEW k \in 1..(n - i) PROVE read_buffer'[k] = From' + k - 1
    <3>1. i + k \in 1..n /\ From + (i + k) - 1 = (From + i) + k - 1
      BY <1>2, <1>3, <1>4
    <3>2. read_buffer[i + k] = From + (i + k) - 1
      BY <1>2, <3>1
    <3> QED
      BY <1>9, <1>10, <3>1, <3>2
  <2> QED
    BY <1>9, <2>1, <2>2 DEF BufferInv
<1> HIDE DEF e
<1>12. Reading!HandOver
  BY <1>1, <1>5, <1>6, <1>8, <1>10 DEF Reading!HandOver
<1> QED
  BY <1>11, <1>12

LEMMA LinesStep ==
  TypeInv /\ BufferInv /\ [Next]_vars => BufferInv' /\ [Reading!Next]_(Reading!vars)
<1> SUFFICES ASSUME TypeInv, BufferInv, [Next]_vars
             PROVE  BufferInv' /\ [Reading!Next]_(Reading!vars)
  OBVIOUS
<1>1. ASSUME UNCHANGED <<stream, delivered, read_buffer, read_to>>,
             (pc' # "gone") = (pc # "gone") \/ (pc # "gone" /\ pc' = "gone")
      PROVE  BufferInv' /\ [Reading!Next]_(Reading!vars)
  BY <1>1 DEF BufferInv, From, Reading!Next, Reading!Close, Reading!vars
<1>2. CASE ReadData
  BY <1>2, ReadAppends DEF Reading!vars
<1>3. CASE HandLine
  BY <1>3, LineHandedOver DEF Reading!Next
<1>4. CASE LoopStep /\ ~ReadData /\ ~HandLine
  <2>1. /\ UNCHANGED <<stream, delivered, read_buffer, read_to>>
        /\ pc # "gone"
    BY <1>4 DEF LoopStep, Poll, OnHangup, OnReadEvent, EndOfPass, HandshakeGoesOn,
       HandshakeFails, Handle, NothingToRead, ReadEnds, NoMoreLines, readVars, netVars,
       tls_handshake_pending
  <2> QED
    BY <1>1, <2>1
<1>5. CASE SetupStep \/ SetupFails
  <2>1. \A i \in DOMAIN Setup : Setup[i] # "gone"
    BY PhaseNames DEF Setup
  <2>2. /\ UNCHANGED <<stream, delivered, read_buffer, read_to>>
        /\ pc # "gone"
    BY <1>5, <2>1 DEF SetupStep, SetupFails, readVars, netVars
  <2> QED
    BY <1>1, <2>2
<1>6. ASSUME NEW n \in DOMAIN Lengths, SendLine(n)
      PROVE  BufferInv' /\ [Reading!Next]_(Reading!vars)
  <2>1. UNCHANGED <<stream, delivered, read_buffer, read_to, pc>>
    BY <1>6 DEF SendLine, SendRefused, SendWhole, SendShort, SendBlocked, SendInPlace,
       SendFails, Sends, readVars, netVars
  <2> QED
    BY <1>1, <2>1
<1>7. CASE \/ SocketWritable \/ ServerAnswers \/ PeerEnds \/ Rejected \/ UNCHANGED vars
           \/ \E n \in 1..Len(stream) : BytesArrive(n)
  <2>1. UNCHANGED <<stream, delivered, read_buffer, read_to, pc>>
    BY <1>7 DEF SocketWritable, ServerAnswers, PeerEnds, Rejected, BytesArrive, vars,
       readVars, netVars
  <2> QED
    BY <1>1, <2>1
<1> QED
  BY <1>2, <1>3, <1>4, <1>5, <1>6, <1>7 DEF Next

\* Every behaviour of a Connection is one of LineStream: its owner is given the
\* lines of the peer, each once, whole and in order, however they are cut into
\* packets, TLS records and reads.
THEOREM ImplementsLineStreamCorrect == Spec => ImplementsLineStream
<1>1. Init => BufferInv /\ Reading!Init
  <2> SUFFICES ASSUME Init PROVE BufferInv /\ Reading!Init
    OBVIOUS
  <2>1. read_buffer = <<>> /\ read_to = 0 /\ Len(<<>>) = 0 /\ DOMAIN <<>> = {}
    BY DEF Init
  <2>2. From = 1 /\ BufferInv
    BY <2>1 DEF From, BufferInv
  <2>3. pc # "gone" /\ delivered = <<>> /\ stream \in Streams
    BY DEF Init
  <2> QED
    BY <2>2, <2>3 DEF Reading!Init
<1> QED
  BY <1>1, TypeInit, TypeStep, LinesStep, PTL DEF Spec, ImplementsLineStream, Reading!Spec

-----------------------------------------------------------------------------
(* What the loop sleeps on.                                                *)

\* The flags are those of the flight that is due, or none; the bytes after the
\* handshake can only have come with the last flight of the server.
HandshakeWaits ==
  /\ type = "WORKER" => handshake = Complete
  /\ tls_handshake_pending =>
       /\ want \in {{}, Wants(handshake)}
       /\ arrived > 0 => handshake = 3

\* A newline is in the buffer only while its lines are being handed over.
LinesOut == pc # "lines" => Newlines = {}

\* Only OpenSSL takes more from the socket than one read returns.
WorkerHolds == type = "WORKER" => held = read_to

WakeInv == HandshakeWaits /\ LinesOut /\ WorkerHolds

LEMMA WakeInit == Init => WakeInv
<1> SUFFICES ASSUME Init PROVE WakeInv
  OBVIOUS
<1>1. DOMAIN read_buffer = {}
  BY DEF Init
<1> QED
  BY <1>1 DEF Init, WakeInv, HandshakeWaits, LinesOut, WorkerHolds, Newlines,
     tls_handshake_pending

\* The steps that neither read nor shake hands: a line loop ends with no line left.
LEMMA QuietWake ==
  ASSUME WakeInv,
         UNCHANGED <<type, handshake, want, stream, arrived, held, read_to, read_buffer>>,
         pc = "lines" => pc' = "lines" \/ Newlines = {}
  PROVE  WakeInv'
BY DEF WakeInv, HandshakeWaits, LinesOut, WorkerHolds, Newlines, tls_handshake_pending,
   Wants

LEMMA HandshakeWake ==
  ASSUME TypeInv, WakeInv, NEW e \in {"in", "out"}, HandshakeGoesOn(e) \/ HandshakeFails(e)
  PROVE  WakeInv'
<1>1. /\ UNCHANGED <<type, stream, arrived, held, read_to, read_buffer>>
      /\ pc = "dispatch" /\ pc' # "lines" /\ type = "POOL" /\ tls_handshake_pending
  BY DEF HandshakeGoesOn, HandshakeFails, Handle, readVars, netVars, tls_handshake_pending
<1>2. LinesOut' /\ WorkerHolds'
  BY <1>1 DEF WakeInv, LinesOut, WorkerHolds, Newlines
<1>3. HandshakeWaits'
  <2>1. CASE HandshakeGoesOn(e)
    <3>1. handshake' = AfterClient /\ want' = Wants(AfterClient)
      BY <2>1 DEF HandshakeGoesOn
    <3>2. handshake = 3 => AfterClient \in {3, Complete}
      BY DEF AfterClient, AfterServer, Complete
    <3>3. Wants(handshake)' = Wants(AfterClient)
      BY <3>1 DEF Wants
    <3> QED
      BY <1>1, <3>1, <3>2, <3>3 DEF WakeInv, HandshakeWaits, tls_handshake_pending
  <2>2. CASE HandshakeFails(e)
    <3>1. handshake' = handshake /\ want' = {}
      BY <2>2 DEF HandshakeFails
    <3> QED
      BY <1>1, <3>1 DEF WakeInv, HandshakeWaits, tls_handshake_pending
  <2> QED
    BY <2>1, <2>2
<1> QED
  BY <1>2, <1>3 DEF WakeInv

LEMMA ReadWake ==
  ASSUME TypeInv, WakeInv, ReadData \/ HandLine
  PROVE  WakeInv'
<1>1. /\ UNCHANGED <<type, handshake, want, stream, arrived>>
      /\ pc' = "lines"
  BY DEF ReadData, HandLine, objectVars, tlsVars, netVars
<1>2. HandshakeWaits' /\ LinesOut'
  BY <1>1 DEF WakeInv, HandshakeWaits, LinesOut, tls_handshake_pending, Wants
<1>3. WorkerHolds'
  BY <1>1 DEF ReadData, HandLine, WakeInv, WorkerHolds
<1> QED
  BY <1>2, <1>3 DEF WakeInv

LEMMA WakeStep == TypeInv /\ WakeInv /\ [Next]_vars => WakeInv'
<1> SUFFICES ASSUME TypeInv, WakeInv, [Next]_vars PROVE WakeInv'
  OBVIOUS
<1>1. CASE ReadData \/ HandLine
  BY <1>1, ReadWake
<1>2. ASSUME NEW e \in {"in", "out"}, HandshakeGoesOn(e) \/ HandshakeFails(e)
      PROVE  WakeInv'
  BY <1>2, HandshakeWake
<1>3. CASE \/ Poll \/ OnHangup \/ OnReadEvent \/ EndOfPass
           \/ NothingToRead \/ ReadEnds \/ NoMoreLines \/ Rejected
  <2>1. UNCHANGED <<type, handshake, want, stream, arrived, held, read_to, read_buffer>>
    BY <1>3 DEF Poll, OnHangup, OnReadEvent, EndOfPass, NothingToRead, ReadEnds,
       NoMoreLines, Rejected, Handle, objectVars, tlsVars, readVars, netVars
  <2>2. pc = "lines" => pc' = "lines" \/ Newlines = {}
    BY <1>3 DEF Poll, OnHangup, OnReadEvent, EndOfPass, NothingToRead, ReadEnds,
       NoMoreLines, Rejected, Handle
  <2> QED
    BY <2>1, <2>2, QuietWake
<1>4. CASE SetupStep \/ SetupFails
  <2>1. \A i \in DOMAIN Setup : Setup[i] # "lines"
    BY PhaseNames DEF Setup
  <2>2. UNCHANGED <<type, handshake, want, stream, arrived, held, read_to, read_buffer>>
    BY <1>4 DEF SetupStep, SetupFails, objectVars, tlsVars, readVars, netVars
  <2> QED
    BY <1>4, <2>1, <2>2, QuietWake DEF SetupStep, SetupFails
<1>5. ASSUME NEW n \in DOMAIN Lengths, SendLine(n) PROVE WakeInv'
  <2>1. UNCHANGED <<type, handshake, want, stream, arrived, held, read_to, read_buffer, pc>>
    BY <1>5 DEF SendLine, SendRefused, SendWhole, SendShort, SendBlocked, SendInPlace,
       SendFails, Sends, tlsVars, readVars, netVars
  <2> QED
    BY <2>1, QuietWake
<1>6. CASE SocketWritable \/ ServerAnswers \/ PeerEnds \/ UNCHANGED vars
  <2>1. UNCHANGED <<type, handshake, want, stream, arrived, held, read_to, read_buffer, pc>>
    BY <1>6 DEF SocketWritable, ServerAnswers, PeerEnds, vars, objectVars, tlsVars,
       readVars, netVars
  <2> QED
    BY <2>1, QuietWake
<1>7. ASSUME NEW n \in 1..Len(stream), BytesArrive(n) PROVE WakeInv'
  <2>1. /\ UNCHANGED <<type, handshake, want, stream, held, read_to, read_buffer, pc>>
        /\ handshake \in {3, Complete}
    BY <1>7 DEF BytesArrive, objectVars, tlsVars
  <2> QED
    BY <2>1 DEF WakeInv, HandshakeWaits, LinesOut, WorkerHolds, Newlines,
       tls_handshake_pending, Wants
<1> QED
  BY <1>1, <1>2, <1>3, <1>4, <1>5, <1>6, <1>7 DEF Next, LoopStep

\* No line is left behind for want of an event, however the bytes of the lines are
\* cut, but for those that OpenSSL has already taken from the socket.
THEOREM NoLineBehindCorrect == Spec => []NoLineBehind
<1>1. TypeInv /\ BufferInv /\ WakeInv => NoLineBehind
  <2> SUFFICES ASSUME TypeInv, BufferInv, WakeInv, pc = "poll",
                      NEW e \in 1..arrived, stream[e] = "lf"
               PROVE  \/ e < From
                      \/ "in" \in Events \cap Pollable
                      \/ type = "POOL" /\ e \in (read_to + 1)..held
    BY DEF NoLineBehind
  <2>1. /\ read_to \in Nat /\ held \in Nat /\ arrived \in Nat /\ e \in Nat
        /\ Len(read_buffer) \in Nat /\ DOMAIN read_buffer = 1..Len(read_buffer)
    BY ReadTypes, StreamTypes DEF TypeInv, ConnTypeOK
  <2>2. CASE e <= read_to
    <3> SUFFICES ASSUME ~(e < From) PROVE FALSE
      OBVIOUS
    <3> DEFINE k == e - From + 1
    <3>1. k \in 1..Len(read_buffer) /\ From + k - 1 = e
      BY <2>1, <2>2 DEF From
    <3>2. read_buffer[k] = e
      BY <2>1, <3>1 DEF BufferInv
    <3>3. k \in Newlines
      BY <2>1, <3>1, <3>2 DEF Newlines
    <3> QED
      BY <3>3 DEF WakeInv, LinesOut
  <2>3. CASE read_to < e /\ e <= held
    <3>1. type # "WORKER"
      BY <2>1, <2>3 DEF WakeInv, WorkerHolds
    <3> QED
      BY <2>1, <2>3, <3>1 DEF TypeInv, ConnTypeOK
  <2>4. CASE held < e
    <3>1. arrived > held /\ arrived > 0
      BY <2>1, <2>4
    <3>2. "in" \in Pollable
      BY <3>1 DEF Pollable
    <3>3. tls_handshake_pending => want \in {{}, {"read"}}
      BY <3>1 DEF WakeInv, HandshakeWaits, Wants
    <3>4. "in" \in Events
      BY <3>3 DEF Events
    <3> QED
      BY <3>2, <3>4
  <2> QED
    BY <2>1, <2>2, <2>3, <2>4
<1>2. Init => BufferInv
  <2> SUFFICES ASSUME Init PROVE BufferInv
    OBVIOUS
  <2> QED
    BY DEF Init, BufferInv, From
<1> QED
  BY <1>1, <1>2, TypeInit, TypeStep, LinesStep, WakeInit, WakeStep, PTL DEF Spec

\* Whatever the last SSL_connect left behind, the poll waits for what lets the
\* handshake go on.
THEOREM NoLostWakeupCorrect == Spec => []NoLostWakeup
<1>1. TypeInv /\ WakeInv => NoLostWakeup
  <2> SUFFICES ASSUME TypeInv, WakeInv, tls_handshake_pending
               PROVE  /\ handshake \in {0, 2} /\ room => "out" \in Events \cap Pollable
                      /\ handshake \in {1, 3} /\ (flight \/ peer # "open")
                           => "in" \in Events \cap Pollable
    BY DEF NoLostWakeup
  <2>1. want \in {{}, Wants(handshake)}
    BY DEF WakeInv, HandshakeWaits
  <2>2. ASSUME handshake \in {0, 2}, room PROVE "out" \in Events \cap Pollable
    BY <2>1, <2>2 DEF Wants, Events, Pollable
  <2>3. ASSUME handshake \in {1, 3}, flight \/ peer # "open"
        PROVE  "in" \in Events \cap Pollable
    BY <2>1, <2>3 DEF Wants, Events, Pollable
  <2> QED
    BY <2>2, <2>3
<1> QED
  BY <1>1, TypeInit, TypeStep, WakeInit, WakeStep, PTL DEF Spec

-----------------------------------------------------------------------------
(* The life of the connection.                                             *)

InSetup == \E i \in DOMAIN Setup : pc = Setup[i]

\* What type_, state_ and should_close_ have to do with one another and with pc.
LifeInv ==
  /\ InSetup => type = "POOL" /\ state = "CONNECTING" /\ closing = FALSE
  /\ type = "WORKER" => state = "CONNECTED"
  /\ state = "CONNECTED" => handshake = Complete
  /\ Alive /\ state = "ERROR" => closing

LEMMA LivingPhases ==
  ASSUME pc \in Phases
  PROVE  /\ Alive <=> pc \in {"poll", "dispatch", "read", "lines"}
         /\ InSetup <=> pc \notin {"poll", "dispatch", "read", "lines", "gone"}
<1>1. {Setup[i] : i \in DOMAIN Setup}
        = {"socket", "options", "resolve", "connect", "context", "ssl"}
  BY PhaseNames DEF Setup
<1>2. InSetup <=> pc \in {Setup[i] : i \in DOMAIN Setup}
  BY DEF InSetup
<1> QED
  BY <1>1, <1>2 DEF Alive, Phases

\* How the connection looks to the loop and to its owners.
Alike == UNCHANGED Life!vars

LEMMA SteadyLife ==
  ASSUME TypeInv, LifeInv, Alive' = Alive, InSetup' = InSetup,
         UNCHANGED <<type, state, closing, handshake>>
  PROVE  LifeInv' /\ Alike
BY DEF LifeInv, Alike, Life!vars, Living

\* A living connection that is marked, or was already.
LEMMA MarkedLife ==
  ASSUME TypeInv, LifeInv, Alive, Alive', ~InSetup', closing' = TRUE,
         UNCHANGED <<type, state, handshake>>
  PROVE  LifeInv' /\ (Life!Mark \/ Alike)
<1>1. LifeInv'
  BY DEF LifeInv
<1>2. closing \in BOOLEAN /\ type # "NONE"
  BY DEF TypeInv, ConnTypeOK
<1>3. CASE closing = TRUE
  BY <1>1, <1>3 DEF Alike, Life!vars, Living
<1>4. CASE closing = FALSE
  BY <1>1, <1>2, <1>4 DEF Life!Mark, Living
<1> QED
  BY <1>1, <1>2, <1>3, <1>4

LEMMA HandshakeLife ==
  ASSUME TypeInv, LifeInv, NEW e \in {"in", "out"}, HandshakeGoesOn(e) \/ HandshakeFails(e)
  PROVE  LifeInv' /\ (Life!Next \/ Alike)
<1>1. /\ pc = "dispatch" /\ type = "POOL" /\ handshake # Complete /\ type' = type
      /\ pc' \in {"dispatch", "read"}
  BY DEF HandshakeGoesOn, HandshakeFails, Handle, tls_handshake_pending
<1>2. pc \in Phases /\ pc' \in Phases
  BY <1>1, PhaseNames
<1>3. Alive /\ Alive' /\ ~InSetup'
  BY <1>1, <1>2, LivingPhases, PhaseNames DEF Alive, InSetup, Setup
<1>4. CASE HandshakeGoesOn(e)
  <2>1. state = "CONNECTING" /\ closing' = closing
    BY <1>4 DEF HandshakeGoesOn
  <2>2. CASE state' = state
    BY <1>1, <1>3, <2>1, <2>2 DEF LifeInv, Alike, Life!vars, Living
  <2>3. CASE state' = "CONNECTED" /\ handshake' = Complete
    <3>1. LifeInv'
      BY <1>1, <1>3, <2>3 DEF LifeInv
    <3>2. Life!HandshakeDone
      BY <1>1, <1>3, <2>1, <2>3 DEF Life!HandshakeDone, Living
    <3> QED
      BY <3>1, <3>2 DEF Life!Next
  <2> QED
    BY <1>4, <2>2, <2>3 DEF HandshakeGoesOn
<1>5. CASE HandshakeFails(e)
  <2>1. state' = "ERROR" /\ closing' = TRUE /\ handshake' = handshake
    BY <1>5 DEF HandshakeFails
  <2>2. LifeInv'
    BY <1>1, <1>3, <2>1 DEF LifeInv
  <2>3. state \in {"CONNECTING", "ERROR"}
    BY <1>1 DEF LifeInv, TypeInv, ConnTypeOK
  <2>4. CASE state = "CONNECTING"
    BY <1>1, <1>3, <2>1, <2>2, <2>4 DEF Life!HandshakeFails, Life!Next, Living
  <2>5. CASE state = "ERROR"
    <3>1. closing = TRUE
      BY <1>3, <2>5 DEF LifeInv, TypeInv, ConnTypeOK
    <3> QED
      BY <1>1, <1>3, <2>1, <2>2, <2>5, <3>1 DEF Alike, Life!vars, Living
  <2> QED
    BY <2>3, <2>4, <2>5
<1> QED
  BY <1>4, <1>5

LEMMA SetupLife ==
  ASSUME TypeInv, LifeInv, SetupStep \/ SetupFails
  PROVE  LifeInv' /\ (Life!Next \/ Alike)
<1>1. InSetup
  BY DEF SetupStep, SetupFails, InSetup
<1>2. type = "POOL" /\ state = "CONNECTING" /\ closing = FALSE
  BY <1>1 DEF LifeInv
<1>3. ~Alive
  BY <1>1, LivingPhases DEF TypeInv, ConnTypeOK
<1>4. CASE SetupFails
  <2>1. pc' = "gone" /\ type' = type /\ closing' = closing /\ state' \in {state, "ERROR"}
    BY <1>4 DEF SetupFails
  <2>2. ~Alive' /\ ~InSetup'
    <3>1. pc' \in Phases
      BY <2>1, PhaseNames
    <3>2. \A i \in DOMAIN Setup : Setup[i] # "gone"
      BY PhaseNames DEF Setup
    <3> QED
      BY <2>1, <3>2 DEF Alive, InSetup
  <2> QED
    BY <1>2, <1>3, <2>1, <2>2 DEF LifeInv, Alike, Life!vars, Living
<1>5. CASE SetupStep
  <2>1. UNCHANGED <<type, state, closing, handshake>>
    BY <1>5 DEF SetupStep, objectVars, tlsVars
  <2>2. PICK i \in DOMAIN Setup : pc' = IF i = Len(Setup) THEN "poll" ELSE Setup[i + 1]
    BY <1>5 DEF SetupStep
  <2>3. Len(Setup) = 6
    BY DEF Setup
  <2>4. CASE i = 6
    <3>1. pc' = "poll"
      BY <2>2, <2>3, <2>4
    <3>2. \A k \in DOMAIN Setup : Setup[k] # "poll"
      BY PhaseNames DEF Setup
    <3>3. Alive' /\ ~InSetup'
      BY <3>1, <3>2 DEF Alive, InSetup
    <3>4. Life!Dial
      BY <1>2, <1>3, <2>1, <3>3 DEF Life!Dial, Life!BornAs, Life!Absent, Living
    <3> QED
      BY <1>2, <2>1, <3>3, <3>4 DEF LifeInv, Life!Next
  <2>5. CASE i # 6
    <3>1. i + 1 \in DOMAIN Setup
      BY <2>5, PhaseNames
    <3>2. InSetup' /\ ~Alive'
      BY <2>2, <2>3, <2>5, <3>1 DEF InSetup, Alive
    <3> QED
      BY <1>2, <1>3, <2>1, <3>2 DEF LifeInv, Alike, Life!vars, Living
  <2> QED
    BY <2>4, <2>5
<1> QED
  BY <1>4, <1>5

LEMMA SendLife ==
  ASSUME TypeInv, LifeInv, NEW n \in DOMAIN Lengths, SendLine(n)
  PROVE  LifeInv' /\ (Life!Next \/ Alike)
<1>1. /\ UNCHANGED <<type, state, pc, handshake>>
      /\ pc \in {"poll", "dispatch", "read", "lines"}
  BY DEF SendLine, SendRefused, SendWhole, SendShort, SendBlocked, SendInPlace,
     SendFails, Sends, tlsVars
<1>2. Alive /\ ~InSetup /\ Alive' = Alive /\ InSetup' = InSetup
  BY <1>1, LivingPhases DEF TypeInv, ConnTypeOK, Alive, InSetup
<1>3. closing' = closing \/ closing' = TRUE
  BY DEF SendLine, SendRefused, SendWhole, SendShort, SendBlocked, SendInPlace,
     SendFails, Sends
<1>4. CASE closing' = closing
  BY <1>1, <1>2, <1>4, SteadyLife
<1>5. CASE closing' = TRUE
  BY <1>1, <1>2, <1>5, MarkedLife DEF Life!Next
<1> QED
  BY <1>3, <1>4, <1>5

LEMMA LifeStep == TypeInv /\ LifeInv /\ [Next]_vars => LifeInv' /\ (Life!Next \/ Alike)
<1> SUFFICES ASSUME TypeInv, LifeInv, [Next]_vars
             PROVE  LifeInv' /\ (Life!Next \/ Alike)
  OBVIOUS
<1>p. pc \in Phases
  BY DEF TypeInv, ConnTypeOK
<1>1. CASE SetupStep \/ SetupFails
  BY <1>1, SetupLife
<1>2. ASSUME NEW e \in {"in", "out"}, HandshakeGoesOn(e) \/ HandshakeFails(e)
      PROVE  LifeInv' /\ (Life!Next \/ Alike)
  BY <1>2, HandshakeLife
<1>3. CASE \/ Poll \/ OnReadEvent \/ ReadData \/ NothingToRead \/ HandLine
           \/ NoMoreLines \/ (EndOfPass /\ ~closing)
  <2>1. /\ UNCHANGED <<type, state, closing, handshake>>
        /\ pc \in {"poll", "dispatch", "read", "lines"}
        /\ pc' \in {"poll", "dispatch", "read", "lines"}
    BY <1>3 DEF Poll, OnReadEvent, ReadData, NothingToRead, HandLine, NoMoreLines,
       EndOfPass, Handle, objectVars, tlsVars
  <2>2. pc' \in Phases
    BY <2>1, PhaseNames
  <2>3. Alive /\ ~InSetup /\ Alive' /\ ~InSetup'
    BY <1>p, <2>1, <2>2, LivingPhases, PhaseNames DEF Alive, InSetup, Setup
  <2> QED
    BY <2>1, <2>3, SteadyLife DEF Alive, InSetup
<1>4. CASE OnHangup \/ ReadEnds \/ Rejected
  <2>1. /\ UNCHANGED <<type, state, handshake>> /\ closing' = TRUE
        /\ pc \in {"dispatch", "read", "lines"} /\ pc' \in {"dispatch", "lines"}
    BY <1>4 DEF OnHangup, ReadEnds, Rejected, tlsVars
  <2>2. Alive /\ Alive' /\ ~InSetup'
    BY <1>p, <2>1, LivingPhases, PhaseNames DEF Alive, InSetup, Setup
  <2> QED
    BY <2>1, <2>2, MarkedLife DEF Life!Next
<1>5. CASE EndOfPass /\ closing
  <2>1. /\ UNCHANGED <<type, state, closing, handshake>>
        /\ pc = "dispatch" /\ pc' = "gone"
    BY <1>5 DEF EndOfPass, objectVars, tlsVars
  <2>2. Alive /\ ~Alive' /\ ~InSetup'
    BY <1>p, <2>1, LivingPhases, PhaseNames DEF Alive, InSetup, Setup
  <2>3. Life!Destroy
    BY <1>5, <2>2 DEF Life!Destroy, Living, TypeInv, ConnTypeOK
  <2> QED
    BY <2>1, <2>2, <2>3 DEF LifeInv, Life!Next
<1>6. ASSUME NEW n \in DOMAIN Lengths, SendLine(n)
      PROVE  LifeInv' /\ (Life!Next \/ Alike)
  BY <1>6, SendLife
<1>7. CASE \/ SocketWritable \/ ServerAnswers \/ PeerEnds \/ UNCHANGED vars
           \/ \E n \in 1..Len(stream) : BytesArrive(n)
  <2>1. UNCHANGED <<type, state, closing, handshake, pc>>
    BY <1>7 DEF SocketWritable, ServerAnswers, PeerEnds, BytesArrive, vars, objectVars,
       tlsVars
  <2> QED
    BY <2>1, SteadyLife DEF Alive, InSetup
<1> QED
  BY <1>1, <1>2, <1>3, <1>4, <1>5, <1>6, <1>7 DEF Next, LoopStep

\* The life of a connection, however its set-up, its handshake, its reads and its
\* writes end, is the one that the tables of the loop assume.
THEOREM ImplementsConnLifeCorrect == Spec => ImplementsConnLife
<1>1. Init => LifeInv /\ Life!Init
  <2> SUFFICES ASSUME Init PROVE LifeInv /\ Life!Init
    OBVIOUS
  <2>1. pc \in Phases
    BY TypeInit DEF TypeInv, ConnTypeOK
  <2>2. CASE type = "POOL"
    <3>1. pc = "socket" /\ state = "CONNECTING" /\ closing = FALSE
      BY <2>2 DEF Init
    <3>2. ~Alive
      BY <2>1, <3>1, LivingPhases
    <3> QED
      BY <2>2, <3>1, <3>2 DEF LifeInv, Life!Init, Life!Absent, Living
  <2>3. CASE type = "WORKER"
    <3>1. /\ pc = "poll" /\ state = "CONNECTED" /\ closing = FALSE
          /\ handshake = Complete
      BY <2>3 DEF Init
    <3>2. Alive /\ ~InSetup
      BY <2>1, <3>1, LivingPhases
    <3> QED
      BY <2>3, <3>1, <3>2 DEF LifeInv, Life!Init, Living
  <2> QED
    BY <2>2, <2>3 DEF Init
<1>2. TypeInv /\ LifeInv /\ [Next]_vars => LifeInv' /\ [Life!Next]_(Life!vars)
  BY LifeStep DEF Alike
<1> QED
  BY <1>1, <1>2, TypeInit, TypeStep, PTL DEF Spec, ImplementsConnLife, Life!Spec

=============================================================================
