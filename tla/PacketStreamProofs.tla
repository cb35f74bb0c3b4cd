-------------------------- MODULE PacketStreamProofs --------------------------
(***************************************************************************)
(* Theorems about PacketStream for every message set, buffer capacity and  *)
(* stream length: the buffer is a window of the stream, the buffered loop  *)
(* implements the bufferless cursor of CommandCursor, commands and replies *)
(* are in order, both ends agree on acknowledgements, and no session with  *)
(* a frame that fits the buffer is dropped.                                *)
(***************************************************************************)
EXTENDS PacketStream, TLAPS

(* A packet being handled is a packet of the buffer, at the parse offset.  *)
HandlingPacket ==
  pc = "handle" => current \in 1 .. Len(buf) /\ IsPacket(buf, parsed + 1, current)

(* When the loop reads, compaction has left nothing parsed in the buffer.  *)
ReadingAfresh == pc = "read" => parsed = 0

(* The inductive invariant.  BufferIsWindow alone is not inductive: that   *)
(* Handle moves parsed to a place inside the buffer needs HandlingPacket,  *)
(* and that a read does not move the cursor needs ReadingAfresh.           *)
IInv == TypeOK /\ BufferIsWindow /\ HandlingPacket /\ ReadingAfresh

-----------------------------------------------------------------------------
(* Indexing into the second part of a concatenation.                       *)
LEMMA ConcatIndex ==
  ASSUME NEW S, NEW a \in Seq(S), NEW t \in Seq(S),
         NEW i \in (Len(a) + 1) .. (Len(a) + Len(t))
  PROVE  (a \o t)[i] = t[i - Len(a)]
  OBVIOUS

(* Appending one element keeps the type of a sequence.                     *)
LEMMA AppendType ==
  ASSUME NEW S, NEW a \in Seq(S), NEW e \in S
  PROVE  Append(a, e) \in Seq(S)
  OBVIOUS

(* Appending a chunk of the stream keeps the buffer a window (read).       *)
LEMMA AppendChunk ==
  ASSUME NEW s \in Seq(Byte), NEW b \in Seq(Byte), NEW off \in Nat, NEW n \in Nat,
         off + Len(b) + n <= Len(s),
         \A i \in 1 .. Len(b) : b[i] = s[off + i]
  PROVE  LET c == b \o SubSeq(s, off + Len(b) + 1, off + Len(b) + n)
         IN  /\ c \in Seq(Byte)
             /\ Len(c) = Len(b) + n
             /\ \A i \in 1 .. Len(c) : c[i] = s[off + i]
<1> DEFINE t == SubSeq(s, off + Len(b) + 1, off + Len(b) + n)
           c == b \o t
<1>1. t \in Seq(Byte) /\ Len(t) = n /\ \A i \in 1 .. n : t[i] = s[off + Len(b) + i]
  OBVIOUS
<1>2. c \in Seq(Byte) /\ Len(c) = Len(b) + n
  BY <1>1
<1>3. ASSUME NEW i \in 1 .. Len(c)
      PROVE  c[i] = s[off + i]
  <2>1. CASE i <= Len(b)
    BY <1>1, <1>2, <2>1
  <2>2. CASE Len(b) < i
    <3>1. i - Len(b) \in 1 .. n
      BY <1>2, <2>2
    <3>2. c[i] = t[i - Len(b)]
      BY <1>1, <1>2, <2>2, ConcatIndex
    <3> QED
      BY <1>1, <3>1, <3>2
  <2> QED
    BY <1>2, <2>1, <2>2
<1> QED
  BY <1>2, <1>3

(* A packet of the buffer is a packet of the stream, shifted by base.      *)
LEMMA PacketInWindow ==
  ASSUME NEW s \in Seq(Byte), NEW b \in Seq(Byte), NEW off \in Nat,
         off + Len(b) <= Len(s),
         \A i \in 1 .. Len(b) : b[i] = s[off + i],
         NEW p \in Nat \ {0}, NEW q \in Nat, IsPacket(b, p, q)
  PROVE  IsPacket(s, off + p, off + q)
<1>1. p + 3 <= q /\ q <= Len(b)
  BY DEF IsPacket
<1>2. ASSUME NEW i \in (off + p + 1) .. (off + q - 3)
      PROVE  s[i] # "#"
  <2>1. i - off \in (p + 1) .. (q - 3) /\ i - off \in 1 .. Len(b)
    BY <1>1
  <2>2. b[i - off] = s[i]
    BY <2>1
  <2> QED
    BY <2>1, <2>2 DEF IsPacket
<1>3. s[off + p] = b[p] /\ s[off + q] = b[q] /\ s[off + q - 1] = b[q - 1] /\ s[off + q - 2] = b[q - 2]
  <2>1. p \in 1 .. Len(b) /\ q \in 1 .. Len(b) /\ q - 1 \in 1 .. Len(b) /\ q - 2 \in 1 .. Len(b)
    BY <1>1
  <2>2. off + (q - 1) = off + q - 1 /\ off + (q - 2) = off + q - 2
    BY <1>1
  <2> QED
    BY <2>1, <2>2
<1> QED
  BY <1>1, <1>2, <1>3 DEF IsPacket

-----------------------------------------------------------------------------
(* The invariant holds before anything is read.                            *)
LEMMA InitIInv == Init => IInv
  BY CapacityAssumption DEF Init, IInv, TypeOK, BufferIsWindow, HandlingPacket, ReadingAfresh

(* More bytes from the peer keep the window where it is.                   *)
LEMMA PeerSendIInv ==
  ASSUME IInv, NEW m \in Messages, PeerSend(m)
  PROVE  IInv'
<1> USE DEF PeerSend, IInv, TypeOK
<1>1. m \in Seq(Byte)
  BY MessagesAssumption
<1>2. /\ stream' \in Seq(Byte)
      /\ Len(stream) <= Len(stream')
      /\ \A i \in 1 .. Len(stream) : stream'[i] = stream[i]
  BY <1>1
<1>3. TypeOK'
  BY <1>2
<1>4. BufferIsWindow'
  BY <1>2 DEF BufferIsWindow
<1>5. HandlingPacket'
  BY DEF HandlingPacket, IsPacket
<1> QED
  BY <1>3, <1>4, <1>5 DEF ReadingAfresh

(* A read extends the window by the bytes it takes from the stream.        *)
LEMMA ReadIInv ==
  ASSUME IInv, NEW n \in 1 .. Capacity, Read(n)
  PROVE  IInv'
<1> USE CapacityAssumption DEF Read, Filled, Fits, IInv, TypeOK
<1>0. /\ stream \in Seq(Byte) /\ buf \in Seq(Byte) /\ base \in Nat /\ n \in Nat
      /\ base + Len(buf) + n <= Len(stream)
      /\ \A i \in 1 .. Len(buf) : buf[i] = stream[base + i]
      /\ buf' = buf \o SubSeq(stream, base + Len(buf) + 1, base + Len(buf) + n)
  BY DEF BufferIsWindow
<1>1. /\ buf' \in Seq(Byte)
      /\ Len(buf') = Len(buf) + n
      /\ \A i \in 1 .. Len(buf') : buf'[i] = stream[base + i]
  <2> HIDE DEF Read, Filled, Fits, IInv, TypeOK
  <2> QED BY <1>0, AppendChunk
<1>2. TypeOK'
  BY <1>1
<1>3. BufferIsWindow'
  BY <1>1 DEF BufferIsWindow
<1>4. HandlingPacket'
  BY DEF HandlingPacket
<1> QED
  BY <1>2, <1>3, <1>4 DEF ReadingAfresh

(* drain moves the window forward by the bytes it drops.                   *)
LEMMA CompactIInv ==
  ASSUME IInv, Compact
  PROVE  IInv'
<1> USE DEF Compact, Moved, Dropped, IInv, TypeOK
<1>1. parsed <= Len(buf)
  BY DEF BufferIsWindow
<1>2. /\ buf' \in Seq(Byte)
      /\ Len(buf') = Len(buf) - parsed
      /\ \A i \in 1 .. Len(buf') : buf'[i] = buf[parsed + i]
  BY <1>1
<1>3. TypeOK'
  BY <1>2
<1>4. BufferIsWindow'
  <2>0. /\ stream' = stream /\ base' = base + parsed
        /\ Len(buf) \in Nat /\ base \in Nat /\ parsed \in Nat
        /\ BufferIsWindow
    OBVIOUS
  <2>1. ASSUME NEW i \in 1 .. Len(buf')
        PROVE  buf'[i] = stream'[base' + i]
    <3> HIDE DEF Compact, Moved, Dropped, IInv, TypeOK
    <3>1. parsed + i \in 1 .. Len(buf) /\ base + (parsed + i) = base' + i
      BY <1>1, <1>2, <2>0
    <3> QED
      BY <1>2, <2>0, <3>1 DEF BufferIsWindow
  <2>2. Len(buf) <= Capacity /\ base + Len(buf) <= Len(stream)
    BY DEF BufferIsWindow
  <2>3. parsed' = 0 /\ base' = base + parsed /\ stream' = stream
    OBVIOUS
  <2>4. Len(buf) \in Nat /\ Len(stream) \in Nat /\ base \in Nat /\ parsed \in Nat
    OBVIOUS
  <2> HIDE DEF Compact, Moved, Dropped, IInv, TypeOK
  <2>5. 0 <= Len(buf') /\ Len(buf') <= Capacity /\ base + parsed + Len(buf') <= Len(stream)
    BY <1>1, <1>2, <2>2, <2>4, CapacityAssumption
  <2> QED
    BY <2>1, <2>3, <2>5 DEF BufferIsWindow
<1>5. HandlingPacket'
  BY DEF HandlingPacket
<1> QED
  BY <1>3, <1>4, <1>5 DEF ReadingAfresh

(* Executing a command moves the cursor over its packet.                   *)
LEMMA HandleIInv ==
  ASSUME IInv, NEW answered \in BOOLEAN, Handle(answered)
  PROVE  IInv'
<1> USE DEF Handle, IInv, TypeOK
<1>1. current \in 1 .. Len(buf) /\ PacketStart \in Nat \ {0}
  BY DEF HandlingPacket, PacketStart, Cursor
<1>2. TypeOK'
  <2>1. Written("response", PacketStart) \in Reply
    BY <1>1 DEF Written, Reply
  <2>2. out' \in Seq(Reply)
    BY <2>1, AppendType
  <2>3. executed' \in Seq(Nat \ {0})
    BY <1>1, AppendType
  <2>4. ack_mode' \in BOOLEAN
    BY Zenon DEF AckModeAfter
  <2>5. peer' \in {"open", "eof", "reset", "broken"}
    OBVIOUS
  <2> QED
    BY <1>1, <2>2, <2>3, <2>4, <2>5
<1>3. BufferIsWindow'
  BY <1>1 DEF BufferIsWindow
<1>4. HandlingPacket'
  BY DEF HandlingPacket
<1> QED
  BY <1>2, <1>3, <1>4 DEF ReadingAfresh

(* Recognising a packet changes neither the buffer nor the cursor.         *)
LEMMA ParsePacketIInv ==
  ASSUME IInv, ParsePacket
  PROVE  IInv'
<1> USE DEF ParsePacket, IInv, TypeOK
<1>1. PICK q \in (parsed + 1) .. Len(buf) : IsPacket(buf, parsed + 1, q) /\ current' = q
  OBVIOUS
<1>2. TypeOK'
  <2>1. Written("ack", Cursor + 1) \in Reply
    BY DEF Written, Cursor, Reply
  <2>2. out' \in Seq(Reply)
    BY <2>1, AppendType
  <2> QED
    BY <1>1, <2>2
<1>3. BufferIsWindow'
  BY DEF BufferIsWindow
<1>4. HandlingPacket'
  BY <1>1 DEF HandlingPacket, IsPacket
<1> QED
  BY <1>2, <1>3, <1>4 DEF ReadingAfresh

(* The invariant is inductive.                                             *)
LEMMA NextIInv == IInv /\ [Next]_vars => IInv'
<1> SUFFICES ASSUME IInv, [Next]_vars PROVE IInv'
  OBVIOUS
<1> USE DEF IInv, TypeOK, BufferIsWindow, HandlingPacket, ReadingAfresh
<1>1. ASSUME NEW m \in Messages, PeerSend(m) PROVE IInv'
  BY <1>1, PeerSendIInv
<1>2. ASSUME NEW how \in {"eof", "reset"}, PeerClose(how) PROVE IInv'
  BY <1>2 DEF PeerClose, IsPacket
<1>3. ASSUME NEW n \in 1 .. Capacity, Read(n) PROVE IInv'
  BY <1>3, ReadIInv
<1>4. CASE ReadEnds
  BY <1>4 DEF ReadEnds
<1>5. CASE ParsePacket
  BY <1>5, ParsePacketIInv
<1>6. CASE AckFails
  BY <1>6 DEF AckFails
<1>7. ASSUME NEW answered \in BOOLEAN, Handle(answered) PROVE IInv'
  BY <1>7, HandleIInv
<1>8. CASE ParseResponse
  BY <1>8 DEF ParseResponse, IsResponse
<1>9. CASE Compact
  BY <1>9, CompactIInv
<1>10. CASE UNCHANGED vars
  BY <1>10 DEF vars, IsPacket
<1> QED
  BY <1>1, <1>2, <1>3, <1>4, <1>5, <1>6, <1>7, <1>8, <1>9, <1>10 DEF Next, Server, Closed

(* The packet loop's variables always have their types, the output record  *)
(* and the executed positions included.                                    *)
THEOREM TypeCorrect == Spec => []TypeOK
<1>1. IInv => TypeOK
  BY DEF IInv
<1> QED
  BY <1>1, InitIInv, NextIInv, PTL DEF Spec

(* For every buffer capacity and every way of cutting the stream into      *)
(* reads, the buffer of process_packets_from is a window of the stream.    *)
THEOREM BufferIsAlwaysWindow == Spec => []BufferIsWindow
<1>1. IInv => BufferIsWindow
  BY DEF IInv
<1> QED
  BY <1>1, InitIInv, NextIInv, PTL DEF Spec

-----------------------------------------------------------------------------
(* The refinement: a Handle step is the cursor's Execute, ParseResponse is *)
(* Skip, the peer's Send is Send, and every other step leaves the stream,  *)
(* the cursor and the executed commands alone.                             *)

(* Executing the packet in the buffer is executing it in the stream.       *)
LEMMA HandleIsExecute ==
  ASSUME IInv, NEW answered \in BOOLEAN, Handle(answered)
  PROVE  Abstract!Execute
<1> USE DEF Handle, IInv, TypeOK
<1>1. /\ current \in 1 .. Len(buf)
      /\ IsPacket(buf, parsed + 1, current)
  BY DEF HandlingPacket
<1>2. IsPacket(stream, base + (parsed + 1), base + current)
  <2>1. /\ stream \in Seq(Byte) /\ buf \in Seq(Byte) /\ base \in Nat
        /\ parsed + 1 \in Nat \ {0} /\ current \in Nat
        /\ base + Len(buf) <= Len(stream)
        /\ \A i \in 1 .. Len(buf) : buf[i] = stream[base + i]
    BY DEF BufferIsWindow
  <2> HIDE DEF Handle, IInv, TypeOK
  <2> QED BY <1>1, <2>1, PacketInWindow
<1>3. base + (parsed + 1) = Cursor + 1 /\ Cursor' = base + current
  BY <1>1 DEF Cursor
<1>4. Abstract!IsPacket(stream, Cursor + 1, base + current)
  BY <1>2, <1>3 DEF IsPacket, Abstract!IsPacket
<1>5. base + current \in (Cursor + 1) .. Len(stream)
  BY <1>1, <1>2, <1>3 DEF IsPacket, Cursor
<1> QED
  BY <1>3, <1>4, <1>5 DEF Abstract!Execute, PacketStart

(* An acknowledgement of the buffer is one of the stream.                  *)
LEMMA ParseResponseIsSkip ==
  ASSUME IInv, ParseResponse
  PROVE  Abstract!Skip
<1> USE DEF ParseResponse, IInv, TypeOK
<1>1. PICK q \in (parsed + 1) .. Len(buf) : IsResponse(buf, parsed + 1, q) /\ parsed' = q
  OBVIOUS
<1>2. q = parsed + 1 /\ buf[q] = stream[base + q] /\ base + q <= Len(stream)
  BY <1>1 DEF IsResponse, BufferIsWindow
<1>3. Cursor + 1 = base + q /\ Cursor' = base + q
  BY <1>1, <1>2 DEF Cursor
<1>4. Abstract!IsResponse(stream, Cursor + 1, base + q)
  BY <1>1, <1>2, <1>3 DEF IsResponse, Abstract!IsResponse
<1>5. base + q \in (Cursor + 1) .. Len(stream)
  BY <1>2, <1>3 DEF Cursor
<1> QED
  BY <1>3, <1>4, <1>5 DEF Abstract!Skip

(* The peer's bytes are those of the abstract stream.                      *)
LEMMA PeerSendIsSend ==
  ASSUME IInv, NEW m \in Messages, PeerSend(m)
  PROVE  Abstract!Send
<1> USE DEF PeerSend, IInv, TypeOK
<1>1. m \in Seq(Byte)
  BY MessagesAssumption
<1>2. /\ stream' \in Seq(Byte)
      /\ Len(stream) <= Len(stream')
      /\ \A i \in 1 .. Len(stream) : stream'[i] = stream[i]
  BY <1>1
<1>3. UNCHANGED <<Cursor, executed>>
  BY DEF Cursor
<1> QED
  BY <1>2, <1>3 DEF Abstract!Send, Abstract!Byte, Byte, Abstract!Mark, Mark

(* Every step of the loop is a step of the cursor or none at all.         *)
LEMMA StepRefines == IInv /\ [Next]_vars => [Abstract!Next]_(Abstract!vars)
<1> SUFFICES ASSUME IInv, [Next]_vars
             PROVE  Abstract!Next \/ UNCHANGED <<stream, Cursor, executed>>
  BY DEF Abstract!vars
<1>1. ASSUME NEW m \in Messages, PeerSend(m) PROVE Abstract!Next
  BY <1>1, PeerSendIsSend DEF Abstract!Next
<1>2. CASE \E how \in {"eof", "reset"} : PeerClose(how)
  BY <1>2 DEF PeerClose, Cursor
<1>3. ASSUME NEW n \in 1 .. Capacity, Read(n) PROVE UNCHANGED <<stream, Cursor, executed>>
  <2>1. parsed = 0
    BY <1>3 DEF Read, IInv, ReadingAfresh
  <2> QED
    BY <1>3, <2>1 DEF Read, Cursor
<1>4. CASE ReadEnds \/ ParsePacket \/ AckFails
  BY <1>4 DEF ReadEnds, ParsePacket, AckFails, Cursor
<1>5. ASSUME NEW answered \in BOOLEAN, Handle(answered) PROVE Abstract!Next
  BY <1>5, HandleIsExecute DEF Abstract!Next
<1>6. CASE ParseResponse
  BY <1>6, ParseResponseIsSkip DEF Abstract!Next
<1>7. CASE Compact
  BY <1>7 DEF Compact, Moved, Dropped, Cursor, IInv, TypeOK
<1>8. CASE UNCHANGED vars
  BY <1>8 DEF vars, Cursor
<1> QED
  BY <1>1, <1>2, <1>3, <1>4, <1>5, <1>6, <1>7, <1>8 DEF Next, Server, Closed

(* The buffered packet loop implements the bufferless command cursor: the  *)
(* commands of the stream are executed once each and in order, and no      *)
(* frame is skipped, for every buffer capacity and every chunking.         *)
THEOREM PacketStreamImplementsCursor == Spec => ImplementsCursor
<1>1. Init => Abstract!Init
  BY DEF Init, Abstract!Init, Cursor
<1> QED
  BY <1>1, InitIInv, NextIInv, StepRefines, PTL DEF Spec, ImplementsCursor, Abstract!Spec

-----------------------------------------------------------------------------
(* Commands in order, from the cursor alone.                               *)

(* Frames of a window are the frames of the sequence behind it that end    *)
(* within the window.                                                      *)
LEMMA FramesOfWindow ==
  ASSUME NEW s \in Seq(Byte), NEW b \in Seq(Byte), NEW off \in Nat,
         off + Len(b) <= Len(s),
         \A i \in 1 .. Len(b) : b[i] = s[off + i],
         NEW p \in Nat \ {0}, NEW q \in 1 .. Len(b)
  PROVE  /\ IsPacket(b, p, q) <=> IsPacket(s, off + p, off + q)
         /\ IsNoAck(b, p, q) <=> IsNoAck(s, off + p, off + q)
         /\ IsResponse(b, p, q) <=> IsResponse(s, off + p, off + q)
<1>1. IsPacket(b, p, q) => IsPacket(s, off + p, off + q)
  BY PacketInWindow
<1>2. ASSUME IsPacket(s, off + p, off + q) PROVE IsPacket(b, p, q)
  <2>1. p + 3 <= q /\ q <= Len(b)
    BY <1>2 DEF IsPacket
  <2>2. ASSUME NEW i \in (p + 1) .. (q - 3) PROVE b[i] # "#"
    <3>1. i \in 1 .. Len(b) /\ off + i \in (off + p + 1) .. (off + q - 3)
      BY <2>1
    <3>2. b[i] = s[off + i]
      BY <3>1
    <3> QED BY <1>2, <3>1, <3>2 DEF IsPacket
  <2>3. s[off + p] = b[p] /\ s[off + q] = b[q] /\ s[off + q - 1] = b[q - 1] /\ s[off + q - 2] = b[q - 2]
    <3>1. p \in 1 .. Len(b) /\ q \in 1 .. Len(b) /\ q - 1 \in 1 .. Len(b) /\ q - 2 \in 1 .. Len(b)
      BY <2>1
    <3>2. off + (q - 1) = off + q - 1 /\ off + (q - 2) = off + q - 2
      BY <2>1
    <3> QED BY <3>1, <3>2
  <2> QED BY <1>2, <2>1, <2>2, <2>3 DEF IsPacket
<1>3. IsPacket(b, p, q) <=> IsPacket(s, off + p, off + q)
  BY <1>1, <1>2
<1>4. q = p + 4 => b[p + 1] = s[off + p + 1]
  <2> SUFFICES ASSUME q = p + 4 PROVE b[p + 1] = s[off + p + 1]
    OBVIOUS
  <2>1. p + 1 \in 1 .. Len(b) /\ off + (p + 1) = off + p + 1
    OBVIOUS
  <2> QED BY <2>1
<1>5. IsNoAck(b, p, q) <=> IsNoAck(s, off + p, off + q)
  BY <1>3, <1>4 DEF IsNoAck
<1>6. IsResponse(b, p, q) <=> IsResponse(s, off + p, off + q)
  BY DEF IsResponse
<1> QED BY <1>3, <1>5, <1>6

(* A packet has one end.                                                   *)
LEMMA OneEnd ==
  ASSUME NEW s \in Seq(Byte), NEW p \in Nat, NEW q \in Nat, NEW r \in Nat,
         IsPacket(s, p, q), IsPacket(s, p, r)
  PROVE  q = r
<1>1. ASSUME NEW x \in Nat, NEW y \in Nat, IsPacket(s, p, x), IsPacket(s, p, y), x < y PROVE FALSE
  <2>1. s[x - 2] = "#" /\ x - 2 \in (p + 1) .. (y - 3)
    BY <1>1 DEF IsPacket
  <2> QED BY <1>1, <2>1 DEF IsPacket
<1> QED BY <1>1

(* What holds of the commands executed so far stays true.                  *)
LEMMA ExecutedStep == IInv /\ ExecutedInOrder /\ [Next]_vars => ExecutedInOrder'
<1> SUFFICES ASSUME IInv, ExecutedInOrder, [Next]_vars PROVE ExecutedInOrder'
  OBVIOUS
<1>0. /\ stream \in Seq(Byte) /\ executed \in Seq(Nat \ {0})
      /\ Cursor \in Nat /\ Cursor <= Len(stream)
      /\ Cursor' \in Nat
  <2>1. IInv'
    BY NextIInv
  <2> QED BY <2>1 DEF IInv, TypeOK, BufferIsWindow, Cursor
<1> HIDE DEF Cursor
<1>1. CASE Abstract!Send
  <2>1. /\ stream' \in Seq(Byte) /\ 0 + Len(stream) <= Len(stream')
        /\ \A i \in 1 .. Len(stream) : stream[i] = stream'[0 + i]
        /\ Cursor' = Cursor /\ executed' = executed
    BY <1>0, <1>1 DEF Abstract!Send, Abstract!Byte, Byte, Abstract!Mark, Mark
  <2>2. ASSUME NEW x \in Nat \ {0}, NEW q \in 1 .. Cursor
        PROVE  /\ IsPacket(stream, x, q) => IsPacket(stream', x, q)
               /\ IsResponse(stream, x, q) => IsResponse(stream', x, q)
    <3>1. q \in 1 .. Len(stream) /\ 0 \in Nat /\ 0 + x = x /\ 0 + q = q
      BY <1>0
    <3>2. /\ IsPacket(stream, x, q) <=> IsPacket(stream', 0 + x, 0 + q)
          /\ IsResponse(stream, x, q) <=> IsResponse(stream', 0 + x, 0 + q)
      BY <1>0, <2>1, <3>1, FramesOfWindow
    <3> QED BY <3>1, <3>2
  <2>3. \A k \in 1 .. Len(executed) : executed[k] \in Nat \ {0}
    BY <1>0
  <2>4. ASSUME NEW k \in 1 .. Len(executed)
        PROVE  \E q \in 1 .. Cursor :
                 IsPacket(stream', executed[k], q) /\ (k < Len(executed) => q < executed[k + 1])
    BY <2>2, <2>3 DEF ExecutedInOrder
  <2>5. ASSUME NEW p \in 1 .. Cursor
        PROVE  \/ IsResponse(stream', p, p)
               \/ \E k \in 1 .. Len(executed), q \in p .. Cursor :
                    executed[k] <= p /\ IsPacket(stream', executed[k], q)
    <3>1. p \in Nat \ {0} /\ \A q \in p .. Cursor : q \in 1 .. Cursor
      BY <1>0
    <3> QED BY <2>2, <2>3, <3>1 DEF ExecutedInOrder
  <2> QED BY <2>1, <2>4, <2>5 DEF ExecutedInOrder
<1>2. CASE Abstract!Execute
  <2>1. /\ IsPacket(stream, Cursor + 1, Cursor') /\ Cursor' \in (Cursor + 1) .. Len(stream)
        /\ stream' = stream /\ executed' = Append(executed, Cursor + 1)
    BY <1>2 DEF Abstract!Execute, Abstract!IsPacket, IsPacket
  <2>2. /\ Len(executed') = Len(executed) + 1 /\ Len(executed) \in Nat
        /\ \A k \in 1 .. Len(executed) : executed'[k] = executed[k]
        /\ executed'[Len(executed) + 1] = Cursor + 1
    BY <1>0, <2>1
  <2>3. ASSUME NEW k \in 1 .. Len(executed')
        PROVE  \E q \in 1 .. Cursor' :
                 IsPacket(stream', executed'[k], q) /\ (k < Len(executed') => q < executed'[k + 1])
    <3>1. CASE k = Len(executed) + 1
      BY <1>0, <2>1, <2>2, <3>1
    <3>2. CASE k \in 1 .. Len(executed)
      <4>1. PICK q \in 1 .. Cursor :
              IsPacket(stream, executed[k], q) /\ (k < Len(executed) => q < executed[k + 1])
        BY <3>2 DEF ExecutedInOrder
      <4>2. q < executed'[k + 1]
        <5>1. CASE k = Len(executed)
          BY <1>0, <2>2, <4>1, <5>1
        <5>2. CASE k < Len(executed)
          BY <2>2, <3>2, <4>1, <5>2
        <5> QED BY <2>2, <3>2, <5>1, <5>2
      <4>3. q \in 1 .. Cursor'
        BY <1>0, <2>1
      <4> QED BY <2>1, <2>2, <3>2, <4>1, <4>2, <4>3
    <3> QED BY <2>2, <3>1, <3>2
  <2>4. ASSUME NEW p \in 1 .. Cursor'
        PROVE  \/ IsResponse(stream', p, p)
               \/ \E k \in 1 .. Len(executed'), q \in p .. Cursor' :
                    executed'[k] <= p /\ IsPacket(stream', executed'[k], q)
    <3>1. CASE p <= Cursor
      <4>1. p \in 1 .. Cursor
        BY <1>0, <3>1
      <4>2. CASE IsResponse(stream, p, p)
        BY <2>1, <4>2
      <4>3. CASE \E k \in 1 .. Len(executed), q \in p .. Cursor :
                   executed[k] <= p /\ IsPacket(stream, executed[k], q)
        <5>1. PICK k \in 1 .. Len(executed), q \in p .. Cursor :
                     executed[k] <= p /\ IsPacket(stream, executed[k], q)
          BY <4>3
        <5>2. k \in 1 .. Len(executed') /\ q \in p .. Cursor' /\ executed'[k] = executed[k]
          BY <1>0, <2>1, <2>2
        <5> QED BY <2>1, <5>1, <5>2
      <4> QED BY <4>1, <4>2, <4>3 DEF ExecutedInOrder
    <3>2. CASE p > Cursor
      <4> DEFINE k == Len(executed) + 1
      <4>1. k \in 1 .. Len(executed') /\ Cursor' \in p .. Cursor' /\ executed'[k] <= p
        BY <1>0, <2>1, <2>2, <3>2
      <4>2. IsPacket(stream', executed'[k], Cursor')
        BY <2>1, <2>2
      <4> QED BY <4>1, <4>2
    <3> QED BY <1>0, <3>1, <3>2
  <2> QED BY <2>3, <2>4 DEF ExecutedInOrder
<1>3. CASE Abstract!Skip
  <2>1. /\ IsResponse(stream, Cursor + 1, Cursor') /\ Cursor' = Cursor + 1
        /\ stream' = stream /\ executed' = executed
    BY <1>3 DEF Abstract!Skip, Abstract!IsResponse, IsResponse
  <2>2. \A n \in 1 .. Cursor : n \in 1 .. Cursor'
    BY <1>0, <2>1
  <2>3. \A p \in 1 .. Cursor' : p \in 1 .. Cursor \/ IsResponse(stream', p, p)
    BY <1>0, <2>1
  <2>4. \A p \in 1 .. Cursor : \A q \in p .. Cursor : q \in p .. Cursor'
    BY <1>0, <2>1
  <2> QED BY <2>1, <2>2, <2>3, <2>4 DEF ExecutedInOrder
<1>4. CASE UNCHANGED <<stream, Cursor, executed>>
  BY <1>4 DEF ExecutedInOrder
<1> QED BY <1>1, <1>2, <1>3, <1>4, StepRefines DEF Abstract!Next, Abstract!vars

(* For every capacity and chunking the commands of the stream run in their *)
(* order, each once and none skipped.                                      *)
THEOREM CommandsRunInOrder == Spec => []ExecutedInOrder
<1>1. Init => ExecutedInOrder
  BY DEF Init, ExecutedInOrder, Cursor
<1> QED BY <1>1, ExecutedStep, InitIInv, NextIInv, PTL DEF Spec

-----------------------------------------------------------------------------
(* What the peer is told.                                                  *)

(* Everything written answers a packet of the stream.                      *)
RepliesToPackets ==
  \A i \in 1 .. Len(out) : \E q \in 1 .. Len(stream) : IsPacket(stream, out[i].at, q)

(* Everything written is about a packet behind the cursor, but for the     *)
(* acknowledgement of the packet that is being handled.                    *)
RepliesBehindCursor ==
  \A i \in 1 .. Len(out) :
    \/ out[i].at <= Cursor
    \/ pc = "handle" /\ i = Len(out) /\ out[i] = Written("ack", Cursor + 1)

(* Neither ModeIsAnnounced nor RepliesInOrder is inductive: that bytes     *)
(* sent later turn no answered packet into QStartNoAckMode needs           *)
(* RepliesToPackets, and the order of the next reply RepliesBehindCursor.  *)
RInv == RepliesToPackets /\ RepliesBehindCursor /\ ModeIsAnnounced /\ RepliesInOrder

(* The parts of a reply.                                                   *)
LEMMA ReplyParts ==
  ASSUME NEW o \in Seq(Reply), NEW i \in 1 .. Len(o)
  PROVE  o[i].at \in Nat \ {0} /\ o[i].kind \in {"ack", "response"}
<1>1. o[i] \in Reply
  OBVIOUS
<1> QED BY <1>1 DEF Reply

(* More bytes change nothing about the replies.                            *)
LEMMA PeerSendReplies ==
  ASSUME IInv, RInv, NEW m \in Messages, PeerSend(m)
  PROVE  RInv'
<1>1. /\ stream \in Seq(Byte) /\ stream' \in Seq(Byte) /\ 0 + Len(stream) <= Len(stream')
      /\ \A i \in 1 .. Len(stream) : stream[i] = stream'[0 + i]
      /\ UNCHANGED <<Cursor, out, pc, ack_mode>>
      /\ out \in Seq(Reply)
  BY MessagesAssumption DEF PeerSend, IInv, TypeOK, Cursor
<1>2. ASSUME NEW x \in Nat \ {0}, NEW q \in 1 .. Len(stream)
      PROVE  /\ q \in 1 .. Len(stream')
             /\ IsPacket(stream, x, q) <=> IsPacket(stream', x, q)
             /\ IsNoAck(stream, x, q) <=> IsNoAck(stream', x, q)
  <2>1. 0 \in Nat /\ 0 + x = x /\ 0 + q = q
    OBVIOUS
  <2>2. /\ IsPacket(stream, x, q) <=> IsPacket(stream', 0 + x, 0 + q)
        /\ IsNoAck(stream, x, q) <=> IsNoAck(stream', 0 + x, 0 + q)
    BY <1>1, <2>1, FramesOfWindow
  <2> QED BY <1>1, <2>1, <2>2
<1>3. \A i \in 1 .. Len(out) : out[i].at \in Nat \ {0}
  BY <1>1, ReplyParts
<1>4. RepliesToPackets'
  BY <1>1, <1>2, <1>3 DEF RInv, RepliesToPackets
<1>5. RepliesBehindCursor'
  BY <1>1 DEF RInv, RepliesBehindCursor
<1>6. ASSUME NEW i \in 1 .. Len(out) PROVE Announced(i)' <=> Announced(i)
  <2>1. PICK r \in 1 .. Len(stream) : IsPacket(stream, out[i].at, r)
    BY DEF RInv, RepliesToPackets
  <2>2. Announced(i) => Announced(i)'
    BY <1>1, <1>2, <1>3 DEF Announced
  <2>3. ASSUME Announced(i)' PROVE Announced(i)
    <3>1. PICK q \in 1 .. Len(stream') : IsNoAck(stream', out[i].at, q)
      BY <1>1, <2>3 DEF Announced
    <3>2. IsPacket(stream', out[i].at, r) /\ IsPacket(stream', out[i].at, q)
      BY <1>2, <1>3, <2>1, <3>1 DEF IsNoAck
    <3>3. q = r
      BY <1>1, <1>3, <3>2, OneEnd
    <3> QED BY <1>1, <1>2, <1>3, <2>3, <3>1, <3>3 DEF Announced
  <2> QED BY <2>2, <2>3
<1>7. ModeIsAnnounced' /\ RepliesInOrder'
  <2> HIDE DEF Announced
  <2>1. ModeIsAnnounced'
    BY <1>1, <1>6 DEF RInv, ModeIsAnnounced
  <2>2. RepliesInOrder'
    BY <1>1, <1>6 DEF RInv, RepliesInOrder
  <2> QED BY <2>1, <2>2
<1> QED BY <1>4, <1>5, <1>7 DEF RInv

(* One more reply leaves the ones before it as they are.                   *)
LEMMA AppendedReply ==
  ASSUME NEW e \in Reply, out \in Seq(Reply), out' = Append(out, e), stream' = stream
  PROVE  /\ Len(out') = Len(out) + 1 /\ Len(out) \in Nat /\ out'[Len(out) + 1] = e
         /\ \A i \in 1 .. Len(out) : out'[i] = out[i] /\ (Announced(i)' <=> Announced(i))
         /\ \A i \in 1 .. Len(out') : i = Len(out) + 1 \/ i \in 1 .. Len(out)
<1>1. /\ Len(out') = Len(out) + 1 /\ Len(out) \in Nat /\ out'[Len(out) + 1] = e
      /\ \A i \in 1 .. Len(out) : out'[i] = out[i]
  OBVIOUS
<1> QED BY <1>1 DEF Announced

(* The acknowledgement of the packet at the cursor.                        *)
LEMMA ParsePacketReplies ==
  ASSUME IInv, RInv, ParsePacket
  PROVE  RInv'
<1>0. /\ stream \in Seq(Byte) /\ buf \in Seq(Byte) /\ base \in Nat /\ parsed \in Nat
      /\ out \in Seq(Reply) /\ base + Len(buf) <= Len(stream)
      /\ \A i \in 1 .. Len(buf) : buf[i] = stream[base + i]
      /\ UNCHANGED <<stream, Cursor, ack_mode>> /\ Cursor = base + parsed /\ Cursor \in Nat
      /\ pc = "parse" /\ pc' = "handle" /\ ack_mode \in BOOLEAN
  BY DEF IInv, TypeOK, BufferIsWindow, ParsePacket, Cursor
<1>1. CASE ~ack_mode
  <2>1. out' = out
    BY <1>1 DEF ParsePacket
  <2>2. \A i \in 1 .. Len(out) : Announced(i)' <=> Announced(i)
    BY <1>0, <2>1 DEF Announced
  <2>3. RepliesToPackets' /\ RepliesBehindCursor'
    BY <1>0, <2>1 DEF RInv, RepliesToPackets, RepliesBehindCursor
  <2>4. ModeIsAnnounced' /\ RepliesInOrder'
    BY <1>0, <2>1, <2>2 DEF RInv, ModeIsAnnounced, RepliesInOrder
  <2> QED BY <2>3, <2>4 DEF RInv
<1>2. CASE ack_mode
  <2> DEFINE e == Written("ack", Cursor + 1)
  <2>1. e \in Reply /\ e.kind = "ack" /\ e.at = Cursor + 1
    BY <1>0 DEF Written, Reply
  <2>2. out' = Append(out, e)
    BY <1>2 DEF ParsePacket
  <2>3. \E q \in 1 .. Len(stream) : IsPacket(stream, Cursor + 1, q)
    <3>1. PICK q \in (parsed + 1) .. Len(buf) : IsPacket(buf, parsed + 1, q)
      BY DEF ParsePacket
    <3>2. parsed + 1 \in Nat \ {0} /\ q \in Nat /\ base + (parsed + 1) = Cursor + 1
          /\ base + q \in 1 .. Len(stream)
      BY <1>0
    <3>3. IsPacket(stream, base + (parsed + 1), base + q)
      BY <1>0, <3>1, <3>2, PacketInWindow
    <3> QED BY <3>2, <3>3
  <2> HIDE DEF e
  <2>4. /\ Len(out') = Len(out) + 1 /\ Len(out) \in Nat /\ out'[Len(out) + 1] = e
        /\ \A i \in 1 .. Len(out) : out'[i] = out[i] /\ (Announced(i)' <=> Announced(i))
        /\ \A i \in 1 .. Len(out') : i = Len(out) + 1 \/ i \in 1 .. Len(out)
    BY <1>0, <2>1, <2>2, AppendedReply
  <2>5. \A i \in 1 .. Len(out) : ~Announced(i) /\ out[i].at <= Cursor
    BY <1>0, <1>2 DEF RInv, ModeIsAnnounced, RepliesBehindCursor
  <2>6. \A i \in 1 .. Len(out') : i = Len(out) + 1 => ~Announced(i)'
    BY <2>1, <2>4 DEF Announced
  <2>7. RepliesToPackets'
    BY <1>0, <2>1, <2>3, <2>4 DEF RInv, RepliesToPackets
  <2>8. RepliesBehindCursor'
    BY <1>0, <2>4, <2>5 DEF RepliesBehindCursor, e
  <2>9. ModeIsAnnounced'
    BY <1>0, <1>2, <2>4, <2>5, <2>6 DEF ModeIsAnnounced
  <2>10. RepliesInOrder'
    <3> SUFFICES ASSUME NEW i \in 1 .. Len(out'), NEW j \in 1 .. Len(out'), i < j
                 PROVE  /\ \/ out'[i].at < out'[j].at
                           \/ out'[i].at = out'[j].at /\ out'[i].kind = "ack" /\ out'[j].kind = "response"
                        /\ out'[j].kind = "ack" => ~Announced(i)'
      BY DEF RepliesInOrder
    <3>1. i \in 1 .. Len(out)
      BY <2>4
    <3>2. CASE j \in 1 .. Len(out)
      BY <2>4, <3>1, <3>2 DEF RInv, RepliesInOrder
    <3>3. CASE j = Len(out) + 1
      <4>1. out[i].at \in Nat
        BY <1>0, <3>1, ReplyParts
      <4>2. out'[i].at < out'[j].at
        BY <1>0, <2>1, <2>4, <2>5, <3>1, <3>3, <4>1
      <4> QED BY <2>4, <2>5, <3>1, <4>2
    <3> QED BY <2>4, <3>2, <3>3
  <2> QED BY <2>7, <2>8, <2>9, <2>10 DEF RInv
<1> QED BY <1>0, <1>1, <1>2

(* The response, which may announce the end of acknowledgements.           *)
LEMMA HandleReplies ==
  ASSUME IInv, RInv, NEW answered \in BOOLEAN, Handle(answered)
  PROVE  RInv'
<1> DEFINE P == Cursor + 1
           Q == base + current
<1>0. /\ stream \in Seq(Byte) /\ buf \in Seq(Byte) /\ base \in Nat /\ parsed \in Nat
      /\ out \in Seq(Reply) /\ base + Len(buf) <= Len(stream)
      /\ \A i \in 1 .. Len(buf) : buf[i] = stream[base + i]
      /\ current \in 1 .. Len(buf) /\ IsPacket(buf, parsed + 1, current)
      /\ stream' = stream /\ Cursor = base + parsed /\ Cursor \in Nat /\ Cursor' = Q
      /\ pc = "handle" /\ pc' = "parse" /\ ack_mode \in BOOLEAN
      /\ ack_mode' = (ack_mode /\ ~(answered /\ IsNoAck(buf, parsed + 1, current)))
      /\ out' = IF answered THEN Append(out, Written("response", P)) ELSE out
  BY DEF IInv, TypeOK, BufferIsWindow, HandlingPacket, Handle, AckModeAfter, PacketStart, Cursor
<1>1. /\ P \in Nat \ {0} /\ Q \in 1 .. Len(stream) /\ P <= Q
      /\ IsPacket(stream, P, Q)
      /\ IsNoAck(buf, parsed + 1, current) <=> IsNoAck(stream, P, Q)
  <2>1. parsed + 1 \in Nat \ {0} /\ base + (parsed + 1) = P /\ Q \in 1 .. Len(stream)
    BY <1>0
  <2>2. parsed + 1 <= current
    BY <1>0 DEF IsPacket
  <2>3. /\ IsPacket(buf, parsed + 1, current) <=> IsPacket(stream, base + (parsed + 1), base + current)
        /\ IsNoAck(buf, parsed + 1, current) <=> IsNoAck(stream, base + (parsed + 1), base + current)
    BY <1>0, <2>1, FramesOfWindow
  <2> QED BY <1>0, <2>1, <2>2, <2>3
<1>2. Cursor < Q /\ Q \in Nat
  BY <1>0, <1>1
<1>3. (\E q \in 1 .. Len(stream) : IsNoAck(stream, P, q)) <=> IsNoAck(stream, P, Q)
  <2>1. ASSUME NEW q \in 1 .. Len(stream), IsNoAck(stream, P, q) PROVE q = Q
    <3>1. IsPacket(stream, P, q)
      BY <2>1 DEF IsNoAck
    <3> QED BY <1>0, <1>1, <3>1, OneEnd
  <2> QED BY <1>1, <2>1
<1>4. \A i \in 1 .. Len(out) : out[i].at \in Nat \ {0}
  BY <1>0, ReplyParts
<1> HIDE DEF P, Q
<1>5. CASE ~answered
  <2>1. out' = out /\ ack_mode' = ack_mode
    BY <1>0, <1>5
  <2>2. \A i \in 1 .. Len(out) : Announced(i)' <=> Announced(i)
    BY <1>0, <2>1 DEF Announced
  <2>3. RepliesToPackets'
    BY <1>0, <2>1 DEF RInv, RepliesToPackets
  <2>4. RepliesBehindCursor'
    <3> SUFFICES ASSUME NEW i \in 1 .. Len(out) PROVE out[i].at <= Cursor'
      BY <2>1 DEF RepliesBehindCursor
    <3>1. out[i].at <= Cursor \/ out[i].at = P
      BY DEF RInv, RepliesBehindCursor, Written, P
    <3> QED BY <1>0, <1>1, <1>2, <1>4, <3>1
  <2>5. ModeIsAnnounced' /\ RepliesInOrder'
    BY <2>1, <2>2 DEF RInv, ModeIsAnnounced, RepliesInOrder
  <2> QED BY <2>3, <2>4, <2>5 DEF RInv
<1>6. CASE answered
  <2> DEFINE e == Written("response", P)
  <2>1. e \in Reply /\ e.kind = "response" /\ e.at = P
    BY <1>1 DEF Written, Reply
  <2>2. out' = Append(out, e)
    BY <1>0, <1>6
  <2> HIDE DEF e
  <2>3. /\ Len(out') = Len(out) + 1 /\ Len(out) \in Nat /\ out'[Len(out) + 1] = e
        /\ \A i \in 1 .. Len(out) : out'[i] = out[i] /\ (Announced(i)' <=> Announced(i))
        /\ \A i \in 1 .. Len(out') : i = Len(out) + 1 \/ i \in 1 .. Len(out)
    BY <1>0, <2>1, <2>2, AppendedReply
  <2>4. \A i \in 1 .. Len(out') : i = Len(out) + 1 => (Announced(i)' <=> IsNoAck(stream, P, Q))
    BY <1>0, <1>3, <2>1, <2>3 DEF Announced
  <2>5. \A i \in 1 .. Len(out) : out[i].at < P \/ (out[i].at = P /\ out[i].kind = "ack")
    <3> TAKE i \in 1 .. Len(out)
    <3>1. out[i].at <= Cursor \/ (out[i].at = P /\ out[i].kind = "ack")
      BY DEF RInv, RepliesBehindCursor, Written, P
    <3> QED BY <1>0, <1>4, <3>1 DEF P
  <2>6. RepliesToPackets'
    BY <1>0, <1>1, <2>1, <2>3 DEF RInv, RepliesToPackets
  <2>7. RepliesBehindCursor'
    <3> SUFFICES ASSUME NEW i \in 1 .. Len(out') PROVE out'[i].at <= Cursor'
      BY DEF RepliesBehindCursor
    <3>1. out'[i].at <= P /\ out'[i].at \in Nat
      BY <1>1, <1>4, <2>1, <2>3, <2>5
    <3> QED BY <1>0, <1>1, <1>2, <3>1
  <2>8. ModeIsAnnounced'
    <3>1. (\E i \in 1 .. Len(out') : Announced(i)')
             <=> (\E i \in 1 .. Len(out) : Announced(i)) \/ IsNoAck(stream, P, Q)
      BY <2>3, <2>4
    <3>2. ~ack_mode <=> \E i \in 1 .. Len(out) : Announced(i)
      BY DEF RInv, ModeIsAnnounced
    <3>3. ~ack_mode' <=> ~ack_mode \/ IsNoAck(stream, P, Q)
      BY <1>0, <1>1, <1>6
    <3> QED BY <3>1, <3>2, <3>3 DEF ModeIsAnnounced
  <2>9. RepliesInOrder'
    <3> SUFFICES ASSUME NEW i \in 1 .. Len(out'), NEW j \in 1 .. Len(out'), i < j
                 PROVE  /\ \/ out'[i].at < out'[j].at
                           \/ out'[i].at = out'[j].at /\ out'[i].kind = "ack" /\ out'[j].kind = "response"
                        /\ out'[j].kind = "ack" => ~Announced(i)'
      BY DEF RepliesInOrder
    <3>1. i \in 1 .. Len(out)
      BY <2>3
    <3>2. CASE j \in 1 .. Len(out)
      BY <2>3, <3>1, <3>2 DEF RInv, RepliesInOrder
    <3>3. CASE j = Len(out) + 1
      BY <2>1, <2>3, <2>5, <3>1, <3>3
    <3> QED BY <2>3, <3>2, <3>3
  <2> QED BY <2>6, <2>7, <2>8, <2>9 DEF RInv
<1> QED BY <1>5, <1>6

(* Every step keeps the replies in order.                                  *)
LEMMA RepliesStep == IInv /\ RInv /\ [Next]_vars => RInv'
<1> SUFFICES ASSUME IInv, RInv, [Next]_vars PROVE RInv'
  OBVIOUS
<1>1. ASSUME UNCHANGED <<stream, out, ack_mode>>, pc # "handle" \/ pc' = pc,
             Cursor' = Cursor \/ (pc # "handle" /\ Cursor \in Nat /\ Cursor' \in Nat /\ Cursor <= Cursor')
      PROVE  RInv'
  <2>1. out \in Seq(Reply)
    BY DEF IInv, TypeOK
  <2>2. \A i \in 1 .. Len(out) : Announced(i)' <=> Announced(i)
    BY <1>1 DEF Announced
  <2>3. \A i \in 1 .. Len(out) : out[i].at \in Nat
    BY <2>1, ReplyParts
  <2>4. RepliesToPackets'
    BY <1>1 DEF RInv, RepliesToPackets
  <2>5. RepliesBehindCursor'
    BY <1>1, <2>3 DEF RInv, RepliesBehindCursor
  <2>6. ModeIsAnnounced' /\ RepliesInOrder'
    BY <1>1, <2>2 DEF RInv, ModeIsAnnounced, RepliesInOrder
  <2> QED BY <2>4, <2>5, <2>6 DEF RInv
<1>2. ASSUME NEW m \in Messages, PeerSend(m) PROVE RInv'
  BY <1>2, PeerSendReplies
<1>3. CASE \E how \in {"eof", "reset"} : PeerClose(how)
  BY <1>1, <1>3 DEF PeerClose, Cursor
<1>4. ASSUME NEW n \in 1 .. Capacity, Read(n) PROVE RInv'
  BY <1>1, <1>4 DEF Read, IInv, ReadingAfresh, Cursor
<1>5. CASE ReadEnds \/ AckFails
  BY <1>1, <1>5 DEF ReadEnds, AckFails, Cursor
<1>6. CASE ParsePacket
  BY <1>6, ParsePacketReplies
<1>7. ASSUME NEW answered \in BOOLEAN, Handle(answered) PROVE RInv'
  BY <1>7, HandleReplies
<1>8. CASE ParseResponse
  <2>1. Cursor \in Nat /\ Cursor' \in Nat /\ Cursor <= Cursor' /\ UNCHANGED <<stream, out, ack_mode, pc>>
        /\ pc = "parse"
    BY <1>8 DEF ParseResponse, IInv, TypeOK, Cursor
  <2> QED BY <1>1, <2>1
<1>9. CASE Compact
  <2>1. Cursor' = Cursor
    BY <1>9 DEF Compact, Dropped, Cursor, IInv, TypeOK
  <2> QED BY <1>1, <1>9, <2>1 DEF Compact
<1>10. CASE UNCHANGED vars
  BY <1>1, <1>10 DEF vars, Cursor
<1> QED
  BY <1>2, <1>3, <1>4, <1>5, <1>6, <1>7, <1>8, <1>9, <1>10 DEF Next, Server, Closed

(* Nothing has been written at first.                                      *)
LEMMA InitReplies == Init => RInv
  BY DEF Init, RInv, RepliesToPackets, RepliesBehindCursor, ModeIsAnnounced, RepliesInOrder

(* The two ends always agree on whether packets are acknowledged.          *)
THEOREM BothEndsAgreeOnAcks == Spec => []ModeIsAnnounced
<1>1. RInv => ModeIsAnnounced
  BY DEF RInv
<1> QED BY <1>1, InitReplies, RepliesStep, InitIInv, NextIInv, PTL DEF Spec

(* The peer sees acknowledgements and responses in the order of its        *)
(* packets, and no acknowledgement after the answer that ends them.        *)
THEOREM RepliesAreInOrder == Spec => []RepliesInOrder
<1>1. RInv => RepliesInOrder
  BY DEF RInv
<1> QED BY <1>1, InitReplies, RepliesStep, InitIInv, NextIInv, PTL DEF Spec

-----------------------------------------------------------------------------
(* When a session ends.                                                    *)

(* The loop reads only when no frame is left at the head of the buffer.    *)
ReadsOnlyWhenNeeded == pc = "read" => ~\E q \in 1 .. Len(buf) : IsFrame(buf, 1, q)

DInv == ReadsOnlyWhenNeeded /\ DroppedOnlyIfUnframeable

(* Compaction moves no frame to the head of the buffer.                    *)
LEMMA CompactLeavesNoFrame ==
  ASSUME IInv, Compact
  PROVE  ReadsOnlyWhenNeeded'
<1>1. /\ buf \in Seq(Byte) /\ parsed \in Nat /\ parsed <= Len(buf)
      /\ buf' = SubSeq(buf, parsed + 1, Len(buf)) /\ NoFrame
  BY DEF IInv, TypeOK, BufferIsWindow, Compact, Moved, Dropped
<1>2. /\ buf' \in Seq(Byte) /\ Len(buf') = Len(buf) - parsed
      /\ \A i \in 1 .. Len(buf') : buf'[i] = buf[parsed + i]
      /\ parsed + Len(buf') <= Len(buf)
  BY <1>1
<1> SUFFICES ASSUME NEW q \in 1 .. Len(buf'), IsFrame(buf', 1, q) PROVE FALSE
  BY DEF ReadsOnlyWhenNeeded
<1>3. 1 \in Nat \ {0} /\ parsed + q \in (parsed + 1) .. Len(buf)
  BY <1>1, <1>2
<1>4. /\ IsPacket(buf', 1, q) <=> IsPacket(buf, parsed + 1, parsed + q)
      /\ IsResponse(buf', 1, q) <=> IsResponse(buf, parsed + 1, parsed + q)
  BY <1>1, <1>2, <1>3, FramesOfWindow
<1> QED BY <1>1, <1>3, <1>4 DEF NoFrame, IsFrame

(* A full buffer without a frame at its head is a stream without one that  *)
(* fits.                                                                   *)
LEMMA FullBufferIsUnframeable ==
  ASSUME IInv, ReadsOnlyWhenNeeded, ReadEnds
  PROVE  DroppedOnlyIfUnframeable'
<1> SUFFICES ASSUME peer = "open"
             PROVE  /\ Cursor + Capacity <= Len(stream)
                    /\ ~\E q \in (Cursor + 1) .. (Cursor + Capacity) : IsFrame(stream, Cursor + 1, q)
  BY DEF ReadEnds, DroppedOnlyIfUnframeable, Cursor
<1>1. /\ stream \in Seq(Byte) /\ buf \in Seq(Byte) /\ base \in Nat /\ Cursor = base
      /\ Len(buf) = Capacity /\ base + Len(buf) <= Len(stream)
      /\ \A i \in 1 .. Len(buf) : buf[i] = stream[base + i]
      /\ pc = "read"
  BY DEF IInv, TypeOK, BufferIsWindow, ReadingAfresh, ReadEnds, Cursor
<1>2. ASSUME NEW q \in (base + 1) .. (base + Capacity), IsFrame(stream, base + 1, q) PROVE FALSE
  <2>1. q - base \in 1 .. Len(buf) /\ base + (q - base) = q /\ 1 \in Nat \ {0}
    BY <1>1, CapacityAssumption
  <2>2. /\ IsPacket(buf, 1, q - base) <=> IsPacket(stream, base + 1, base + (q - base))
        /\ IsResponse(buf, 1, q - base) <=> IsResponse(stream, base + 1, base + (q - base))
    BY <1>1, <2>1, FramesOfWindow
  <2> QED BY <1>1, <1>2, <2>1, <2>2 DEF IsFrame, ReadsOnlyWhenNeeded
<1> QED BY <1>1, <1>2

(* Bytes sent to a closed session make no frame out of what was dropped.   *)
LEMMA PeerSendDropped ==
  ASSUME IInv, DInv, NEW m \in Messages, PeerSend(m)
  PROVE  DInv'
<1>1. /\ stream \in Seq(Byte) /\ stream' \in Seq(Byte) /\ 0 + Len(stream) <= Len(stream')
      /\ \A i \in 1 .. Len(stream) : stream[i] = stream'[0 + i]
      /\ UNCHANGED <<Cursor, pc, buf, peer>> /\ Cursor \in Nat
  BY MessagesAssumption DEF PeerSend, IInv, TypeOK, Cursor
<1>2. ReadsOnlyWhenNeeded'
  BY <1>1 DEF DInv, ReadsOnlyWhenNeeded
<1>3. ASSUME pc = "closed", peer = "open"
      PROVE  /\ Cursor + Capacity <= Len(stream')
             /\ ~\E q \in (Cursor + 1) .. (Cursor + Capacity) : IsFrame(stream', Cursor + 1, q)
  <2>1. /\ Cursor + Capacity <= Len(stream)
        /\ ~\E q \in (Cursor + 1) .. (Cursor + Capacity) : IsFrame(stream, Cursor + 1, q)
    BY <1>3 DEF DInv, DroppedOnlyIfUnframeable
  <2>2. ASSUME NEW q \in (Cursor + 1) .. (Cursor + Capacity), IsFrame(stream', Cursor + 1, q)
        PROVE  FALSE
    <3>1. /\ q \in 1 .. Len(stream) /\ 0 \in Nat /\ Cursor + 1 \in Nat \ {0}
          /\ 0 + (Cursor + 1) = Cursor + 1 /\ 0 + q = q
      BY <1>1, <2>1, CapacityAssumption
    <3>2. /\ IsPacket(stream, Cursor + 1, q) <=> IsPacket(stream', 0 + (Cursor + 1), 0 + q)
          /\ IsResponse(stream, Cursor + 1, q) <=> IsResponse(stream', 0 + (Cursor + 1), 0 + q)
      BY <1>1, <3>1, FramesOfWindow
    <3> QED BY <2>1, <2>2, <3>1, <3>2 DEF IsFrame
  <2> QED BY <1>1, <2>1, <2>2, CapacityAssumption
<1> QED BY <1>1, <1>2, <1>3 DEF DInv, DroppedOnlyIfUnframeable

(* Every step keeps that.                                                  *)
LEMMA DroppedStep == IInv /\ DInv /\ [Next]_vars => DInv'
<1> SUFFICES ASSUME IInv, DInv, [Next]_vars PROVE DInv'
  OBVIOUS
<1>1. ASSUME pc' \in {"parse", "handle"} PROVE DInv'
  BY <1>1 DEF DInv, ReadsOnlyWhenNeeded, DroppedOnlyIfUnframeable
<1>2. ASSUME NEW m \in Messages, PeerSend(m) PROVE DInv'
  BY <1>2, PeerSendDropped
<1>3. CASE \E how \in {"eof", "reset"} : PeerClose(how)
  BY <1>3 DEF PeerClose, DInv, ReadsOnlyWhenNeeded, DroppedOnlyIfUnframeable
<1>4. CASE \E n \in 1 .. Capacity : Read(n)
  BY <1>1, <1>4 DEF Read
<1>5. CASE ReadEnds
  BY <1>5, FullBufferIsUnframeable DEF ReadEnds, DInv, ReadsOnlyWhenNeeded
<1>6. CASE ParsePacket \/ ParseResponse
  BY <1>1, <1>6 DEF ParsePacket, ParseResponse
<1>7. CASE \E answered \in BOOLEAN : Handle(answered)
  BY <1>1, <1>7 DEF Handle
<1>8. CASE AckFails
  BY <1>8 DEF AckFails, DInv, ReadsOnlyWhenNeeded, DroppedOnlyIfUnframeable
<1>9. CASE Compact
  BY <1>9, CompactLeavesNoFrame DEF Compact, DInv, DroppedOnlyIfUnframeable
<1>10. CASE UNCHANGED vars
  BY <1>10 DEF vars, DInv, ReadsOnlyWhenNeeded, DroppedOnlyIfUnframeable, Cursor
<1> QED
  BY <1>2, <1>3, <1>4, <1>5, <1>6, <1>7, <1>8, <1>9, <1>10 DEF Next, Server, Closed

(* A peer that is still there is dropped only when what it has sent next   *)
(* holds no frame that would fit the buffer, for every capacity.           *)
THEOREM NoFrameIsEverDropped == Spec => []DroppedOnlyIfUnframeable
<1>1. Init => DInv
  BY DEF Init, DInv, ReadsOnlyWhenNeeded, DroppedOnlyIfUnframeable
<1>2. DInv => DroppedOnlyIfUnframeable
  BY DEF DInv
<1> QED BY <1>1, <1>2, DroppedStep, InitIInv, NextIInv, PTL DEF Spec
=============================================================================
