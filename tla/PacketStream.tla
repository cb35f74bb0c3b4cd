---------------------------- MODULE PacketStream -----------------------------
(***************************************************************************)
(* process_packets_from of ckb-gdb-remote-protocol: the loop that reads    *)
(* the peer's byte stream in arbitrary chunks into a fixed buffer, parses  *)
(* frames out of it, acknowledges and executes the packets, and moves the  *)
(* unparsed tail to the front of the buffer.                               *)
(*                                                                         *)
(* The peer may send anything, and may close or reset the connection at    *)
(* any moment.  The handler is a black box here: executing a command is    *)
(* recorded by the position of its packet in the stream.                   *)
(***************************************************************************)
EXTENDS Framing

CONSTANTS Messages,   (* the byte sequences the peer sends as a unit       *)
          Capacity,   (* MAX_PACKET_SIZE                                   *)
          MaxStream   (* bound: bytes the peer sends in a behaviour        *)

ASSUME MessagesAssumption == Messages \subseteq Seq(Byte)
ASSUME CapacityAssumption == Capacity \in Nat \ {0}
ASSUME MaxStreamAssumption == MaxStream \in Nat

VARIABLES stream,     (* every byte the peer has sent                      *)
          peer,       (* "open", "eof" (closed in order), "reset", or      *)
                      (* "broken" (a write to it has failed)               *)
          pc,         (* where the loop is: "read", "parse", "handle",     *)
                      (* "closed"                                          *)
          buf,        (* buf[0..endbuf] of the code                        *)
          base,       (* how many bytes compaction has dropped from buf    *)
          parsed,     (* bytes of buf already parsed                       *)
          current,    (* "handle": the end of the packet being handled     *)
          ack_mode,   (* acknowledge packets with "+"                      *)
          out,        (* what has been written to the peer                 *)
          executed    (* positions of the packets the handler has executed *)

vars == <<stream, peer, pc, buf, base, parsed, current, ack_mode, out, executed>>

(* The stream position of the first byte that is not dealt with, minus 1.  *)
Cursor == base + parsed

Written(k, n) == [kind |-> k, at |-> n]
Reply == [kind : {"ack", "response"}, at : Nat \ {0}]

Init ==
  /\ stream = <<>>
  /\ peer = "open"
  /\ pc = "read"
  /\ buf = <<>>
  /\ base = 0
  /\ parsed = 0
  /\ current = 0
  /\ ack_mode = TRUE
  /\ out = <<>>
  /\ executed = <<>>

-----------------------------------------------------------------------------
(* The peer (gdb at the other end of the TCP stream).                      *)

PeerSend(m) ==
  /\ peer = "open"
  /\ Len(stream) + Len(m) <= MaxStream
  /\ stream' = stream \o m
  /\ UNCHANGED <<peer, pc, buf, base, parsed, current, ack_mode, out, executed>>

PeerClose(how) ==
  /\ peer = "open"
  /\ peer' = how
  /\ UNCHANGED <<stream, pc, buf, base, parsed, current, ack_mode, out, executed>>

(* Writes succeed while the peer is there.  After it has gone a write may  *)
(* still be taken by the kernel; the first one that fails is the last.     *)
WriteOk == peer # "broken"
WriteFails == peer # "open"

-----------------------------------------------------------------------------
(* Mutant: the chunk is read to the start of buf instead of to endbuf.     *)
Filled_OverwritesTail(n) == SubSeq(stream, base + Len(buf) + 1, base + Len(buf) + n)

(* reader.read(&mut buf[endbuf..]) appends the next n bytes of the stream. *)
Filled(n) == buf \o SubSeq(stream, base + Len(buf) + 1, base + Len(buf) + n)

Fits(n) == Len(buf) + n <= Capacity

(* A read returns between 1 byte and as many as are available and fit.     *)
Read(n) ==
  /\ pc = "read"
  /\ base + Len(buf) + n <= Len(stream)
  /\ Fits(n)
  /\ buf' = Filled(n)
  /\ parsed' = 0
  /\ pc' = "parse"
  /\ UNCHANGED <<stream, peer, base, current, ack_mode, out, executed>>

(* Ok(0) or Err: end of stream, a reset connection, or no room in buf (a   *)
(* read into an empty slice returns 0).  The loop breaks.                  *)
ReadEnds ==
  /\ pc = "read"
  /\ \/ peer = "eof" /\ base + Len(buf) = Len(stream)
     \/ peer \in {"reset", "broken"}
     \/ Len(buf) = Capacity
  /\ pc' = "closed"
  /\ UNCHANGED <<stream, peer, buf, base, parsed, current, ack_mode, out, executed>>

(* A packet: "+" first, when ack_mode is on ...                            *)
ParsePacket ==
  /\ pc = "parse"
  /\ \E q \in (parsed + 1) .. Len(buf) :
       IsPacket(buf, parsed + 1, q) /\ current' = q
  /\ ack_mode => WriteOk
  /\ out' = IF ack_mode THEN Append(out, Written("ack", Cursor + 1)) ELSE out
  /\ pc' = "handle"
  /\ UNCHANGED <<stream, peer, buf, base, parsed, ack_mode, executed>>

(* ... and when that write fails the function returns at once.             *)
AckFails ==
  /\ pc = "parse"
  /\ \E q \in (parsed + 1) .. Len(buf) : IsPacket(buf, parsed + 1, q)
  /\ ack_mode
  /\ WriteFails
  /\ peer' = "broken"
  /\ pc' = "closed"
  /\ UNCHANGED <<stream, buf, base, parsed, current, ack_mode, out, executed>>

(* Mutant: no_ack_mode, the result of handle_packet, is not looked at.     *)
AckModeAfter_Ignored(answered) == ack_mode

(* Mutant: a failed write of the response does not make the result false.  *)
AckModeAfter_Unanswered(answered) == ack_mode /\ ~IsNoAck(buf, parsed + 1, current)

(* QStartNoAckMode turns acknowledgements off, unless its response could   *)
(* not be written (unwrap_or(false)).                                      *)
AckModeAfter(answered) == ack_mode /\ ~(answered /\ IsNoAck(buf, parsed + 1, current))

(* Mutant: the end of the previous frame.                                  *)
PacketStart_OffByOne == Cursor

PacketStart == Cursor + 1

(* handle_packet runs the command and writes the response.  A failed write *)
(* is ignored: the command has run all the same.                           *)
Handle(answered) ==
  /\ pc = "handle"
  /\ IF answered THEN WriteOk /\ UNCHANGED peer
                 ELSE WriteFails /\ peer' = "broken"
  /\ executed' = Append(executed, PacketStart)
  /\ out' = IF answered THEN Append(out, Written("response", PacketStart)) ELSE out
  /\ ack_mode' = AckModeAfter(answered)
  /\ parsed' = current
  /\ current' = 0
  /\ pc' = "parse"
  /\ UNCHANGED <<stream, buf, base>>

(* "+", "-" and ^C are consumed and have no effect.                        *)
ParseResponse ==
  /\ pc = "parse"
  /\ \E q \in (parsed + 1) .. Len(buf) :
       IsResponse(buf, parsed + 1, q) /\ parsed' = q
  /\ UNCHANGED <<stream, peer, pc, buf, base, current, ack_mode, out, executed>>

(* Mutant: one frame per read ("if let" for "while let").                  *)
NoFrame_OneOnly == TRUE

NoFrame == ~\E q \in (parsed + 1) .. Len(buf) : IsFrame(buf, parsed + 1, q)

(* Mutant: the whole buffer is dropped, an incomplete packet included.     *)
Dropped_All == Len(buf)

Dropped == parsed

(* Mutant: the copied range starts one byte early.                         *)
Moved_OffByOne == SubSeq(buf, IF Dropped = 0 THEN 1 ELSE Dropped, Len(buf))

Moved == SubSeq(buf, Dropped + 1, Len(buf))

(* No frame at the head of the rest: copy_within moves the rest to the     *)
(* front of the buffer.                                                    *)
Compact ==
  /\ pc = "parse"
  /\ NoFrame
  /\ buf' = Moved
  /\ base' = base + Dropped
  /\ parsed' = 0
  /\ pc' = "read"
  /\ UNCHANGED <<stream, peer, current, ack_mode, out, executed>>

Server ==
  \/ \E n \in 1 .. Capacity : Read(n)
  \/ ReadEnds
  \/ ParsePacket
  \/ AckFails
  \/ \E answered \in BOOLEAN : Handle(answered)
  \/ ParseResponse
  \/ Compact

(* A closed session stays closed; the caller accepts the next connection.  *)
Closed == pc = "closed" /\ UNCHANGED vars

Next ==
  \/ \E m \in Messages : PeerSend(m)
  \/ \E how \in {"eof", "reset"} : PeerClose(how)
  \/ Server
  \/ Closed

Spec == Init /\ [][Next]_vars

(* The loop is one thread that never waits for anything but the peer.      *)
FairSpec == Spec /\ WF_vars(Server)

-----------------------------------------------------------------------------
(* Properties.                                                             *)

TypeOK ==
  /\ stream \in Seq(Byte)
  /\ peer \in {"open", "eof", "reset", "broken"}
  /\ pc \in {"read", "parse", "handle", "closed"}
  /\ buf \in Seq(Byte)
  /\ base \in Nat /\ parsed \in Nat /\ current \in Nat
  /\ ack_mode \in BOOLEAN
  /\ out \in Seq(Reply)
  /\ executed \in Seq(Nat \ {0})

(* The buffer always holds the bytes of the stream from base on, whatever  *)
(* the chunks the reads return and however often the tail is moved: the    *)
(* cursor arithmetic of read, parse and copy_within neither loses, repeats *)
(* nor reorders a byte, and never leaves the buffer's bounds.              *)
BufferIsWindow ==
  /\ parsed <= Len(buf)
  /\ Len(buf) <= Capacity
  /\ base + Len(buf) <= Len(stream)
  /\ \A i \in 1 .. Len(buf) : buf[i] = stream[base + i]

(* Commands run in the order of the stream, each once and none skipped:    *)
(* every executed position starts a packet that ends before the next       *)
(* executed position, so part of a packet is never run as another one; and *)
(* every byte the loop has moved past belongs to an executed packet or is  *)
(* an acknowledgement or interrupt byte.                                   *)
ExecutedInOrder ==
  /\ \A k \in 1 .. Len(executed) :
       \E q \in 1 .. Cursor :
         /\ IsPacket(stream, executed[k], q)
         /\ k < Len(executed) => q < executed[k + 1]
  /\ \A p \in 1 .. Cursor :
       \/ IsResponse(stream, p, p)
       \/ \E k \in 1 .. Len(executed), q \in p .. Cursor :
            executed[k] <= p /\ IsPacket(stream, executed[k], q)

(* Place i of the output holds an answer to QStartNoAckMode.               *)
Announced(i) ==
  out[i].kind = "response" /\ \E q \in 1 .. Len(stream) : IsNoAck(stream, out[i].at, q)

(* The two ends agree on acknowledgements: the server has turned them off  *)
(* exactly when it has told the peer so, by its answer to QStartNoAckMode. *)
ModeIsAnnounced == ~ack_mode <=> \E i \in 1 .. Len(out) : Announced(i)

(* The peer sees for every packet at most one "+" and then at most one     *)
(* response, in the order of the packets, and no "+" once it has been told *)
(* that acknowledgements are off.                                          *)
RepliesInOrder ==
  \A i, j \in 1 .. Len(out) : i < j =>
    /\ \/ out[i].at < out[j].at
       \/ out[i].at = out[j].at /\ out[i].kind = "ack" /\ out[j].kind = "response"
    /\ out[j].kind = "ack" => ~Announced(i)

(* A peer that is still there is dropped only when what it has sent next   *)
(* holds no complete frame within the buffer's capacity: a buffer that     *)
(* fills up while complete packets are in it never ends the session.       *)
DroppedOnlyIfUnframeable ==
  pc = "closed" /\ peer = "open" =>
    /\ Cursor + Capacity <= Len(stream)
    /\ ~\E q \in (Cursor + 1) .. (Cursor + Capacity) : IsFrame(stream, Cursor + 1, q)

(* A complete frame at the head of what is left is eventually dealt with,  *)
(* however its bytes are cut into reads and whatever fills the buffer      *)
(* behind it, unless the session ends first.                               *)
EverythingIsConsumed ==
  \A n \in 0 .. MaxStream :
    (Cursor = n /\ \E q \in (n + 1) .. (n + Capacity) : q <= Len(stream) /\ IsFrame(stream, n + 1, q))
      ~> (Cursor > n \/ pc = "closed")

(* The buffered loop implements the bufferless cursor.                     *)
Abstract == INSTANCE CommandCursor WITH cursor <- Cursor
ImplementsCursor == Abstract!Spec
=============================================================================
