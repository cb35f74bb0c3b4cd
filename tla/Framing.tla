------------------------------- MODULE Framing -------------------------------
(***************************************************************************)
(* The frames of the GDB remote serial protocol, as the parser of          *)
(* ckb-gdb-remote-protocol recognises them in a sequence of bytes.         *)
(*                                                                         *)
(* Bytes are abstracted to the classes the parser tells apart: "$", "#",   *)
(* "+", "-", "^C" (0x03) and "x" (a hexadecimal digit); every other byte   *)
(* is a member of Word.  A command word, which takes many bytes on the     *)
(* wire, is one member of Word: no property depends on its spelling.       *)
(***************************************************************************)
EXTENDS Naturals, Sequences

CONSTANTS Word,      (* bytes with no meaning to the framing layer         *)
          NoAckWord  (* the word of the QStartNoAckMode command            *)

Mark == {"$", "#", "+", "-", "^C", "x"}

ASSUME WordAssumption == NoAckWord \in Word /\ Word \cap Mark = {}

Byte == Word \cup Mark

(* "$", a body without "#", "#", and a checksum of two hex digits.  The    *)
(* body may be empty, and may contain any other byte, "$" and "+" too; the *)
(* checksum has to be two hex digits and is compared with nothing.         *)
IsPacket(s, p, q) ==
  /\ p + 3 <= q
  /\ q <= Len(s)
  /\ s[p] = "$"
  /\ \A i \in (p + 1) .. (q - 3) : s[i] # "#"
  /\ s[q - 2] = "#"
  /\ s[q - 1] = "x" /\ s[q] = "x"

(* Packet::Ack, Packet::Nack and Packet::Interrupt are one byte each.      *)
IsResponse(s, p, q) ==
  /\ p = q
  /\ q <= Len(s)
  /\ s[p] \in {"+", "-", "^C"}

(* What run_parser returns for the bytes of s from p on: the frame p..q,   *)
(* or nothing when no q qualifies (Incomplete and Error are both None).    *)
IsFrame(s, p, q) == IsPacket(s, p, q) \/ IsResponse(s, p, q)

(* A packet whose whole body is the QStartNoAckMode command.               *)
IsNoAck(s, p, q) == IsPacket(s, p, q) /\ q = p + 4 /\ s[p + 1] = NoAckWord
=============================================================================
