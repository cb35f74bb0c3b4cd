---------------------------- MODULE CommandCursor ----------------------------
(***************************************************************************)
(* What the packet loop of ckb-gdb-remote-protocol promises, without its   *)
(* buffer: a cursor that moves over the peer's byte stream frame by frame, *)
(* executing the command of every packet exactly once and in order, and    *)
(* skipping acknowledgements and interrupts.                               *)
(***************************************************************************)
EXTENDS Framing

VARIABLES stream,    (* every byte the peer has sent                       *)
          cursor,    (* how many of them have been dealt with              *)
          executed   (* the positions of the packets executed, in order    *)

vars == <<stream, cursor, executed>>

Init ==
  /\ stream = <<>>
  /\ cursor = 0
  /\ executed = <<>>

(* The peer appends bytes; what it has sent it cannot take back.          *)
Send ==
  /\ stream' \in Seq(Byte)
  /\ Len(stream) <= Len(stream')
  /\ \A i \in 1 .. Len(stream) : stream'[i] = stream[i]
  /\ UNCHANGED <<cursor, executed>>

Execute ==
  /\ \E q \in (cursor + 1) .. Len(stream) :
       /\ IsPacket(stream, cursor + 1, q)
       /\ cursor' = q
  /\ executed' = Append(executed, cursor + 1)
  /\ UNCHANGED stream

Skip ==
  /\ \E q \in (cursor + 1) .. Len(stream) :
       /\ IsResponse(stream, cursor + 1, q)
       /\ cursor' = q
  /\ UNCHANGED <<stream, executed>>

Next == Send \/ Execute \/ Skip

Spec == Init /\ [][Next]_vars
=============================================================================
