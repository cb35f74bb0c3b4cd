--------------------------- MODULE MCPacketStream ----------------------------
(* PacketStream with a peer that may send anything: packets (an empty one, *)
(* one with a framing byte in its body, one that turns acknowledgements    *)
(* off, one that does not fit in the buffer), an acknowledgement, a stray  *)
(* byte, and a packet whose checksum is no hex number.                     *)
EXTENDS PacketStream

CONSTANT Cmd  (* a command word *)

Packet(body) == <<"$">> \o body \o <<"#", "x", "x">>

MCMessages ==
  {Packet(<<>>), Packet(<<"$">>), Packet(<<NoAckWord>>), Packet(<<Cmd, Cmd, Cmd>>),
   <<"+">>, <<Cmd>>, <<"$", "#", "x", Cmd>>}
=============================================================================
