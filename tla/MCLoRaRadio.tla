----------------------------- MODULE MCLoRaRadio -----------------------------
(* An instance of LoRaRadio for TLC: a packet for the satellite, one too long  *)
(* for two to fit the FIFO, one for another, one too short; a FIFO that wraps, *)
(* a boot message that fits and one that is cut.                               *)
EXTENDS LoRaRadio

Packet(to, from, size) == [to |-> to, from |-> from, size |-> size]
MCPackets == {Packet(Local, Remote, 3), Packet(Local, Remote, 5), Packet("other", Remote, 4),
              Packet(Local, "other", 3), Packet(Local, Remote, 1)}
MCBootSizes == <<1, 4>>
MCReplies == {<<>>, <<2>>, <<4, 1>>}
=============================================================================
