--------------------------- MODULE MCPacketManager ---------------------------
(* Instances of PacketManager for TLC.                                      *)
EXTENDS PacketManager

\* A read and a write with a close behind them, a read after the close, a
\* command before a write, and a packet of an unknown type.
MixedScripts ==
  {<<"open", "read", "write", "close">>, <<"open", "close", "read">>,
   <<"open", "cmd", "write">>, <<"cmd", "nil">>}
=============================================================================
