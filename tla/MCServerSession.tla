--------------------------- MODULE MCServerSession ----------------------------
(* A small instance of ServerSession for TLC: clients that send requests of    *)
(* all kinds, in any pieces, and frames that all have handlers.                *)
EXTENDS ServerSession, MCWebSocket, MCServerHandshake

ServiceFrames == {Short(Opcode_Text, 1), Short(Opcode_Ping, 0)}
===============================================================================
