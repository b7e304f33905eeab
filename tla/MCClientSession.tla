--------------------------- MODULE MCClientSession ----------------------------
(* A small instance of ClientSession for TLC: honest and other servers, and     *)
(* frames that all have handlers.                                              *)
EXTENDS ClientSession, MCWebSocket, MCClientHandshake

SessionFrames == {Short(Opcode_Text, 1), Short(Opcode_Binary, 2)}
===============================================================================
