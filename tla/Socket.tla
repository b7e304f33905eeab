-------------------------------- MODULE Socket --------------------------------
(***************************************************************************)
(* One TCP connection as the library sees it through websocket::Socket     *)
(* (ws_socket.h): connected(), available(), read(), write(), stop().  On   *)
(* Arduino the class is the platform's Client; on Windows it is            *)
(* platform/win32/ws_socket.h.  The network runs concurrently with the     *)
(* single-threaded program: bytes written by the peer travel on `wire' and *)
(* become readable, in order and in pieces of any size, when they Arrive.  *)
(***************************************************************************)
EXTENDS Integers, Sequences

VARIABLES
  up,     \* TRUE from a successful connect until our own stop()
  peer,   \* "open", "closed" (it sent its last byte) or "gone" (connection lost)
  wire,   \* bytes the peer sent that have not reached us
  rx,     \* bytes that have arrived and are not read yet
  tx      \* bytes given to write() on this connection

socketVars == <<up, peer, wire, rx, tx>>

Byte == 0..255

SocketTypeOK ==
  /\ up \in BOOLEAN
  /\ peer \in {"open", "closed", "gone"}
  /\ wire \in Seq(Byte) /\ rx \in Seq(Byte) /\ tx \in Seq(Byte)

\* A fresh connection: nothing in either direction.
SocketInit ==
  /\ up = TRUE /\ peer = "open"
  /\ wire = <<>> /\ rx = <<>> /\ tx = <<>>

-------------------------------------------------------------------------------
(* The interface. *)

\* A peek succeeds while data is unread, and would block while the peer is
\* there; it sees the end of the stream only when every byte has been read.
Connected == up /\ (peer = "open" \/ wire # <<>> \/ rx # <<>>)

\* available(): a read would return a byte now.
Available == up /\ rx # <<>>

\* write() of a buffer; every caller ignores the number of bytes written.
Write(bytes) == tx' = tx \o bytes

\* stop() shuts both directions down: unread and in-flight bytes are lost.
Stop == /\ up' = FALSE
        /\ wire' = <<>> /\ rx' = <<>>
        /\ UNCHANGED peer

\* connect() stops the old connection and makes a new one on the same object.
Connect == /\ up' = TRUE /\ peer' = "open"
           /\ wire' = <<>> /\ rx' = <<>> /\ tx' = <<>>

\* connect() returns false, and the old connection is stopped all the same.
ConnectFails == Stop /\ UNCHANGED tx

-------------------------------------------------------------------------------
(* The network and the other end of the connection. *)

PeerWrites(bytes) ==
  /\ up /\ peer = "open"
  /\ wire' = wire \o bytes
  /\ UNCHANGED <<up, peer, rx, tx>>

\* The next k bytes of the stream reach us.
Arrive(k) ==
  /\ up /\ k \in 1..Len(wire)
  /\ rx' = rx \o SubSeq(wire, 1, k)
  /\ wire' = SubSeq(wire, k + 1, Len(wire))
  /\ UNCHANGED <<up, peer, tx>>

\* The peer shuts its side down in order: what it sent still arrives.
PeerCloses ==
  /\ up /\ peer = "open"
  /\ peer' = "closed"
  /\ UNCHANGED <<up, wire, rx, tx>>

\* The connection is lost: what is in flight never arrives, and the stack may
\* also throw away what it had received.
PeerVanishes ==
  /\ up /\ peer # "gone"
  /\ peer' = "gone"
  /\ wire' = <<>> /\ rx' \in {rx, <<>>}
  /\ UNCHANGED <<up, tx>>
===============================================================================
