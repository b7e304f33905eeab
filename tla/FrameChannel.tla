----------------------------- MODULE FrameChannel -----------------------------
(***************************************************************************)
(* What the frame reader promises its application, without bytes, parser   *)
(* or sockets: the handlers are called for the peer's frames one by one,   *)
(* in order, until our side stops, and none is held back while the         *)
(* connection works.  A frame without a handler blocks those behind it:    *)
(* the reader stops the connection there.                                  *)
(***************************************************************************)
EXTENDS Naturals, Sequences

CONSTANTS
  Frames,     \* what the peer may send: records with an event
  NoHandler   \* the event of a frame that has no handler

VARIABLES
  status,     \* "open", "broken" (the network lost it) or "stopped" (by us)
  sent,       \* the frames the peer sent
  delivered   \* the handler calls made

vars == <<status, sent, delivered>>

Init == status = "open" /\ sent = <<>> /\ delivered = <<>>

Send(f) ==
  /\ status = "open"
  /\ sent' = Append(sent, f)
  /\ UNCHANGED <<status, delivered>>

\* The oldest frame that is not delivered.
NextEvent == sent[Len(delivered) + 1].event

\* What had arrived before the connection broke may still be delivered.
Deliver ==
  /\ status # "stopped"
  /\ Len(delivered) < Len(sent) /\ NextEvent # NoHandler
  /\ delivered' = Append(delivered, NextEvent)
  /\ UNCHANGED <<status, sent>>

Break ==
  /\ status = "open" /\ status' = "broken"
  /\ UNCHANGED <<sent, delivered>>

Stop ==
  /\ status # "stopped" /\ status' = "stopped"
  /\ UNCHANGED <<sent, delivered>>

Next == (\E f \in Frames : Send(f)) \/ Deliver \/ Break \/ Stop

Spec == /\ Init /\ [][Next]_vars
        /\ WF_vars(Deliver /\ status = "open")
===============================================================================
