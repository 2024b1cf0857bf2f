----------------------------- MODULE MuxChannel -----------------------------
(***************************************************************************)
(* What the mux framing layer promises the host: the mux packets the      *)
(* device writes on its bulk IN endpoint are handed to the protocol       *)
(* handlers (version, control, TCP input of src/device.cpp) whole, once   *)
(* each, in the order written, and every written packet is eventually     *)
(* handed over.  Packets are named by their position in the device's      *)
(* write order; only their lengths matter to the framing.                 *)
(***************************************************************************)
EXTENDS Naturals, Sequences

CONSTANTS
    PktLens,    \* the lengths a device packet may have
    NPackets    \* bound: packets the device writes

VARIABLES
    sent,       \* lengths of the packets written so far, in order
    recvd       \* the packets handed to the protocol handlers, by position

vars == <<sent, recvd>>

Init == sent = <<>> /\ recvd = <<>>

Write(len) ==
    /\ Len(sent) < NPackets
    /\ sent' = Append(sent, len)
    /\ UNCHANGED recvd

\* the next packet in write order, whole
Deliver ==
    /\ Len(recvd) < Len(sent)
    /\ recvd' = Append(recvd, Len(recvd) + 1)
    /\ UNCHANGED sent

Next == (\E len \in PktLens : Write(len)) \/ Deliver

Spec == Init /\ [][Next]_vars /\ WF_vars(Deliver)

=============================================================================
