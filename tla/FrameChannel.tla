----------------------------- MODULE FrameChannel -----------------------------
(***************************************************************************)
(* What one direction of a connection promises, and what Transport takes   *)
(* for granted: frames arrive whole, in order, and as they were sent; when *)
(* the connection ends, it ends between two frames.                        *)
(***************************************************************************)
EXTENDS Naturals, Sequences

CONSTANT Conversations  \* sequences of frames one side may send

VARIABLES
    messages,   \* the frames to be sent
    sent,       \* how many were sent
    delivered   \* what the other side has received

vars == <<messages, sent, delivered>>

Init == messages \in Conversations /\ sent = 0 /\ delivered = <<>>
Send ==
    /\ sent < Len(messages)
    /\ sent' = sent + 1
    /\ UNCHANGED <<messages, delivered>>
Deliver ==
    /\ Len(delivered) < sent
    /\ delivered' = Append(delivered, messages[Len(delivered) + 1])
    /\ UNCHANGED <<messages, sent>>
Next == Send \/ Deliver
Spec == Init /\ [][Next]_vars
=============================================================================
