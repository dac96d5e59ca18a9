--------------------------- MODULE FrameDelivery ---------------------------
(***************************************************************************)
(* What the receive path of the driver promises to the handlers of a       *)
(* message: every frame the receiver sent is handed over at most once, in  *)
(* the order sent, unchanged, and nothing else is.  A frame is sure unless *)
(* the line damaged it or bytes that a damaged header reaches over; a sure *)
(* frame is not lost.                                                      *)
(***************************************************************************)
EXTENDS Naturals, Sequences

VARIABLES
  pending,    \* frames sent and neither handed over nor passed, [frame, sure]
  delivered   \* the frames handed over

vars == <<pending, delivered>>

Init == delivered = <<>>

\* The next frame is handed over; what is passed on the way was not sure.
Deliver ==
  \E k \in 1 .. Len(pending) :
    /\ \A i \in 1 .. k - 1 : ~pending[i].sure
    /\ delivered' = Append(delivered, pending[k].frame)
    /\ pending' = SubSeq(pending, k + 1, Len(pending))

NoneOwed == \A i \in 1 .. Len(pending) : ~pending[i].sure

\* Every sure frame is handed over in the end: what weak fairness of Deliver
\* while a sure frame is pending comes to, said without ENABLED.
Spec == Init /\ [][Deliver]_vars /\ <>[]NoneOwed

=============================================================================
