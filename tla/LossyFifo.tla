------------------------------ MODULE LossyFifo ------------------------------
(***************************************************************************)
(* What BaseNetworkModel's pair of packet queues promises to the packet    *)
(* processors: packets offered by any number of receivers are handled in   *)
(* the order they were offered, each at most once. A packet may be lost,   *)
(* silently, but only when at least Capacity packets are waiting.          *)
(***************************************************************************)
EXTENDS Naturals, Sequences

CONSTANTS
  Data,
  Known,         (* The packets whose type has a processor.                 *)
  Capacity

VARIABLES
  pending,       (* Offered and not yet handled, oldest first.              *)
  handled,       (* What the processors were called with, in order.         *)
  lost           (* Offered and dropped.                                    *)

lossyVars == <<pending, handled, lost>>

LossyInit == pending = << >> /\ handled = << >> /\ lost = {}

Offer(d) ==
  /\ pending' = Append(pending, d)
  /\ UNCHANGED <<handled, lost>>

Lose(d) ==
  /\ Len(pending) >= Capacity
  /\ lost' = lost \cup {d}
  /\ UNCHANGED <<pending, handled>>

(* A packet of an unknown type is deleted without a call.                   *)
Handle ==
  /\ pending # << >>
  /\ pending' = Tail(pending)
  /\ handled' = IF Head(pending) \in Known THEN Append(handled, Head(pending))
                                           ELSE handled
  /\ UNCHANGED lost

LossyNext == Handle \/ \E d \in Data : Offer(d) \/ Lose(d)

LossySpec == LossyInit /\ [][LossyNext]_lossyVars
=============================================================================
