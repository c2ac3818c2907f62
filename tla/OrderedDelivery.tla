---------------------------- MODULE OrderedDelivery ----------------------------
(***************************************************************************)
(* What the SDK promises a session's callbacks, without saying how: they   *)
(* are delivered one by one in the order they were accepted, none is lost  *)
(* or repeated, nothing is accepted after the end, and the delivery ends   *)
(* only when everything accepted has been delivered.                       *)
(***************************************************************************)
EXTENDS Naturals, Sequences

CONSTANT Callback

VARIABLES
    accepted,    \* the callbacks accepted so far, in order
    delivered,   \* the callbacks delivered so far, in order
    open,        \* callbacks are still accepted
    ended        \* the delivery has ended

dvars == <<accepted, delivered, open, ended>>

AInit ==
    /\ accepted = <<>>
    /\ delivered = <<>>
    /\ open = TRUE
    /\ ended = FALSE

Accept(cb) ==
    /\ open
    /\ accepted' = Append(accepted, cb)
    /\ UNCHANGED <<delivered, open, ended>>

Finish ==
    /\ open' = FALSE
    /\ UNCHANGED <<accepted, delivered, ended>>

Deliver ==
    /\ ~ended
    /\ Len(delivered) < Len(accepted)
    /\ delivered' = Append(delivered, accepted[Len(delivered) + 1])
    /\ UNCHANGED <<accepted, open, ended>>

End ==
    /\ ~open
    /\ delivered = accepted
    /\ ended' = TRUE
    /\ UNCHANGED <<accepted, delivered, open>>

ANext == (\E cb \in Callback : Accept(cb)) \/ Finish \/ Deliver \/ End

ASpec == AInit /\ [][ANext]_dvars

\* Everything accepted is delivered in the end, and a finished delivery ends.
AFairness == WF_dvars(Deliver) /\ WF_dvars(End)
================================================================================
