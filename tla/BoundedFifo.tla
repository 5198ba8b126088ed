---------------------------- MODULE BoundedFifo ----------------------------
(***************************************************************************)
(* What a closable single-producer single-consumer queue promises:         *)
(* first-in first-out delivery through at most Cap places, a producer that *)
(* is turned away only after the close, and a consumer that is told "end"  *)
(* only when the queue is closed and drained.  A push that was under way   *)
(* when the queue was closed may still be accepted.                        *)
(***************************************************************************)
EXTENDS Naturals, Sequences

CONSTANTS Cap, Value

VARIABLES queue,      \* accepted and not yet delivered
          delivered,  \* everything handed to the consumer, in order
          shut,       \* close() has happened
          refused,    \* the producer's last push returned false
          ended       \* the consumer's last pop returned false

fvars == <<queue, delivered, shut, refused, ended>>

Init == /\ queue = <<>>
        /\ delivered = <<>>
        /\ shut = FALSE
        /\ refused = FALSE
        /\ ended = FALSE

Accept(v) == /\ Len(queue) < Cap
             /\ queue' = Append(queue, v)
             /\ UNCHANGED <<delivered, shut, refused, ended>>

Deliver == /\ queue # <<>>
           /\ delivered' = Append(delivered, Head(queue))
           /\ queue' = Tail(queue)
           /\ UNCHANGED <<shut, refused, ended>>

Close == /\ shut' = TRUE
         /\ UNCHANGED <<queue, delivered, refused, ended>>

Refuse == /\ shut
          /\ refused' = TRUE
          /\ UNCHANGED <<queue, delivered, shut, ended>>

End == /\ shut
       /\ queue = <<>>
       /\ ended' = TRUE
       /\ UNCHANGED <<queue, delivered, shut, refused>>

Next == (\E v \in Value : Accept(v)) \/ Deliver \/ Close \/ Refuse \/ End

Spec == Init /\ [][Next]_fvars
=============================================================================
