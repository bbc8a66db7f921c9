---------------------------- MODULE MCRxPipeline ----------------------------
(* Instances of the reception pipeline for TLC. *)
EXTENDS RxPipeline

\* A request of each kind: with an order and an answer, with an answer and an
\* error, without an answer.
MCRequests == {"toggle", "unknown", "ack"}
MCOneRequest == {"status"}

\* Arguments are evaluated from the left or from the right.
LeftToRight == <<"irq", "pb", "pm", "pe", "qd">>
MCReadOrders == {LeftToRight, Reverse(LeftToRight)}
=============================================================================
