------------------------------ MODULE Channel ------------------------------
(***************************************************************************)
(* What a message queue promises to the threads that share it: every       *)
(* message is received at most once, in the order of sending, and nothing  *)
(* is received that was not sent.                                          *)
(***************************************************************************)
EXTENDS Naturals, Sequences

CONSTANT Messages

VARIABLES
  sent,       (* the messages sent so far                                    *)
  received    (* the messages received so far                                *)

Init == sent = <<>> /\ received = <<>>

Send(msg) ==
  /\ sent' = Append(sent, msg)
  /\ UNCHANGED received

Receive ==
  /\ Len(received) < Len(sent)
  /\ received' = Append(received, sent[Len(received) + 1])
  /\ UNCHANGED sent

Next == Receive \/ \E msg \in Messages : Send(msg)

Spec == Init /\ [][Next]_<<sent, received>>
=============================================================================
