------------------------------ MODULE LogChannel ------------------------------
(***************************************************************************)
(* What the log funnel promises (spec section 4.4): the records each child *)
(* hands to it reach the single consumer in that child's own order, with   *)
(* no record received twice and none made up; the order between children  *)
(* is not fixed.  A child that is terminated may lose records it had not   *)
(* yet handed over, which are always its latest ones.  Every record that   *)
(* is not lost is eventually received.                                     *)
(*                                                                         *)
(* A record carries its child and its number among that child's logging   *)
(* calls; sent[c] is what child c has handed over, recv[c] what the        *)
(* consumer has taken of it, always a prefix of sent[c].                   *)
(***************************************************************************)
EXTENDS Naturals, Sequences, SequencesExt

CONSTANTS
  Children,  \* the producing processes
  Msgs       \* records: [child, n, ...]

VARIABLES sent, recv

vars == <<sent, recv>>

Init ==
  /\ sent = [c \in Children |-> <<>>]
  /\ recv = [c \in Children |-> <<>>]

(* Only child c's sequences may change. *)
OthersUnchanged(c) == \A d \in Children \ {c} : sent'[d] = sent[d] /\ recv'[d] = recv[d]

(* Child c hands over a record logged after everything it handed before. *)
Send(c) ==
  /\ Len(sent'[c]) = Len(sent[c]) + 1
  /\ IsPrefix(sent[c], sent'[c])
  /\ LET m == Last(sent'[c])
     IN /\ m \in Msgs /\ m.child = c
        /\ sent[c] = <<>> \/ Last(sent[c]).n < m.n
  /\ recv'[c] = recv[c]
  /\ OthersUnchanged(c)

(* The consumer takes child c's oldest record it has not taken yet. *)
Receive(c) ==
  /\ Len(recv[c]) < Len(sent[c])
  /\ recv' = [recv EXCEPT ![c] = Append(@, sent[c][Len(recv[c]) + 1])]
  /\ UNCHANGED sent

(* Child c is terminated: the records it handed over that have not been  *)
(* taken yet may be lost from the newest one backwards.                   *)
Drop(c) ==
  /\ Len(sent'[c]) < Len(sent[c])
  /\ IsPrefix(sent'[c], sent[c])
  /\ Len(recv[c]) <= Len(sent'[c])
  /\ recv'[c] = recv[c]
  /\ OthersUnchanged(c)

Next == \E c \in Children : Send(c) \/ Receive(c) \/ Drop(c)

Safe == Init /\ [][Next]_vars

Spec == Safe /\ \A c \in Children : WF_vars(Receive(c))
=============================================================================
