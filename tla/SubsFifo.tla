------------------------------ MODULE SubsFifo ------------------------------
(***************************************************************************)
(* What the subscription pipeline of mqtt_worker.c promises to the owner   *)
(* of subs_cb: an incoming message may be refused, but the messages that   *)
(* were accepted are handed over once each, in their order, and all of     *)
(* them in the end.                                                        *)
(***************************************************************************)
EXTENDS Naturals, Sequences

CONSTANT Messages   (* the numbers of the messages, in order of arrival      *)

VARIABLES
  pending,   (* accepted and not yet handed over, oldest first               *)
  handled    (* handed over, oldest first                                    *)

Init == pending = <<>> /\ handled = <<>>

Numbers(s) == {s[i] : i \in DOMAIN s}

(* A message that arrived after all those accepted so far.                  *)
Accept == /\ \E n \in Messages :
               /\ \A k \in Numbers(pending) \cup Numbers(handled) : k < n
               /\ pending' = Append(pending, n)
          /\ UNCHANGED handled

Handle == /\ pending # <<>>
          /\ handled' = Append(handled, Head(pending))
          /\ pending' = Tail(pending)

Next == Accept \/ Handle

Spec == Init /\ [][Next]_<<pending, handled>>
             /\ WF_<<pending, handled>>(Handle)
=============================================================================
