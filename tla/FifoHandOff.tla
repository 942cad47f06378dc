----------------------------- MODULE FifoHandOff -----------------------------
(***************************************************************************)
(* What the two queues of AsyncServer promise to the code around them: an  *)
(* item that went in is taken out once, in the order of arrival, and none  *)
(* is skipped.  `posted` is everything that ever went in, `taken` counts   *)
(* the items taken out so far, and `called` lists those of them that are   *)
(* in Handled (the messages whose id has a callback; for the send queue    *)
(* every message).  While `open` holds the consumer may not stay idle with *)
(* items left; once it is closed the rest may or may not be taken.         *)
(***************************************************************************)
EXTENDS Naturals, Sequences

CONSTANTS Items,      \* what can be posted
          Handled     \* the items the consumer acts on; the others it discards

VARIABLES posted, taken, called, open

vars == <<posted, taken, called, open>>

Init == /\ posted = <<>>
        /\ taken = 0
        /\ called = <<>>
        /\ open = TRUE

Post(i) == /\ posted' = Append(posted, i)
           /\ UNCHANGED <<taken, called, open>>

\* The oldest item not yet taken leaves; it is acted on or discarded.
Take == /\ taken < Len(posted)
        /\ taken' = taken + 1
        /\ called' = IF posted[taken + 1] \in Handled
                     THEN Append(called, posted[taken + 1])
                     ELSE called
        /\ UNCHANGED <<posted, open>>

\* The consumer is told to stop, or the other side is gone.
Close == /\ open
         /\ open' = FALSE
         /\ UNCHANGED <<posted, taken, called>>

Next == Take \/ Close \/ \E i \in Items : Post(i)

\* Nobody is obliged to post or to close; an open hand-off keeps taking.
Spec == Init /\ [][Next]_vars /\ WF_vars(open /\ Take)
=============================================================================
