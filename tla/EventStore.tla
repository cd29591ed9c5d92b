----------------------------- MODULE EventStore -----------------------------
(***************************************************************************)
(* What the durable pipeline promises its clients, without log, segments,  *)
(* threads or crashes: a batch that was acknowledged becomes queryable     *)
(* exactly once and in the order it was accepted.  A batch that was not    *)
(* acknowledged may become queryable too, or vanish.                       *)
(***************************************************************************)
EXTENDS Naturals, Sequences

CONSTANT Batches             \* numbered in the order the writer takes them

VARIABLES acked, published

Init == acked = {} /\ published = <<>>

Stored == {published[i] : i \in 1..Len(published)}
Last(s) == IF s = <<>> THEN 0 ELSE s[Len(s)]

\* A group is answered; what is not stored yet will come after what is.
Ack ==
    /\ acked' \subseteq Batches /\ acked \subseteq acked'
    /\ \A r \in acked' \ acked : r \in Stored \/ r > Last(published)
    /\ UNCHANGED published

\* One window becomes queryable, and passes over nothing acknowledged.
Publish ==
    /\ Len(published') > Len(published)
    /\ SubSeq(published', 1, Len(published)) = published
    /\ \A i \in Len(published)..(Len(published') - 1) :
         i > 0 => published'[i] < published'[i + 1]
    /\ \A r \in acked : r \in Stored' \/ r > Last(published')
    /\ UNCHANGED acked

Next == Ack \/ Publish

Spec == Init /\ [][Next]_<<acked, published>>
=============================================================================
