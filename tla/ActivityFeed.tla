---------------------------- MODULE ActivityFeed ----------------------------
(***************************************************************************)
(* What ActivityProjector promises of the activities it is given: the      *)
(* first contents accepted under a source key are the only ones ever       *)
(* posted under it, and a key is settled once it was posted, or if it may  *)
(* be withdrawn.  It promises neither order nor a single post.             *)
(***************************************************************************)
EXTENDS Sequences

CONSTANTS
    Keys,      \* source keys
    Payloads,  \* contents of an activity
    Optional,  \* keys that may be settled without a post
    None

VARIABLES
    accepted,  \* what each key stands for
    posted,    \* what was posted under each key, in order
    settled    \* the keys that are done

feed == <<accepted, posted, settled>>

Init ==
    /\ accepted = [k \in Keys |-> None]
    /\ posted = [k \in Keys |-> << >>]
    /\ settled = {}

Accept(k, p) ==
    /\ accepted[k] = None
    /\ accepted' = [accepted EXCEPT ![k] = p]
    /\ UNCHANGED <<posted, settled>>

Post(k) ==
    /\ accepted[k] # None
    /\ posted' = [posted EXCEPT ![k] = Append(@, accepted[k])]
    /\ UNCHANGED <<accepted, settled>>

Settle(k) ==
    /\ accepted[k] # None
    /\ posted[k] # << >> \/ k \in Optional
    /\ settled' = settled \cup {k}
    /\ UNCHANGED <<accepted, posted>>

Next == \E k \in Keys : Post(k) \/ Settle(k) \/ \E p \in Payloads : Accept(k, p)

Spec == Init /\ [][Next]_feed
=============================================================================
