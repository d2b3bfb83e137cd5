------------------------------ MODULE LogFeed ------------------------------
(***************************************************************************)
(* What the message store promises whoever follows an execution's log: a   *)
(* listener hears messages that were published, each at most once, and     *)
(* those of one producer in the order in which they were published.        *)
(* Messages may be missing.                                                *)
(***************************************************************************)
EXTENDS Naturals, Sequences

CONSTANTS
    Message,         \* pairs of a producer and the number of the message
    Listener

VARIABLES
    published,       \* messages published so far
    heard            \* what each listener was given, in order

Heard(l) == {heard[l][i] : i \in DOMAIN heard[l]}

FeedInit ==
    /\ published = {}
    /\ heard = [l \in Listener |-> <<>>]

\* A producer publishes its messages one after the other.
Publish(m) ==
    /\ m \notin published
    /\ \A o \in Message : o[1] = m[1] /\ o[2] < m[2] => o \in published
    /\ published' = published \cup {m}
    /\ UNCHANGED heard

Hear(l, m) ==
    /\ m \in published
    /\ \A o \in Heard(l) : o[1] = m[1] => o[2] < m[2]
    /\ heard' = [heard EXCEPT ![l] = Append(@, m)]
    /\ UNCHANGED published

FeedNext ==
    \E m \in Message : Publish(m) \/ \E l \in Listener : Hear(l, m)

FeedSpec == FeedInit /\ [][FeedNext]_<<published, heard>>
=============================================================================
