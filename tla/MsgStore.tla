------------------------------ MODULE MsgStore ------------------------------
(***************************************************************************)
(* The log of one execution while it runs: crates/utils/src/msg_store.rs,  *)
(* the task that writes it to the log file (services/execution_process.rs) *)
(* and the end of the execution (local-deployment/container.rs).           *)
(*                                                                         *)
(* A push sends the message to the broadcast channel and then appends it   *)
(* to the bounded history; a listener copies the history and then          *)
(* subscribes.  Both are two steps, taken by several threads.              *)
(***************************************************************************)
EXTENDS Integers, Sequences

CONSTANTS
    Producer,        \* tasks that push: the forwarder of the pipes, normalizers
    Forwarder,       \* the one whose messages are written to the log file
    Amount,          \* how many messages a producer has at most
    Client,          \* connections that follow the log
    Closer,          \* the exit monitor and stop_execution
    Size,            \* approximate bytes of a message of a producer
    HistoryBytes, Capacity,
    Writer, End, None

Finished == <<End, 1>>
Message == (UNION {{p} \X (1 .. Amount[p]) : p \in Producer}) \cup {Finished}
Listener == Client \cup {Writer}

ASSUME StoreAssumption ==
    /\ Forwarder \in Producer /\ End \notin Producer
    /\ Amount \in [Producer -> Nat] /\ Size \in [Producer \cup {End} -> Nat \ {0}]
    /\ HistoryBytes \in Nat \ {0} /\ Capacity \in Nat \ {0}
    /\ Writer \notin Client /\ None \notin Message

VARIABLES
    count, open,         \* messages each producer began to push; those not at their end
    pushing,             \* the message sent and not yet appended, per producer
    sent,                \* everything sent to the channel, in order
    history, total,      \* the history and its bytes
    registered,          \* the store is in the map msg_stores
    closer,              \* the end of the execution, per closer
    at,                  \* listeners: step
    buf, pos,            \* what is left of the copied history; next index in sent
    seen,                \* length of sent when the history was copied
    got, gone,           \* messages received, in order; messages it can never receive
    file,                \* the log file, as far as the writer has written it
    settled              \* messages pushed completely before Finished was sent

pushes == <<count, open, pushing, sent>>
stored == <<history, total>>
received == <<got, file>>
listeners == <<at, buf, pos, seen, received, gone>>
vars == <<pushes, stored, registered, closer, listeners, settled>>

Elements(s) == {s[i] : i \in DOMAIN s}
Bytes(h) ==
    LET sum[i \in 0 .. Len(h)] == IF i = 0 THEN 0 ELSE sum[i - 1] + Size[h[i][1]]
    IN  sum[Len(h)]

TypeOK ==
    /\ count \in [Producer -> Nat] /\ open \subseteq Producer
    /\ pushing \in [Producer \cup {End} -> Message \cup {None}]
    /\ sent \in Seq(Message) /\ history \in Seq(Message) /\ total \in Nat
    /\ registered \in BOOLEAN
    /\ closer \in [Closer -> {"idle", "finish", "append", "done"}]
    /\ at \in [Listener -> {"off", "found", "gap", "live", "replay", "done"}]
    /\ buf \in [Listener -> Seq(Message)]
    /\ pos \in [Listener -> Nat] /\ seen \in [Listener -> Nat]
    /\ got \in [Listener -> Seq(Message)] /\ file \in Seq(Message)
    /\ gone \in [Listener -> SUBSET Message]
    /\ settled \subseteq Message

Init ==
    /\ count = [p \in Producer |-> 0] /\ open = Producer
    /\ pushing = [p \in Producer \cup {End} |-> None]
    /\ sent = <<>> /\ history = <<>> /\ total = 0
    /\ registered = TRUE
    /\ closer = [c \in Closer |-> "idle"]
    /\ at = [l \in Listener |-> "off"]
    /\ buf = [l \in Listener |-> <<>>]
    /\ pos = [l \in Listener |-> 0] /\ seen = [l \in Listener |-> 0]
    /\ got = [l \in Listener |-> <<>>] /\ file = <<>>
    /\ gone = [l \in Listener |-> {}]
    /\ settled = {}

-----------------------------------------------------------------------------
(* push                                                                    *)

Front(k) == SubSeq(history, 1, k)

\* Mutant: the message that is added is not counted.
EvictsLate(bytes, k) ==
    LET fits(n) == total - Bytes(Front(n)) <= HistoryBytes
    IN  (k = Len(history) \/ fits(k)) /\ \A n \in 0 .. k - 1 : ~fits(n)

\* So many messages at the front of the history make room for bytes more.
Evicts(bytes, k) ==
    LET fits(n) == total - Bytes(Front(n)) + bytes <= HistoryBytes
    IN  (k = Len(history) \/ fits(k)) /\ \A n \in 0 .. k - 1 : ~fits(n)

\* The message goes to the live listeners first.
Send(p) ==
    LET m == <<p, count[p] + 1>> IN
    /\ p \in open /\ pushing[p] = None /\ count[p] < Amount[p]
    /\ count' = [count EXCEPT ![p] = @ + 1]
    /\ pushing' = [pushing EXCEPT ![p] = m]
    /\ sent' = Append(sent, m)
    /\ UNCHANGED <<open, stored, registered, closer, listeners, settled>>

\* Mutant: the end is appended whether or not it was sent.
AppendUnsent(p) ==
    /\ history' = Append(history, pushing[p])
    /\ total' = total + Size[p]
    /\ pushing' = [pushing EXCEPT ![p] = None]

AppendHistory(p) ==
    /\ pushing[p] # None
    /\ \E k \in 0 .. Len(history) :
        /\ Evicts(Size[p], k)
        /\ history' = Append(SubSeq(history, k + 1, Len(history)), pushing[p])
        /\ total' = total - Bytes(Front(k)) + Size[p]
    /\ pushing' = [pushing EXCEPT ![p] = None]

Store(p) ==
    /\ AppendHistory(p)
    /\ UNCHANGED <<count, open, sent, registered, closer, listeners, settled>>

\* The stream of a producer ends, and with it its handle on the store.
EndOfStream(p) ==
    /\ p \in open /\ pushing[p] = None
    /\ open' = open \ {p}
    /\ UNCHANGED <<count, pushing, sent, stored, registered, closer, listeners, settled>>

-----------------------------------------------------------------------------
(* The end of the execution, reached by the exit monitor and by            *)
(* stop_execution: who removes the store from the map pushes Finished.     *)
(* Neither waits for the pipes or for the writer: store_db_stream_handle   *)
(* is never called.                                                        *)

\* The write lock of the map, taken to remove the store, is held until Finished is
\* pushed.
MapFree == \A c \in Closer : closer[c] \notin {"finish", "append"}

Unregister(c) ==
    /\ closer[c] = "idle" /\ MapFree
    /\ registered' = FALSE
    /\ closer' = [closer EXCEPT ![c] = IF registered THEN "finish" ELSE "done"]
    /\ UNCHANGED <<pushes, stored, listeners, settled>>

SendFinished(c) ==
    /\ closer[c] = "finish"
    /\ closer' = [closer EXCEPT ![c] = "append"]
    /\ pushing' = [pushing EXCEPT ![End] = Finished]
    /\ sent' = Append(sent, Finished)
    /\ settled' = Elements(sent) \ {pushing[p] : p \in Producer}
    /\ UNCHANGED <<count, open, stored, registered, listeners>>

StoreFinished(c) ==
    /\ closer[c] = "append"
    /\ AppendHistory(End)
    /\ closer' = [closer EXCEPT ![c] = "done"]
    /\ UNCHANGED <<count, open, sent, registered, listeners, settled>>

-----------------------------------------------------------------------------
(* Listeners: history_plus_stream, the writer of the log file and          *)
(* stream_raw_logs.                                                        *)

\* What the log file has not: messages of others than the forwarder, those that the
\* writer lost and, while it is at work, those that it has not written.
NotInFile ==
    {m \in Elements(sent) \ Elements(file) :
        m[1] = Forwarder /\ at[Writer] = "done" => m \in gone[Writer]}

\* The store is looked up in the map; without it the writer has nothing to do, and a
\* client is given the log file as it is now, followed by Finished, if it is not empty.
Lookup(l) ==
    LET replay == ~registered /\ l # Writer /\ file # <<>> IN
    /\ at[l] = "off" /\ MapFree
    /\ at' = [at EXCEPT ![l] = IF registered THEN "found" ELSE IF replay THEN "replay" ELSE "done"]
    /\ buf' = [buf EXCEPT ![l] = IF replay THEN Append(file, Finished) ELSE @]
    /\ gone' = [gone EXCEPT ![l] = IF replay THEN NotInFile ELSE @]
    /\ UNCHANGED <<pushes, stored, registered, closer, pos, seen, received, settled>>

CopyHistory(l) ==
    /\ at[l] = "found"
    /\ at' = [at EXCEPT ![l] = "gap"]
    /\ buf' = [buf EXCEPT ![l] = history]
    /\ seen' = [seen EXCEPT ![l] = Len(sent)]
    /\ gone' = [gone EXCEPT ![l] = Elements(sent) \ Elements(history)]
    /\ UNCHANGED <<pushes, stored, registered, closer, pos, received, settled>>

\* Mutant: the receiver exists before the history is copied.
SubscribeEarly(l) ==
    /\ at[l] = "gap"
    /\ at' = [at EXCEPT ![l] = "live"]
    /\ pos' = [pos EXCEPT ![l] = 1]
    /\ UNCHANGED <<pushes, stored, registered, closer, buf, seen, received, gone, settled>>

Subscribe(l) ==
    /\ at[l] = "gap"
    /\ at' = [at EXCEPT ![l] = "live"]
    /\ pos' = [pos EXCEPT ![l] = Len(sent) + 1]
    /\ gone' = [gone EXCEPT ![l] = @ \cup Elements(SubSeq(sent, seen[l] + 1, Len(sent)))]
    /\ UNCHANGED <<pushes, stored, registered, closer, buf, seen, received, settled>>

\* Mutant: Finished is one more message to the writer.
ReceiveOn(l, m) ==
    /\ got' = [got EXCEPT ![l] = Append(@, m)]
    /\ file' = IF l = Writer /\ m[1] = Forwarder THEN Append(file, m) ELSE file
    /\ UNCHANGED at

\* The writer keeps what the child printed and stops at Finished; a client goes on
\* until the channel closes.
Receive(l, m) ==
    /\ got' = [got EXCEPT ![l] = Append(@, m)]
    /\ file' = IF l = Writer /\ m[1] = Forwarder THEN Append(file, m) ELSE file
    /\ at' = [at EXCEPT ![l] = IF m = Finished /\ l = Writer THEN "done" ELSE @]

FromHistory(l) ==
    /\ at[l] \in {"live", "replay"} /\ buf[l] # <<>>
    /\ Receive(l, Head(buf[l]))
    /\ buf' = [buf EXCEPT ![l] = Tail(@)]
    /\ UNCHANGED <<pushes, stored, registered, closer, pos, seen, gone, settled>>

\* Mutant: a receiver that lagged goes on with the newest message.
LiveToNewest(l) ==
    /\ at[l] = "live" /\ buf[l] = <<>> /\ pos[l] <= Len(sent)
    /\ LET newest == Len(sent) - pos[l] >= Capacity
           i == IF newest THEN Len(sent) ELSE pos[l]
       IN  Receive(l, sent[i]) /\ pos' = [pos EXCEPT ![l] = i + 1]
    /\ UNCHANGED <<pushes, stored, registered, closer, buf, seen, gone, settled>>

\* A receiver more than Capacity behind skips to the oldest message retained.
FromChannel(l) ==
    LET oldest == Len(sent) - Capacity + 1 IN
    /\ at[l] = "live" /\ buf[l] = <<>> /\ pos[l] <= Len(sent)
    /\ \/ /\ pos[l] >= oldest
          /\ Receive(l, sent[pos[l]])
          /\ pos' = [pos EXCEPT ![l] = @ + 1]
          /\ UNCHANGED gone
       \/ /\ pos[l] < oldest
          /\ pos' = [pos EXCEPT ![l] = oldest]
          /\ gone' = [gone EXCEPT ![l] = @ \cup Elements(SubSeq(sent, pos[l], oldest - 1))]
          /\ UNCHANGED <<received, at>>
    /\ UNCHANGED <<pushes, stored, registered, closer, buf, seen, settled>>

\* The sender lives as long as someone holds the store.
Held ==
    \/ registered \/ open # {}
    \/ \E c \in Closer : closer[c] \in {"finish", "append"}
    \/ at[Writer] \in {"found", "gap", "live"}
    \/ \E l \in Client : at[l] \in {"found", "gap"}

HangUp(l) ==
    /\ at[l] \in {"live", "replay"} /\ buf[l] = <<>>
    /\ at[l] = "live" => pos[l] > Len(sent) /\ ~Held
    /\ at' = [at EXCEPT ![l] = "done"]
    /\ UNCHANGED <<pushes, stored, registered, closer, buf, pos, seen, received, gone, settled>>

ListenerStep(l) ==
    \/ Lookup(l) \/ CopyHistory(l) \/ Subscribe(l)
    \/ FromHistory(l) \/ FromChannel(l) \/ HangUp(l)

ProducerStep(p) == Send(p) \/ Store(p) \/ EndOfStream(p)
CloserStep(c) == Unregister(c) \/ SendFinished(c) \/ StoreFinished(c)

Next ==
    \/ \E p \in Producer : ProducerStep(p)
    \/ \E c \in Closer : CloserStep(c)
    \/ \E l \in Listener : ListenerStep(l)

Spec == Init /\ [][Next]_vars

\* Tasks are not starved, pipes reach their end and every execution ends.
FairSpec ==
    /\ Spec
    /\ \A p \in Producer : WF_vars(ProducerStep(p))
    /\ \A c \in Closer : WF_vars(CloserStep(c))
    /\ \A l \in Listener : WF_vars(ListenerStep(l))

-----------------------------------------------------------------------------
(* Properties.                                                             *)

\* total_bytes is what the history holds, and stays within HISTORY_BYTES unless
\* a single larger message is all there is: no eviction is miscounted.
HistoryBounded ==
    /\ total = Bytes(history)
    /\ total <= HistoryBytes \/ Len(history) = 1

\* A listener that was told Finished has every message whose push was complete when
\* the end was announced, except those it lost in one of four ways: evicted from the
\* history or not yet in it when it was copied, sent between the copy and the
\* subscription, skipped when the receiver lagged, or, when it was given the log file,
\* lost by the writer or not yet written; once the writer is through, a replay has all
\* that the writer received.
NothingElseLost ==
    \A l \in Listener :
        Finished \in Elements(got[l]) => settled \subseteq Elements(got[l]) \cup gone[l]

\* The store is a LogFeed: push sends before it appends and a listener copies the
\* history before it subscribes, so no message comes twice or out of its
\* producer's order, and two closers announce the end once.
Feed == INSTANCE LogFeed WITH published <- Elements(sent), heard <- got
FeedImplemented == Feed!FeedSpec

\* A listener that subscribed before Finished was sent comes to its end, unless
\* it or the writer, which keeps the channel open, lost Finished.
ListenersEnd ==
    \A l \in Listener :
        (at[l] = "live" /\ Finished \notin Elements(sent))
            ~> (at[l] = "done" \/ \E o \in {l, Writer} : Finished \in gone[o])
=============================================================================
