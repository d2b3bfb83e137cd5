-------------------------- MODULE ApprovalsProofs --------------------------
(***************************************************************************)
(* Approvals: one sender, one outcome.                                     *)
(***************************************************************************)
EXTENDS Approvals, TLAPS

\* What the two invariants need besides themselves to be inductive: a responder
\* that is under way has a target and a status, after the send its status is the
\* outcome, the channel of an approval not created yet has no outcome, and the
\* watcher is the last thing create_with_waiter starts.
Bookkeeping ==
    /\ \A r \in Responder :
         /\ stage[r] # "idle" => target[r] \in Approval /\ status[r] \in Outcome
         /\ stage[r] = "announce" => outcome[target[r]] = status[r]
    /\ \A a \in Approval : /\ creating[a] = "no" => outcome[a] = None
                           /\ creating[a] # "done" => watcher[a] = "off"

-----------------------------------------------------------------------------
(* The type invariant.                                                     *)

\* A broadcast of a well-formed patch leaves a well-formed end of the channel.
LEMMA SendType ==
    ASSUME TypeOK, NEW patch \in Patch, Send(patch)
    PROVE  /\ sub' \in {"off", "snapshot", "live"} /\ view' \subseteq Approval
           /\ queue' \in Seq(Patch) /\ Len(queue') <= Capacity
           /\ lagged' \in BOOLEAN
<1>1. queue \in Seq(Patch) /\ Len(queue) <= Capacity /\ Capacity \in Nat \ {0}
  BY ApprovalAssumption DEF TypeOK
<1>2. Len(queue) \in Nat
  BY <1>1
<1>3. queue' \in Seq(Patch) /\ Len(queue') <= Capacity
  <2>1. CASE sub # "live"
    BY <1>1, <2>1 DEF Send
  <2>2. CASE sub = "live" /\ Len(queue) = Capacity
    <3>1. queue # <<>>
      BY <1>1, <2>2
    <3>2. Tail(queue) \in Seq(Patch) /\ Len(Tail(queue)) = Len(queue) - 1
      BY <1>1, <3>1
    <3>3. queue' = Append(Tail(queue), patch)
      BY <2>2 DEF Send
    <3> QED BY <1>1, <1>2, <2>2, <3>2, <3>3
  <2>3. CASE sub = "live" /\ Len(queue) # Capacity
    <3>1. queue' = Append(queue, patch)
      BY <2>3 DEF Send
    <3> QED BY <1>1, <1>2, <2>3, <3>1
  <2> QED BY <2>1, <2>2, <2>3
<1>4. lagged' \in BOOLEAN
  BY Zenon DEF Send, TypeOK
<1>5. sub' \in {"off", "snapshot", "live"} /\ view' \subseteq Approval
  BY Zenon DEF Send, TypeOK
<1> QED BY <1>3, <1>4, <1>5

\* create_with_waiter keeps the types.
LEMMA CreateType ==
    ASSUME TypeOK, NEW a \in Approval, CreateStep(a)
    PROVE  TypeOK'
<1>1. CASE Create(a)
  BY <1>1 DEF Create, TypeOK, answers, stream
<1>2. CASE AnnounceCreated(a)
  <2>1. <<"created", a>> \in Patch
    BY DEF Patch
  <2>2. Send(<<"created", a>>)
    BY <1>2 DEF AnnounceCreated
  <2>3. /\ sub' \in {"off", "snapshot", "live"} /\ view' \subseteq Approval
        /\ queue' \in Seq(Patch) /\ Len(queue') <= Capacity
        /\ lagged' \in BOOLEAN
    BY <2>1, <2>2, SendType
  <2> QED BY <1>2, <2>3 DEF AnnounceCreated, TypeOK, answers
<1>3. CASE StartWatcher(a)
  BY <1>3 DEF StartWatcher, TypeOK, answers, stream
<1> QED BY <1>1, <1>2, <1>3 DEF CreateStep

\* A response keeps the types.
LEMMA RespondType ==
    ASSUME TypeOK, Bookkeeping, NEW r \in Responder,
           \/ RespondStep(r)
           \/ \E a \in Approval, o \in Outcome : Respond(r, a, o)
    PROVE  TypeOK'
<1>1. CASE \E a \in Approval, o \in Outcome : Respond(r, a, o)
  BY <1>1 DEF Respond, TypeOK, stream
<1>2. CASE Reject(r)
  BY <1>2 DEF Reject, Return, TypeOK, Bookkeeping, stream
<1>3. CASE RecordResponse(r)
  BY <1>3 DEF RecordResponse, TypeOK, Bookkeeping, stream
<1>4. CASE SendResponse(r)
  BY <1>4 DEF SendResponse, TypeOK, Bookkeeping, stream
<1>5. CASE AnnounceResponse(r)
  <2>1. target[r] \in Approval /\ status[r] \in Outcome
    BY <1>5 DEF AnnounceResponse, Bookkeeping
  <2>2. <<"resolved", target[r]>> \in Patch
    BY <2>1 DEF Patch
  <2>3. Send(<<"resolved", target[r]>>)
    BY <1>5 DEF AnnounceResponse
  <2>4. /\ sub' \in {"off", "snapshot", "live"} /\ view' \subseteq Approval
        /\ queue' \in Seq(Patch) /\ Len(queue') <= Capacity
        /\ lagged' \in BOOLEAN
    BY <2>2, <2>3, SendType
  <2> QED BY <1>5, <2>1, <2>4 DEF AnnounceResponse, Return, TypeOK
<1> QED BY <1>1, <1>2, <1>3, <1>4, <1>5 DEF RespondStep

\* The timeout watcher keeps the types.
LEMMA WatchType ==
    ASSUME TypeOK, NEW a \in Approval, WatchStep(a)
    PROVE  TypeOK'
<1>1. CASE WatchOutcome(a)
  BY <1>1 DEF WatchOutcome, Watch, TypeOK, answers, stream
<1>2. CASE WatchDeadline(a)
  BY <1>2 DEF WatchDeadline, Watch, TypeOK, answers, stream
<1>3. CASE RecordOutcome(a)
  BY <1>3 DEF RecordOutcome, Watch, TypeOK, answers, stream
<1>4. CASE RecordTimeout(a)
  BY <1>4 DEF RecordTimeout, Watch, TypeOK, answers, stream
<1>5. CASE RemoveTimedOut(a)
  BY <1>5 DEF RemoveTimedOut, Watch, TypeOK, answers, stream
<1>6. CASE AnnounceTimeout(a)
  <2>1. <<"resolved", a>> \in Patch
    BY DEF Patch
  <2>2. Send(<<"resolved", a>>)
    BY <1>6 DEF AnnounceTimeout
  <2>3. /\ sub' \in {"off", "snapshot", "live"} /\ view' \subseteq Approval
        /\ queue' \in Seq(Patch) /\ Len(queue') <= Capacity
        /\ lagged' \in BOOLEAN
    BY <2>1, <2>2, SendType
  <2> QED BY <1>6, <2>3 DEF AnnounceTimeout, Watch, TypeOK, answers
<1>7. CASE SendTimeout(a)
  BY <1>7 DEF SendTimeout, Watch, TypeOK, Outcome, answers, stream
<1> QED BY <1>1, <1>2, <1>3, <1>4, <1>5, <1>6, <1>7 DEF WatchStep

\* A cancellation keeps the types.
LEMMA CancelType ==
    ASSUME TypeOK, NEW a \in Approval, Cancel(a) \/ CancelStep(a)
    PROVE  TypeOK'
<1>1. CASE Cancel(a)
  BY <1>1 DEF Cancel, Cancelling, TypeOK, answers, stream
<1>2. CASE RecordCancel(a)
  BY <1>2 DEF RecordCancel, Cancelling, TypeOK, answers, stream
<1>3. CASE AnnounceCancel(a)
  <2>1. <<"resolved", a>> \in Patch
    BY DEF Patch
  <2>2. Send(<<"resolved", a>>)
    BY <1>3 DEF AnnounceCancel
  <2>3. /\ sub' \in {"off", "snapshot", "live"} /\ view' \subseteq Approval
        /\ queue' \in Seq(Patch) /\ Len(queue') <= Capacity
        /\ lagged' \in BOOLEAN
    BY <2>1, <2>2, SendType
  <2> QED BY <1>3, <2>3 DEF AnnounceCancel, Cancelling, TypeOK, answers
<1>4. CASE DropSender(a)
  BY <1>4 DEF DropSender, Cancelling, TypeOK, Outcome, answers, stream
<1> QED BY <1>1, <1>2, <1>3, <1>4 DEF CancelStep

\* The websocket keeps the types.
LEMMA StreamType ==
    ASSUME TypeOK, Snapshot \/ StreamStep
    PROVE  TypeOK'
<1>1. CASE Snapshot
  BY <1>1 DEF Snapshot, TypeOK, answers
<1>2. CASE Subscribe
  BY <1>2 DEF Subscribe, TypeOK, answers
<1>3. CASE Resnapshot
  BY <1>3 DEF Resnapshot, TypeOK, answers
<1>4. CASE Receive
  <2>1. queue \in Seq(Patch) /\ queue # <<>>
    BY <1>4 DEF Receive, TypeOK
  <2>2. Head(queue) \in Patch
    BY <2>1
  <2>3. Head(queue)[2] \in Approval
    BY <2>2 DEF Patch
  <2>4. view' \subseteq Approval
    BY <1>4, <2>3 DEF Receive, TypeOK
  <2>5. Tail(queue) \in Seq(Patch) /\ Len(Tail(queue)) = Len(queue) - 1
    BY <2>1
  <2>6. queue' \in Seq(Patch) /\ Len(queue') <= Capacity
    BY <1>4, <2>1, <2>5, ApprovalAssumption DEF Receive, TypeOK
  <2> QED BY <1>4, <2>4, <2>6 DEF Receive, TypeOK, answers
<1> QED BY <1>1, <1>2, <1>3, <1>4 DEF StreamStep

-----------------------------------------------------------------------------
(* One sender, one outcome.                                                *)

Single == SenderInOnePlace /\ ToldIsOutcome /\ Bookkeeping

\* Single depends on these variables only: a step that leaves them alone keeps it.
LEMMA SingleUnchanged ==
    ASSUME Single,
           UNCHANGED <<creating, pending, outcome, watcher, canceller, stage,
                       target, status, told>>
    PROVE  Single'
BY DEF Single, SenderInOnePlace, ToldIsOutcome, Bookkeeping, Responding,
       TimingOut, BeingCancelled, Open

\* The two parts of SenderInOnePlace for one approval, without the sets: what a
\* holder says about the channel, and that there is only one.
LEMMA HolderOpen ==
    ASSUME SenderInOnePlace, NEW a \in Approval
    PROVE  /\ a \in pending => Open(a)
           /\ TimingOut(a) => Open(a) /\ a \notin pending
           /\ BeingCancelled(a) => Open(a) /\ a \notin pending /\ ~TimingOut(a)
           /\ \A r \in Responding(a) : /\ Open(a) /\ a \notin pending
                                       /\ ~TimingOut(a) /\ ~BeingCancelled(a)
                                       /\ Responding(a) = {r}
BY DEF SenderInOnePlace

\* create_with_waiter puts the sender into the map and starts the watcher.
LEMMA CreateSingle ==
    ASSUME TypeOK, Single, NEW a \in Approval, CreateStep(a)
    PROVE  Single'
<1>1. CASE Create(a)
  <2> USE <1>1 DEF Create, answers, stream, Single
  <2>1. Bookkeeping'
    BY DEF Bookkeeping, TypeOK
  <2>2. ToldIsOutcome'
    BY DEF ToldIsOutcome
  <2>3. SenderInOnePlace'
    BY DEF SenderInOnePlace, Bookkeeping, Responding, TimingOut,
           BeingCancelled, Open, TypeOK
  <2> QED BY <2>1, <2>2, <2>3
<1>2. CASE AnnounceCreated(a)
  <2> USE <1>2 DEF AnnounceCreated, answers, Single
  <2>1. Bookkeeping'
    BY DEF Bookkeeping, TypeOK
  <2>2. ToldIsOutcome'
    BY DEF ToldIsOutcome
  <2>3. \A b \in Approval : Open(b)' <=> Open(b)
    BY DEF Open, TypeOK
  <2>4. \A b \in Approval : TimingOut(b)' <=> TimingOut(b)
    BY DEF TimingOut, TypeOK, Bookkeeping
  <2>5. SenderInOnePlace'
    BY <2>3, <2>4 DEF SenderInOnePlace, Responding, BeingCancelled
  <2> QED BY <2>1, <2>2, <2>5
<1>3. CASE StartWatcher(a)
  <2> USE <1>3 DEF StartWatcher, answers, stream, Single
  <2>1. Bookkeeping'
    BY DEF Bookkeeping, TypeOK
  <2>2. ToldIsOutcome'
    BY DEF ToldIsOutcome
  <2>3. \A b \in Approval : Open(b)' <=> Open(b)
    BY DEF Open, TypeOK
  <2>4. \A b \in Approval : TimingOut(b)' <=> TimingOut(b)
    BY DEF TimingOut, TypeOK, Bookkeeping
  <2>5. SenderInOnePlace'
    BY <2>3, <2>4 DEF SenderInOnePlace, Responding, BeingCancelled
  <2> QED BY <2>1, <2>2, <2>5
<1> QED BY <1>1, <1>2, <1>3 DEF CreateStep

\* A response takes the sender out and uses it once, or puts it back.
LEMMA RespondSingle ==
    ASSUME TypeOK, Single, NEW r \in Responder,
           \/ RespondStep(r)
           \/ \E a \in Approval, o \in Outcome : Respond(r, a, o)
    PROVE  Single'
<1>1. CASE \E a \in Approval, o \in Outcome : Respond(r, a, o)
  <2>1. PICK a \in Approval, o \in Outcome : Respond(r, a, o)
    BY <1>1
  <2> USE <2>1 DEF Respond, stream, Single
  <2>2. Bookkeeping'
    BY DEF Bookkeeping, TypeOK
  <2>3. ToldIsOutcome'
    BY DEF ToldIsOutcome
  <2>4. SenderInOnePlace'
    BY DEF SenderInOnePlace, Responding, TimingOut, BeingCancelled, Open, TypeOK
  <2> QED BY <2>2, <2>3, <2>4
<1>2. CASE Reject(r)
  <2> USE <1>2 DEF Reject, Return, stream, Single
  <2>1. Bookkeeping'
    BY DEF Bookkeeping, TypeOK
  <2>2. ToldIsOutcome'
    BY DEF ToldIsOutcome
  <2>3. SenderInOnePlace'
    BY DEF SenderInOnePlace, Bookkeeping, Responding, TimingOut,
           BeingCancelled, Open, TypeOK
  <2> QED BY <2>1, <2>2, <2>3
<1>3. CASE RecordResponse(r)
  <2> USE <1>3 DEF RecordResponse, stream, Single
  <2>1. Bookkeeping'
    BY DEF Bookkeeping, TypeOK
  <2>2. ToldIsOutcome'
    BY DEF ToldIsOutcome
  <2>3. SenderInOnePlace'
    BY DEF SenderInOnePlace, Responding, TimingOut, BeingCancelled, Open, TypeOK
  <2> QED BY <2>1, <2>2, <2>3
<1>4. CASE SendResponse(r)
  <2> DEFINE c == target[r]
  <2>1. c \in Approval /\ status[r] \in Outcome /\ status[r] # None
    BY <1>4, ApprovalAssumption DEF SendResponse, Single, Bookkeeping
  <2>2. r \in Responding(c)
    BY <1>4 DEF SendResponse, Responding
  <2>3. /\ Open(c) /\ c \notin pending /\ ~TimingOut(c) /\ ~BeingCancelled(c)
        /\ Responding(c) = {r}
    BY <2>1, <2>2, HolderOpen DEF Single
  <2>4. outcome' = [outcome EXCEPT ![c] = status[r]] /\ outcome[c] = None
    BY <1>4, <2>3 DEF SendResponse, Open
  <2>5. Bookkeeping'
    <3>1. ASSUME NEW s \in Responder, stage[s] = "announce"
          PROVE  target[s] \in Approval /\ target[s] # c /\ outcome[target[s]] = status[s]
      BY <2>4, <3>1, ApprovalAssumption DEF Single, Bookkeeping
    <3>2. creating[c] # "no"
      BY <2>3 DEF Open
    <3>3. outcome'[c] = status[r] /\ \A b \in Approval : b # c => outcome'[b] = outcome[b]
      BY <2>1, <2>4 DEF TypeOK
    <3>4. stage' = [stage EXCEPT ![r] = "announce"] /\ UNCHANGED <<target, status, creating>>
      BY <1>4 DEF SendResponse
    <3>5. ASSUME NEW s \in Responder
          PROVE  /\ stage'[s] # "idle" => target'[s] \in Approval /\ status'[s] \in Outcome
                 /\ stage'[s] = "announce" => outcome'[target'[s]] = status'[s]
      <4>1. CASE s = r
        BY <2>1, <3>3, <3>4, <4>1 DEF TypeOK
      <4>2. CASE s # r
        BY <3>1, <3>3, <3>4, <4>2 DEF TypeOK, Single, Bookkeeping
      <4> QED BY <4>1, <4>2
    <3>6. ASSUME NEW b \in Approval
          PROVE  /\ creating'[b] = "no" => outcome'[b] = None
                 /\ creating'[b] # "done" => watcher'[b] = "off"
      BY <1>4, <3>2, <3>3, <3>4 DEF SendResponse, Single, Bookkeeping
    <3> QED BY <3>5, <3>6 DEF Bookkeeping, Outcome
  <2>6. ToldIsOutcome'
    BY <1>4, <2>4, ApprovalAssumption DEF SendResponse, Single, ToldIsOutcome, TypeOK
  <2>7. SenderInOnePlace'
    BY <1>4, <2>1, <2>3, <2>4 DEF SendResponse, Single, SenderInOnePlace, Responding,
       TimingOut, BeingCancelled, Open, TypeOK, stream
  <2> QED BY <2>5, <2>6, <2>7 DEF Single
<1>5. CASE AnnounceResponse(r)
  <2> USE <1>5 DEF AnnounceResponse, Return, Single
  <2>1. Bookkeeping'
    BY DEF Bookkeeping, TypeOK
  <2>2. ToldIsOutcome'
    BY DEF ToldIsOutcome, Bookkeeping, TypeOK
  <2>3. \A b \in Approval : Responding(b)' = Responding(b)
    BY DEF Responding, TypeOK
  <2>4. SenderInOnePlace'
    BY <2>3 DEF SenderInOnePlace, TimingOut, BeingCancelled, Open
  <2> QED BY <2>1, <2>2, <2>4
<1> QED BY <1>1, <1>2, <1>3, <1>4, <1>5 DEF RespondStep

\* The sender resolves the channel of an approval: nobody was told before.
LEMMA Resolve ==
    ASSUME TypeOK, Single, NEW a \in Approval, Open(a),
           outcome' = [outcome EXCEPT ![a] = "timedout"],
           UNCHANGED <<creating, stage, target, status, told>>,
           \A b \in Approval : watcher[b] = "off" => watcher'[b] = "off"
    PROVE  Bookkeeping' /\ ToldIsOutcome'
<1>1. outcome[a] = None /\ creating[a] # "no" /\ None \notin Outcome
  BY ApprovalAssumption DEF Open
<1>2. told[a] = {}
  BY <1>1 DEF TypeOK, Single, ToldIsOutcome
<1>3. ToldIsOutcome'
  BY <1>2 DEF TypeOK, Single, ToldIsOutcome
<1>4. ASSUME NEW r \in Responder, stage[r] = "announce"
      PROVE  target[r] # a
  BY <1>1, <1>4 DEF Single, Bookkeeping
<1>5. Bookkeeping'
  BY <1>1, <1>4 DEF TypeOK, Single, Bookkeeping
<1> QED BY <1>3, <1>5

\* The watcher takes the sender out when the deadline has passed, if it is there.
LEMMA WatchSingle ==
    ASSUME TypeOK, Single, NEW a \in Approval, WatchStep(a)
    PROVE  Single'
<1>1. CASE WatchOutcome(a) \/ WatchDeadline(a) \/ RecordOutcome(a) \/ RecordTimeout(a)
  <2> USE <1>1 DEF WatchOutcome, WatchDeadline, RecordOutcome, RecordTimeout, Watch,
          answers, stream, Single
  <2>1. Bookkeeping' /\ ToldIsOutcome'
    BY DEF Bookkeeping, ToldIsOutcome, TypeOK
  <2>2. \A b \in Approval : TimingOut(b)' <=> TimingOut(b)
    BY DEF TimingOut, TypeOK
  <2>3. SenderInOnePlace'
    BY <2>2 DEF SenderInOnePlace, Responding, BeingCancelled, Open
  <2> QED BY <2>1, <2>3
<1>2. CASE RemoveTimedOut(a)
  <2> USE <1>2 DEF RemoveTimedOut, Watch, answers, stream, Single
  <2>1. Bookkeeping' /\ ToldIsOutcome'
    BY DEF Bookkeeping, ToldIsOutcome, TypeOK
  <2>2. SenderInOnePlace'
    BY DEF SenderInOnePlace, Responding, TimingOut, BeingCancelled, Open, TypeOK
  <2> QED BY <2>1, <2>2
<1>3. CASE AnnounceTimeout(a)
  <2> USE <1>3 DEF AnnounceTimeout, Watch, answers, Single
  <2>1. Bookkeeping' /\ ToldIsOutcome'
    BY DEF Bookkeeping, ToldIsOutcome, TypeOK
  <2>2. \A b \in Approval : TimingOut(b)' <=> TimingOut(b)
    BY DEF TimingOut, TypeOK
  <2>3. SenderInOnePlace'
    BY <2>2 DEF SenderInOnePlace, Responding, BeingCancelled, Open
  <2> QED BY <2>1, <2>3
<1>4. CASE SendTimeout(a)
  <2>1. TimingOut(a)
    BY <1>4 DEF SendTimeout, Watch, TimingOut
  <2>2. Open(a) /\ a \notin pending
    BY <2>1, HolderOpen DEF Single
  <2>3. Bookkeeping' /\ ToldIsOutcome'
    <3>1. \A b \in Approval : watcher[b] = "off" => watcher'[b] = "off"
      BY <1>4 DEF SendTimeout, Watch, TypeOK
    <3> QED BY <1>4, <2>2, <3>1, Resolve DEF SendTimeout, answers
  <2>4. SenderInOnePlace'
    BY <1>4, <2>1, <2>2, ApprovalAssumption DEF SendTimeout, Watch, answers, Single, Outcome,
       SenderInOnePlace, Responding, TimingOut, BeingCancelled, Open, TypeOK
  <2> QED BY <2>3, <2>4 DEF Single
<1> QED BY <1>1, <1>2, <1>3, <1>4 DEF WatchStep

\* A cancellation takes the sender out, if it is there, and drops it.
LEMMA CancelSingle ==
    ASSUME TypeOK, Single, NEW a \in Approval, Cancel(a) \/ CancelStep(a)
    PROVE  Single'
<1>1. CASE Cancel(a)
  <2> USE <1>1 DEF Cancel, Cancelling, answers, stream, Single
  <2>1. Bookkeeping' /\ ToldIsOutcome'
    BY DEF Bookkeeping, ToldIsOutcome, TypeOK
  <2>2. SenderInOnePlace'
    BY DEF SenderInOnePlace, Responding, TimingOut, BeingCancelled, Open, TypeOK
  <2> QED BY <2>1, <2>2
<1>2. CASE RecordCancel(a) \/ AnnounceCancel(a)
  <2> USE <1>2 DEF RecordCancel, AnnounceCancel, Cancelling, answers, stream, Single
  <2>1. Bookkeeping' /\ ToldIsOutcome'
    BY DEF Bookkeeping, ToldIsOutcome, TypeOK
  <2>2. \A b \in Approval : BeingCancelled(b)' <=> BeingCancelled(b)
    BY DEF BeingCancelled, TypeOK
  <2>3. SenderInOnePlace'
    BY <2>2 DEF SenderInOnePlace, Responding, TimingOut, Open
  <2> QED BY <2>1, <2>3
<1>3. CASE DropSender(a)
  <2>1. BeingCancelled(a)
    BY <1>3 DEF DropSender, Cancelling, BeingCancelled
  <2>2. Open(a) /\ a \notin pending /\ ~TimingOut(a)
    BY <2>1, HolderOpen DEF Single
  <2>3. Bookkeeping' /\ ToldIsOutcome'
    BY <1>3, <2>2, Resolve DEF DropSender, answers
  <2>4. SenderInOnePlace'
    BY <1>3, <2>1, <2>2, ApprovalAssumption DEF DropSender, Cancelling, answers, Single,
       Outcome, SenderInOnePlace, Responding, TimingOut, BeingCancelled, Open, TypeOK
  <2> QED BY <2>3, <2>4 DEF Single
<1> QED BY <1>1, <1>2, <1>3 DEF CancelStep

-----------------------------------------------------------------------------
(* Every step, and the theorems.                                           *)

\* TypeOK and Single together are inductive.
LEMMA Inductive ==
    ASSUME TypeOK, Single, [Next]_vars
    PROVE  TypeOK' /\ Single'
<1>1. CASE \E a \in Approval : CreateStep(a)
  BY <1>1, CreateType, CreateSingle
<1>2. CASE \E a \in Approval : WatchStep(a)
  BY <1>2, WatchType, WatchSingle
<1>3. CASE \E a \in Approval : Cancel(a) \/ CancelStep(a)
  BY <1>3, CancelType, CancelSingle
<1>4. CASE \E r \in Responder : \/ RespondStep(r)
                                \/ \E a \in Approval, o \in Outcome : Respond(r, a, o)
  <2>1. Bookkeeping
    BY DEF Single
  <2> QED BY <1>4, <2>1, RespondType, RespondSingle
<1>5. CASE Snapshot \/ StreamStep
  <2>1. UNCHANGED <<creating, pending, outcome, watcher, canceller, stage, target,
                    status, told>>
    BY <1>5 DEF Snapshot, StreamStep, Subscribe, Resnapshot, Receive, answers
  <2> QED BY <1>5, <2>1, StreamType, SingleUnchanged
<1>6. CASE UNCHANGED vars
  <2>1. TypeOK'
    BY <1>6 DEF vars, TypeOK
  <2>2. UNCHANGED <<creating, pending, outcome, watcher, canceller, stage, target,
                    status, told>>
    BY <1>6 DEF vars
  <2> QED BY <2>1, <2>2, SingleUnchanged
<1>7. ASSUME Next
      PROVE  \/ \E a \in Approval : CreateStep(a)
             \/ \E a \in Approval : WatchStep(a)
             \/ \E a \in Approval : Cancel(a) \/ CancelStep(a)
             \/ \E r \in Responder : \/ RespondStep(r)
                                    \/ \E a \in Approval, o \in Outcome : Respond(r, a, o)
             \/ Snapshot \/ StreamStep
  BY <1>7 DEF Next
<1> QED BY <1>1, <1>2, <1>3, <1>4, <1>5, <1>6, <1>7

\* Both hold initially.
LEMMA Initially ==
    ASSUME Init
    PROVE  TypeOK /\ Single
<1>1. TypeOK
  <2>1. queue = <<>> /\ queue \in Seq(Patch) /\ Len(queue) <= Capacity
    BY ApprovalAssumption DEF Init
  <2>2. lagged \in BOOLEAN /\ sub \in {"off", "snapshot", "live"} /\ view \subseteq Approval
    BY Zenon DEF Init
  <2> QED BY <2>1, <2>2 DEF Init, TypeOK
<1>2. SenderInOnePlace
  BY DEF Init, SenderInOnePlace, Responding, TimingOut, BeingCancelled, Open
<1>3. ToldIsOutcome
  BY DEF Init, ToldIsOutcome
<1>4. Bookkeeping
  BY DEF Init, Bookkeeping
<1> QED BY <1>1, <1>2, <1>3, <1>4 DEF Single

\* The type invariant, the bound of the broadcast channel included, for any
\* number of approvals and of respond requests that run at once.
THEOREM ApprovalTypes == Spec => []TypeOK
<1>1. Init => TypeOK /\ Single
  BY Initially
<1>2. TypeOK /\ Single /\ [Next]_vars => (TypeOK /\ Single)'
  BY Inductive
<1> QED BY <1>1, <1>2, PTL DEF Spec

\* The sender of an approval is in one place until the channel resolves
\* (respond, cancel and the timeout watcher), however many of them race.
THEOREM OneSender == Spec => []SenderInOnePlace
<1>1. Init => TypeOK /\ Single
  BY Initially
<1>2. TypeOK /\ Single /\ [Next]_vars => (TypeOK /\ Single)'
  BY Inductive
<1>3. Single => SenderInOnePlace
  BY DEF Single
<1> QED BY <1>1, <1>2, <1>3, PTL DEF Spec

\* What respond reports as accepted is what the executor's channel gives.
THEOREM OneOutcome == Spec => []ToldIsOutcome
<1>1. Init => TypeOK /\ Single
  BY Initially
<1>2. TypeOK /\ Single /\ [Next]_vars => (TypeOK /\ Single)'
  BY Inductive
<1>3. Single => ToldIsOutcome
  BY DEF Single
<1> QED BY <1>1, <1>2, <1>3, PTL DEF Spec
=============================================================================
