----------------------------- MODULE Approvals -----------------------------
(***************************************************************************)
(* Tool approvals: crates/services/src/services/approvals.rs and the       *)
(* executor's side of it, approvals/executor_approvals.rs.                 *)
(*                                                                         *)
(* An approval is an entry of the map pending, which holds the sender of a *)
(* oneshot channel; the executor and a timeout watcher wait at the other   *)
(* end.  Responses, the cancellation by the executor and the timeout take  *)
(* the entry out of the map and then go on, on several threads, so every   *)
(* operation on a map, the channel or the broadcast is a step of its own.  *)
(***************************************************************************)
EXTENDS Naturals, Sequences

CONSTANTS
    Approval,        \* requests of executors
    Question,        \* those that ask a question
    Responder,       \* respond requests that may run at once
    Capacity,        \* of the broadcast channel of patches
    None             \* no approval, no outcome

Outcome == {"approved", "denied", "answered", "timedout"}

ASSUME ApprovalAssumption ==
    /\ Question \subseteq Approval
    /\ Capacity \in Nat \ {0}
    /\ None \notin Approval \cup Outcome

VARIABLES
    creating,        \* create_with_waiter, per approval
    pending,         \* keys of the map of pending approvals
    completed,       \* keys of the map of completed ones (its values are never read)
    outcome,         \* what the channel resolves to; a dropped sender times out
    watcher,         \* the task of spawn_timeout_watcher, per approval
    canceller,       \* cancel, called by the executor that waits
    stage, target, status,   \* respond, per responder
    told,            \* outcomes reported to responders as accepted
    refused,         \* approvals that were put back by a response of the wrong kind
    sub, view,       \* one websocket and the pending approvals it shows
    queue, lagged    \* its end of the broadcast channel

stream == <<sub, view, queue, lagged>>
answers == <<stage, target, status, told, refused>>
vars == <<creating, pending, completed, outcome, watcher, canceller,
          stage, target, status, told, refused, sub, view, queue, lagged>>

Patch == {"created", "resolved"} \X Approval

TypeOK ==
    /\ creating \in [Approval -> {"no", "announce", "watch", "done"}]
    /\ pending \subseteq Approval /\ completed \subseteq Approval
    /\ outcome \in [Approval -> Outcome \cup {None}]
    /\ watcher \in [Approval -> {"off", "wait", "record", "timeout", "remove",
                                 "announce", "send", "done"}]
    /\ canceller \in [Approval -> {"no", "record", "announce", "drop", "done"}]
    /\ stage \in [Responder -> {"idle", "validate", "send", "announce"}]
    /\ target \in [Responder -> Approval \cup {None}]
    /\ status \in [Responder -> Outcome \cup {None}]
    /\ told \in [Approval -> SUBSET Outcome] /\ refused \subseteq Approval
    /\ sub \in {"off", "snapshot", "live"} /\ view \subseteq Approval
    /\ queue \in Seq(Patch) /\ Len(queue) <= Capacity
    /\ lagged \in BOOLEAN

Init ==
    /\ creating = [a \in Approval |-> "no"]
    /\ pending = {} /\ completed = {}
    /\ outcome = [a \in Approval |-> None]
    /\ watcher = [a \in Approval |-> "off"]
    /\ canceller = [a \in Approval |-> "no"]
    /\ stage = [r \in Responder |-> "idle"]
    /\ target = [r \in Responder |-> None]
    /\ status = [r \in Responder |-> None]
    /\ told = [a \in Approval |-> {}] /\ refused = {}
    /\ sub = "off" /\ view = {} /\ queue = <<>> /\ lagged = FALSE

-----------------------------------------------------------------------------
\* Mutant: the channel has no bound.
SendUnbounded(patch) ==
    /\ queue' = IF sub = "live" THEN Append(queue, patch) ELSE queue
    /\ UNCHANGED <<sub, view, lagged>>

\* patches_tx.send: a receiver that is Capacity behind loses the oldest patch.
Send(patch) ==
    LET full == Len(queue) = Capacity IN
    /\ queue' = IF sub # "live" THEN queue
                ELSE IF full THEN Append(Tail(queue), patch)
                ELSE Append(queue, patch)
    /\ lagged' = (lagged \/ (sub = "live" /\ full))
    /\ UNCHANGED <<sub, view>>

-----------------------------------------------------------------------------
(* create_with_waiter.                                                     *)

Create(a) ==
    /\ creating[a] = "no"
    /\ pending' = pending \cup {a}
    /\ creating' = [creating EXCEPT ![a] = "announce"]
    /\ UNCHANGED <<completed, outcome, watcher, canceller, answers, stream>>

AnnounceCreated(a) ==
    /\ creating[a] = "announce"
    /\ Send(<<"created", a>>)
    /\ creating' = [creating EXCEPT ![a] = "watch"]
    /\ UNCHANGED <<pending, completed, outcome, watcher, canceller, answers>>

StartWatcher(a) ==
    /\ creating[a] = "watch"
    /\ creating' = [creating EXCEPT ![a] = "done"]
    /\ watcher' = [watcher EXCEPT ![a] = "wait"]
    /\ UNCHANGED <<pending, completed, outcome, canceller, answers, stream>>

CreateStep(a) == Create(a) \/ AnnounceCreated(a) \/ StartWatcher(a)

-----------------------------------------------------------------------------
(* respond; a response to an approval that is not pending is an error that *)
(* changes nothing.                                                        *)

\* validate_approval_response
Invalid(a, o) == IF a \in Question THEN o \in {"approved", "denied"} ELSE o = "answered"

\* Mutant: the entry is read and left in the map.
RespondShared(r, a, o) ==
    /\ stage[r] = "idle"
    /\ a \in pending
    /\ stage' = [stage EXCEPT ![r] = "validate"]
    /\ target' = [target EXCEPT ![r] = a]
    /\ status' = [status EXCEPT ![r] = o]
    /\ UNCHANGED <<creating, pending, completed, outcome, watcher, canceller,
                   told, refused, stream>>

Respond(r, a, o) ==
    /\ stage[r] = "idle"
    /\ a \in pending
    /\ pending' = pending \ {a}
    /\ stage' = [stage EXCEPT ![r] = "validate"]
    /\ target' = [target EXCEPT ![r] = a]
    /\ status' = [status EXCEPT ![r] = o]
    /\ UNCHANGED <<creating, completed, outcome, watcher, canceller, told,
                   refused, stream>>

Return(r) ==
    /\ stage' = [stage EXCEPT ![r] = "idle"]
    /\ target' = [target EXCEPT ![r] = None]
    /\ status' = [status EXCEPT ![r] = None]

Reject(r) ==
    /\ stage[r] = "validate"
    /\ Invalid(target[r], status[r])
    /\ pending' = pending \cup {target[r]}
    /\ refused' = refused \cup {target[r]}
    /\ Return(r)
    /\ UNCHANGED <<creating, completed, outcome, watcher, canceller, told, stream>>

RecordResponse(r) ==
    /\ stage[r] = "validate"
    /\ ~Invalid(target[r], status[r])
    /\ completed' = completed \cup {target[r]}
    /\ stage' = [stage EXCEPT ![r] = "send"]
    /\ UNCHANGED <<creating, pending, outcome, watcher, canceller, target,
                   status, told, refused, stream>>

SendResponse(r) ==
    /\ stage[r] = "send"
    /\ outcome' = [outcome EXCEPT ![target[r]] = status[r]]
    /\ stage' = [stage EXCEPT ![r] = "announce"]
    /\ UNCHANGED <<creating, pending, completed, watcher, canceller, target,
                   status, told, refused, stream>>

AnnounceResponse(r) ==
    /\ stage[r] = "announce"
    /\ Send(<<"resolved", target[r]>>)
    /\ told' = [told EXCEPT ![target[r]] = @ \cup {status[r]}]
    /\ Return(r)
    /\ UNCHANGED <<creating, pending, completed, outcome, watcher, canceller, refused>>

RespondStep(r) ==
    Reject(r) \/ RecordResponse(r) \/ SendResponse(r) \/ AnnounceResponse(r)

-----------------------------------------------------------------------------
(* spawn_timeout_watcher.                                                  *)

Watch(a, from, to) ==
    /\ watcher[a] = from
    /\ watcher' = [watcher EXCEPT ![a] = to]

\* biased select: the channel first, the deadline only if it is unresolved.
WatchOutcome(a) ==
    /\ outcome[a] # None
    /\ Watch(a, "wait", IF outcome[a] = "timedout" THEN "timeout" ELSE "record")
    /\ UNCHANGED <<creating, pending, completed, outcome, canceller, answers, stream>>

WatchDeadline(a) ==
    /\ outcome[a] = None
    /\ Watch(a, "wait", "timeout")
    /\ UNCHANGED <<creating, pending, completed, outcome, canceller, answers, stream>>

RecordOutcome(a) ==
    /\ Watch(a, "record", "done")
    /\ completed' = completed \cup {a}
    /\ UNCHANGED <<creating, pending, outcome, canceller, answers, stream>>

\* Mutant: the timeout is recorded and nobody is told.
RecordTimeoutOnly(a) ==
    /\ Watch(a, "timeout", "done")
    /\ completed' = completed \cup {a}
    /\ UNCHANGED <<creating, pending, outcome, canceller, answers, stream>>

RecordTimeout(a) ==
    /\ Watch(a, "timeout", "remove")
    /\ completed' = completed \cup {a}
    /\ UNCHANGED <<creating, pending, outcome, canceller, answers, stream>>

\* Mutant: the timeout is announced and sent although the entry is gone.
RemoveTimedOutAlways(a) ==
    /\ Watch(a, "remove", "announce")
    /\ pending' = pending \ {a}
    /\ UNCHANGED <<creating, completed, outcome, canceller, answers, stream>>

RemoveTimedOut(a) ==
    /\ Watch(a, "remove", IF a \in pending THEN "announce" ELSE "done")
    /\ pending' = pending \ {a}
    /\ UNCHANGED <<creating, completed, outcome, canceller, answers, stream>>

AnnounceTimeout(a) ==
    /\ Watch(a, "announce", "send")
    /\ Send(<<"resolved", a>>)
    /\ UNCHANGED <<creating, pending, completed, outcome, canceller, answers>>

SendTimeout(a) ==
    /\ Watch(a, "send", "done")
    /\ outcome' = [outcome EXCEPT ![a] = "timedout"]
    /\ UNCHANGED <<creating, pending, completed, canceller, answers, stream>>

WatchStep(a) ==
    \/ WatchOutcome(a) \/ WatchDeadline(a) \/ RecordOutcome(a) \/ RecordTimeout(a)
    \/ RemoveTimedOut(a) \/ AnnounceTimeout(a) \/ SendTimeout(a)

-----------------------------------------------------------------------------
(* cancel: the sender is dropped unused when the function returns.         *)

Cancelling(a, from, to) ==
    /\ canceller[a] = from
    /\ canceller' = [canceller EXCEPT ![a] = to]

\* wait_internal: the execution is cancelled while the executor waits; an
\* approval that is in the hands of a response or the watcher stays there.
Cancel(a) ==
    /\ creating[a] = "done"
    /\ Cancelling(a, "no", IF a \in pending THEN "record" ELSE "done")
    /\ pending' = pending \ {a}
    /\ UNCHANGED <<creating, completed, outcome, watcher, answers, stream>>

RecordCancel(a) ==
    /\ Cancelling(a, "record", "announce")
    /\ completed' = completed \cup {a}
    /\ UNCHANGED <<creating, pending, outcome, watcher, answers, stream>>

AnnounceCancel(a) ==
    /\ Cancelling(a, "announce", "drop")
    /\ Send(<<"resolved", a>>)
    /\ UNCHANGED <<creating, pending, completed, outcome, watcher, answers>>

DropSender(a) ==
    /\ Cancelling(a, "drop", "done")
    /\ outcome' = [outcome EXCEPT ![a] = "timedout"]
    /\ UNCHANGED <<creating, pending, completed, watcher, answers, stream>>

CancelStep(a) == RecordCancel(a) \/ AnnounceCancel(a) \/ DropSender(a)

-----------------------------------------------------------------------------
(* patch_stream: a snapshot, then the live patches.                        *)

Snapshot ==
    /\ sub = "off"
    /\ sub' = "snapshot"
    /\ view' = pending
    /\ UNCHANGED <<creating, pending, completed, outcome, watcher, canceller,
                   answers, queue, lagged>>

Subscribe ==
    /\ sub = "snapshot"
    /\ sub' = "live"
    /\ UNCHANGED <<creating, pending, completed, outcome, watcher, canceller,
                   answers, view, queue, lagged>>

\* A receiver that lagged gets a new snapshot, then what the channel still has.
Resnapshot ==
    /\ lagged
    /\ view' = pending
    /\ lagged' = FALSE
    /\ UNCHANGED <<creating, pending, completed, outcome, watcher, canceller,
                   answers, sub, queue>>

\* applyUpsertPatch: a removal of what is not there is ignored.
Receive ==
    /\ ~lagged
    /\ queue # <<>>
    /\ view' = IF Head(queue)[1] = "created" THEN view \cup {Head(queue)[2]}
               ELSE view \ {Head(queue)[2]}
    /\ queue' = Tail(queue)
    /\ UNCHANGED <<creating, pending, completed, outcome, watcher, canceller,
                   answers, sub, lagged>>

StreamStep == Subscribe \/ Resnapshot \/ Receive

-----------------------------------------------------------------------------
Next ==
    \/ \E a \in Approval : CreateStep(a) \/ WatchStep(a) \/ Cancel(a) \/ CancelStep(a)
    \/ \E r \in Responder, a \in Approval, o \in Outcome : Respond(r, a, o)
    \/ \E r \in Responder : RespondStep(r)
    \/ Snapshot
    \/ StreamStep

Spec == Init /\ [][Next]_vars

(***************************************************************************)
(* What was started goes on, and deadlines pass; nobody need ask, answer,  *)
(* cancel or connect.                                                      *)
(***************************************************************************)
Fairness ==
    /\ \A a \in Approval : /\ WF_vars(AnnounceCreated(a) \/ StartWatcher(a))
                           /\ WF_vars(WatchStep(a))
                           /\ WF_vars(CancelStep(a))
    /\ \A r \in Responder : WF_vars(RespondStep(r))
    /\ WF_vars(StreamStep)

FairSpec == Spec /\ Fairness

-----------------------------------------------------------------------------
(* Properties.                                                             *)

\* An outcome that respond reported as accepted is the one the channel gives to
\* the executor, however responses, the timeout and a cancellation race, and no
\* two responders are told different things.
ToldIsOutcome == \A a \in Approval : told[a] \subseteq {outcome[a]}

\* Who has the sender of an approval in hand: a response, the watcher, cancel.
Responding(a) == {r \in Responder : stage[r] \in {"validate", "send"} /\ target[r] = a}
TimingOut(a) == watcher[a] \in {"announce", "send"}
BeingCancelled(a) == canceller[a] \in {"record", "announce", "drop"}
Open(a) == creating[a] # "no" /\ outcome[a] = None

\* The sender of an approval is in one place, in the map or with one of the
\* three that take it out, from creation until the channel resolves, and
\* nowhere before and after.  Hence a resolved approval is never pending again,
\* although respond puts an entry back after it has let go of the map.
SenderInOnePlace ==
    \A a \in Approval :
      /\ (a \in pending \/ Responding(a) # {} \/ TimingOut(a) \/ BeingCancelled(a)) <=> Open(a)
      /\ a \in pending => Responding(a) = {} /\ ~TimingOut(a) /\ ~BeingCancelled(a)
      /\ TimingOut(a) => Responding(a) = {} /\ ~BeingCancelled(a)
      /\ BeingCancelled(a) => Responding(a) = {}
      /\ \A r, s \in Responding(a) : r = s

\* Every approval gets an outcome, by its deadline if nobody answers, unless a
\* response of the wrong kind was refused meanwhile: a deadline that passes while
\* respond validates finds no entry, the watcher ends, respond puts the entry back,
\* and the executor's wait ("Blocks until approved/denied/timed out") never ends.
ResolvedUnlessRefused ==
    \A a \in Approval : creating[a] # "no" ~> outcome[a] # None \/ a \in refused
=============================================================================
