------------------------------ MODULE PushOutbox ------------------------------
(***************************************************************************)
(* linkari's table push_outbox and the worker that drains it to Firebase   *)
(* Cloud Messaging (FCM).                                                  *)
(*                                                                         *)
(* Many writers insert rows: the server's goroutines and, through the same *)
(* database file, the command lines. One worker goroutine per server takes *)
(* a snapshot of the rows that are due, and for each of them looks at its  *)
(* age, looks up a device token, calls FCM and records the result. The     *)
(* record is a statement of its own whose error is ignored, so a restart   *)
(* or a failing write between the call and the record loses the result.    *)
(*                                                                         *)
(* Which token a lookup finds is a free choice here: found, none, error.   *)
(* Time is abstract: next_attempt comes, a row passes the age ceiling, a   *)
(* row leaves the throttle window of its profile.                          *)
(***************************************************************************)
EXTENDS Naturals, FiniteSets

CONSTANTS
    MaxPushes,       \* a bound on the rows that are inserted
    Profiles,        \* the profiles of the notifications
    NoProfile,
    DrainLimit,      \* pushDrainLimit: rows of one drain pass
    PushMaxAttempts, \* pushMaxAttempts: failed calls before a row is dead
    MaxAmbiguous,    \* a bound on calls that fail although FCM accepted
    MaxLost          \* a bound on writes that fail and on restarts

ASSUME PushAssumption ==
    /\ MaxPushes \in Nat
    /\ NoProfile \notin Profiles
    /\ DrainLimit \in Nat \ {0}
    /\ PushMaxAttempts \in Nat \ {0}
    /\ MaxAmbiguous \in Nat /\ MaxLost \in Nat

PushIds == 1 .. MaxPushes

(* The entry points that insert a row; the first three store kind 'digest'.*)
Writers == {"if_due", "device", "prefilter", "transcript"}
IsDigest(via) == via \in {"if_due", "device", "prefilter"}

Statuses == {"free", "pending", "sent", "dead", "pruned"}

Push == [status : Statuses, via : Writers, profile : Profiles \cup {NoProfile},
         attempts : Nat, ready : BOOLEAN, old : BOOLEAN, recent : BOOLEAN]

VARIABLES
    push,        \* the table
    lastPush,    \* the AUTOINCREMENT counter
    drain,       \* the worker: rest of its snapshot, row in hand, FCM's answer
    ambiguous, lost,   \* used up parts of the bounds
    accepted,    \* history: copies FCM accepted, per row
    unrecorded,  \* history: accepted copies whose record never happened
    failures     \* history: failed calls, per row

hist == <<accepted, unrecorded, failures>>
bounds == <<ambiguous, lost>>
vars == <<push, lastPush, drain, bounds, hist>>

FreePush == [status |-> "free", via |-> "transcript", profile |-> NoProfile,
             attempts |-> 0, ready |-> TRUE, old |-> FALSE, recent |-> FALSE]

IdleDrain == [batch |-> {}, at |-> 0, answer |-> "none"]

Zero == [p \in PushIds |-> 0]

Init ==
    /\ push = [p \in PushIds |-> FreePush]
    /\ lastPush = 0
    /\ drain = IdleDrain
    /\ ambiguous = 0 /\ lost = 0
    /\ accepted = Zero /\ unrecorded = Zero /\ failures = Zero

-----------------------------------------------------------------------------
(* Writers.                                                                *)

NewPush(via, prof) ==
    [status |-> "pending", via |-> via, profile |-> prof, attempts |-> 0,
     ready |-> TRUE, old |-> FALSE, recent |-> TRUE]

Insert(via, prof) ==
    /\ lastPush < MaxPushes
    /\ lastPush' = lastPush + 1
    /\ push' = [push EXCEPT ![lastPush + 1] = NewPush(via, prof)]
    /\ UNCHANGED <<drain, bounds, hist>>

(* Mutant of DigestDue: only rows that are still pending are counted.      *)
NoDigestPending(prof) ==
    ~\E p \in PushIds :
       /\ push[p].status = "pending"
       /\ IsDigest(push[p].via)
       /\ push[p].profile = prof
       /\ push[p].recent

(* SELECT MAX(created_at) over the digest rows of the profile, sent and    *)
(* dead ones included, against the throttle window.                        *)
DigestDue(prof) ==
    ~\E p \in PushIds :
       /\ push[p].status \notin {"free", "pruned"}
       /\ IsDigest(push[p].via)
       /\ push[p].profile = prof
       /\ push[p].recent

(* The check and the insert are one transaction.                           *)
EnqueueDigestIfDue(prof) == DigestDue(prof) /\ Insert("if_due", prof)

(* EnqueueDevicePush, EnqueuePrefilterPush; transcripts, watchdog alerts   *)
(* and subscription digests: no throttle.                                  *)
EnqueueUnthrottled(via, prof) ==
    /\ via \in {"device", "prefilter", "transcript"}
    /\ Insert(via, prof)

-----------------------------------------------------------------------------
(* The drain pass.                                                         *)

(* Mutant of Ready: sent rows are taken again.                             *)
ReadyOrSent ==
    {p \in PushIds : push[p].status \in {"pending", "sent"} /\ push[p].ready}

Ready == {p \in PushIds : push[p].status = "pending" /\ push[p].ready}

(* PendingPushes: the first DrainLimit rows that are due.                  *)
DrainStart(B) ==
    /\ drain = IdleDrain
    /\ B # {}
    /\ B \subseteq Ready
    /\ \A p \in B, q \in Ready \ B : p < q
    /\ B = Ready \/ Cardinality(B) = DrainLimit
    /\ Cardinality(B) <= DrainLimit
    /\ drain' = [drain EXCEPT !.batch = B]
    /\ UNCHANGED <<push, lastPush, bounds, hist>>

InHand(p) ==
    /\ drain.at = 0
    /\ p \in drain.batch
    /\ \A q \in drain.batch : p <= q

Advance(p) == drain' = [batch |-> drain.batch \ {p}, at |-> 0, answer |-> "none"]

MarkPushDead(p) == push' = [push EXCEPT ![p] = [@ EXCEPT !.status = "dead"]]

Expire(p) ==
    /\ InHand(p)
    /\ push[p].old
    /\ MarkPushDead(p)
    /\ Advance(p)
    /\ UNCHANGED <<lastPush, bounds, hist>>

(* Mutant of TokenError: the lookup comes before the age check.            *)
TokenErrorAtAnyAge(p) ==
    /\ InHand(p)
    /\ Advance(p)
    /\ UNCHANGED <<push, lastPush, bounds, hist>>

(* The lookup fails: the row is left as it is, due again at the next pass. *)
TokenError(p) ==
    /\ InHand(p)
    /\ ~push[p].old
    /\ Advance(p)
    /\ UNCHANGED <<push, lastPush, bounds, hist>>

(* Mutant of NoToken: every push without a token is dead.                  *)
NoTokenIsDead(p) ==
    /\ InHand(p)
    /\ ~push[p].old
    /\ MarkPushDead(p)
    /\ Advance(p)
    /\ UNCHANGED <<lastPush, bounds, hist>>

(* No token: a push for one device is dead, any other is parked.           *)
NoToken(p) ==
    /\ InHand(p)
    /\ ~push[p].old
    /\ IF push[p].via = "device"
         THEN MarkPushDead(p)
         ELSE push' = [push EXCEPT ![p] = [@ EXCEPT !.ready = FALSE]]
    /\ Advance(p)
    /\ UNCHANGED <<lastPush, bounds, hist>>

(* A token is found and the call to FCM begins.                            *)
SendStart(p) ==
    /\ InHand(p)
    /\ ~push[p].old
    /\ drain' = [drain EXCEPT !.at = p]
    /\ UNCHANGED <<push, lastPush, bounds, hist>>

SendAccepted(p) ==
    /\ drain.at = p /\ p # 0 /\ drain.answer = "none"
    /\ drain' = [drain EXCEPT !.answer = "ok"]
    /\ accepted' = [accepted EXCEPT ![p] = @ + 1]
    /\ UNCHANGED <<push, lastPush, bounds, unrecorded, failures>>

SendFails(p) ==
    /\ drain.at = p /\ p # 0 /\ drain.answer = "none"
    /\ drain' = [drain EXCEPT !.answer = "error"]
    /\ failures' = [failures EXCEPT ![p] = @ + 1]
    /\ UNCHANGED <<push, lastPush, bounds, accepted, unrecorded>>

(* The call returns an error (a timeout, a lost answer), and yet FCM has   *)
(* accepted the notification.                                              *)
SendAmbiguous(p) ==
    /\ drain.at = p /\ p # 0 /\ drain.answer = "none"
    /\ ambiguous < MaxAmbiguous
    /\ ambiguous' = ambiguous + 1
    /\ drain' = [drain EXCEPT !.answer = "error"]
    /\ failures' = [failures EXCEPT ![p] = @ + 1]
    /\ accepted' = [accepted EXCEPT ![p] = @ + 1]
    /\ unrecorded' = [unrecorded EXCEPT ![p] = @ + 1]
    /\ UNCHANGED <<push, lastPush, lost>>

(* Mutant of MarkPushSent: the error of the call is ignored.               *)
MarkPushSentAnyway(p) ==
    /\ drain.at = p /\ drain.answer # "none"
    /\ push' = [push EXCEPT ![p] = [@ EXCEPT !.status = "sent"]]
    /\ Advance(p)
    /\ UNCHANGED <<lastPush, bounds, hist>>

MarkPushSent(p) ==
    /\ drain.at = p /\ drain.answer = "ok"
    /\ push' = [push EXCEPT ![p] = [@ EXCEPT !.status = "sent"]]
    /\ Advance(p)
    /\ UNCHANGED <<lastPush, bounds, hist>>

(* MarkPushDead after the last attempt, else BumpPushAttempt.              *)
RecordFailure(p) ==
    /\ drain.at = p /\ drain.answer = "error"
    /\ IF push[p].attempts + 1 >= PushMaxAttempts
         THEN MarkPushDead(p)
         ELSE push' = [push EXCEPT ![p] =
                 [@ EXCEPT !.attempts = push[p].attempts + 1, !.ready = FALSE]]
    /\ Advance(p)
    /\ UNCHANGED <<lastPush, bounds, hist>>

LoseRecord ==
    /\ lost < MaxLost
    /\ lost' = lost + 1
    /\ unrecorded' = IF drain.answer = "ok"
                       THEN [unrecorded EXCEPT ![drain.at] = @ + 1]
                       ELSE unrecorded
    /\ UNCHANGED <<push, lastPush, ambiguous, accepted, failures>>

(* The write of the result fails; its error is ignored.                    *)
RecordLost(p) ==
    /\ drain.at = p /\ drain.answer # "none"
    /\ Advance(p)
    /\ LoseRecord

Restart ==
    /\ drain # IdleDrain
    /\ drain' = IdleDrain
    /\ LoseRecord

(* PrunePushes runs in the worker between two passes: sent rows of a week  *)
(* ago, which is out of every throttle window in use.                      *)
PrunePushes(P) ==
    /\ drain = IdleDrain
    /\ P # {}
    /\ \A p \in P : push[p].status = "sent" /\ ~push[p].recent
    /\ push' = [p \in PushIds |->
                  IF p \in P THEN [push[p] EXCEPT !.status = "pruned"]
                             ELSE push[p]]
    /\ UNCHANGED <<lastPush, drain, bounds, hist>>

-----------------------------------------------------------------------------
(* Time.                                                                   *)

BackoffEnds(p) ==
    /\ push[p].status = "pending" /\ ~push[p].ready
    /\ push' = [push EXCEPT ![p] = [@ EXCEPT !.ready = TRUE]]
    /\ UNCHANGED <<lastPush, drain, bounds, hist>>

GrowsOld(p) ==
    /\ push[p].status = "pending" /\ ~push[p].old
    /\ push' = [push EXCEPT ![p] = [@ EXCEPT !.old = TRUE]]
    /\ UNCHANGED <<lastPush, drain, bounds, hist>>

WindowPasses(p) ==
    /\ push[p].status # "pruned" /\ push[p].recent
    /\ push' = [push EXCEPT ![p] = [@ EXCEPT !.recent = FALSE]]
    /\ UNCHANGED <<lastPush, drain, bounds, hist>>

-----------------------------------------------------------------------------
Enqueue ==
    \E prof \in Profiles :
      \/ EnqueueDigestIfDue(prof)
      \/ \E via \in Writers : EnqueueUnthrottled(via, prof)

(* What the worker does by itself, and what it waits for FCM to do.        *)
WorkerStep ==
    \/ \E B \in SUBSET PushIds : DrainStart(B)
    \/ \E p \in PushIds :
         \/ Expire(p) \/ TokenError(p) \/ NoToken(p) \/ SendStart(p)
         \/ MarkPushSent(p) \/ RecordFailure(p) \/ RecordLost(p)

FCMAnswers ==
    \E p \in PushIds : SendAccepted(p) \/ SendFails(p) \/ SendAmbiguous(p)

Drain == WorkerStep \/ FCMAnswers

Time == \E p \in PushIds : BackoffEnds(p) \/ GrowsOld(p) \/ WindowPasses(p)

Next ==
    \/ Enqueue
    \/ Drain
    \/ Restart
    \/ \E P \in SUBSET PushIds : PrunePushes(P)
    \/ Time

Spec == Init /\ [][Next]_vars

(* The worker's ticker keeps firing, its statements return, time passes.   *)
(* No device has to have a token, and FCM has to answer no call: it is     *)
(* called without a deadline, by a client without a timeout.               *)
FairSpec ==
    /\ Spec
    /\ WF_vars(WorkerStep)
    /\ \A p \in PushIds : WF_vars(BackoffEnds(p)) /\ WF_vars(GrowsOld(p))

-----------------------------------------------------------------------------
(* Properties.                                                             *)

(* The table and the worker's variables have their types, and the row that *)
(* is being sent is one of the snapshot.                                   *)
TypeOK ==
    /\ push \in [PushIds -> Push]
    /\ lastPush \in 0 .. MaxPushes
    /\ drain \in [batch : SUBSET PushIds, at : PushIds \cup {0},
                  answer : {"none", "ok", "error"}]
    /\ drain.at # 0 => drain.at \in drain.batch
    /\ drain.answer # "none" => drain.at # 0
    /\ ambiguous \in 0 .. MaxAmbiguous
    /\ lost \in 0 .. MaxLost
    /\ accepted \in [PushIds -> Nat]
    /\ unrecorded \in [PushIds -> Nat]
    /\ failures \in [PushIds -> Nat]

(* EnqueueDigestIfDue never lets two of its own digests of one profile     *)
(* into one throttle window, even after the first one is sent or dead.     *)
OneDigestPerWindow ==
    \A p, q \in PushIds :
      /\ push[p].via = "if_due" /\ push[p].recent
      /\ push[q].via = "if_due" /\ push[q].recent
      /\ push[p].profile = push[q].profile
      => p = q

(* A notification reaches the device twice only if the record of an        *)
(* accepted copy was lost: every accepted copy is accounted for by the     *)
(* row's sent mark, by the record being written now, or by such a loss.    *)
CopiesAreAccountedFor ==
    \A p \in PushIds :
      accepted[p] = unrecorded[p]
                    + (IF push[p].status \in {"sent", "pruned"} THEN 1 ELSE 0)
                    + (IF drain.at = p /\ drain.answer = "ok" THEN 1 ELSE 0)

(* A row dies of failed calls, not of anything else, unless it is too old  *)
(* or its one device has no token: before that all attempts were used.     *)
DeathIsDeserved ==
    \A p \in PushIds :
      push[p].status = "dead" =>
        \/ push[p].old
        \/ push[p].via = "device"
        \/ failures[p] >= PushMaxAttempts

(* What the outbox promises: see PushDelivery.                             *)
PhaseOf == [free |-> "absent", pending |-> "queued", sent |-> "done",
            dead |-> "dropped", pruned |-> "forgotten"]

phase == [p \in PushIds |-> PhaseOf[push[p].status]]

Promise == INSTANCE PushDelivery
             WITH Pushes <- PushIds, phase <- phase, copies <- accepted

KeepsPromise == Promise!Spec

(* A call to FCM is under way.                                             *)
AwaitsFCM == drain.at # 0 /\ drain.answer = "none"

(* Every notification is sent or given up in the end, without a token,     *)
(* with FCM refusing every call, behind a full batch of rows whose lookup  *)
(* always fails: from some time on none of the finitely many is pending.   *)
(* One thing alone can keep them so: the single worker waits for ever for  *)
(* FCM's answer to one call, and then nothing behind that call settles.    *)
EveryPushSettles ==
    \/ <>[]AwaitsFCM
    \/ <>[](\A p \in PushIds : push[p].status # "pending")
=============================================================================
