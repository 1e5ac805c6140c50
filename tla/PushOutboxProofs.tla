--------------------------- MODULE PushOutboxProofs ---------------------------
(***************************************************************************)
(* What holds of PushOutbox for every number of rows, profiles, attempts   *)
(* and losses: the type invariant, the accounting of accepted copies, the  *)
(* reasons a row may die of, one digest per window, and the refinement of  *)
(* PushDelivery. All of them follow from one inductive invariant, Inv.     *)
(***************************************************************************)
EXTENDS PushOutbox, TLAPS

(* Ids are handed out in order, and a row that is not handed out is blank. *)
IdsInOrder ==
    \A p \in PushIds :
      /\ p > lastPush => push[p] = FreePush
      /\ p <= lastPush => push[p].status # "free"

(* The rows of the snapshot are pending until the worker records a result. *)
SnapshotIsPending ==
    \A p \in drain.batch : push[p].status = "pending"

(* attempts counts failed calls, and lags by one while one is recorded.    *)
AttemptsAreFailures ==
    \A p \in PushIds :
      push[p].attempts + (IF drain.at = p /\ drain.answer = "error" THEN 1 ELSE 0)
        <= failures[p]

(* Pruned rows have left the throttle window.                              *)
PrunedIsPast ==
    \A p \in PushIds : push[p].status = "pruned" => ~push[p].recent

Inv ==
    /\ TypeOK
    /\ IdsInOrder
    /\ SnapshotIsPending
    /\ CopiesAreAccountedFor
    /\ AttemptsAreFailures
    /\ DeathIsDeserved
    /\ PrunedIsPast
    /\ OneDigestPerWindow

USE PushAssumption DEF PushAssumption

LEMMA InitInv == Init => Inv
<1> SUFFICES ASSUME Init PROVE Inv
  OBVIOUS
<1> USE DEF Init, Zero, IdleDrain, FreePush, PushIds
<1>1. TypeOK
  BY DEF TypeOK, Push, Statuses, Writers
<1>2. IdsInOrder /\ SnapshotIsPending /\ PrunedIsPast /\ OneDigestPerWindow
  BY DEF IdsInOrder, SnapshotIsPending, PrunedIsPast, OneDigestPerWindow
<1>3. CopiesAreAccountedFor /\ AttemptsAreFailures /\ DeathIsDeserved
  BY DEF CopiesAreAccountedFor, AttemptsAreFailures, DeathIsDeserved
<1> QED
  BY <1>1, <1>2, <1>3 DEF Inv

-----------------------------------------------------------------------------
(* Writers.                                                                *)

(* A new row is blank but for its own fields; the rest of the table and    *)
(* the worker are as before.                                               *)
LEMMA InsertInv ==
  ASSUME Inv, NEW via \in Writers, NEW prof \in Profiles,
         Insert(via, prof), via = "if_due" => DigestDue(prof)
  PROVE  Inv'
<1>1. PICK n \in PushIds : n = lastPush + 1
  BY DEF Inv, TypeOK, Insert, PushIds
<1>2. /\ lastPush \in Nat /\ lastPush' = n /\ n \in Nat /\ n <= MaxPushes
      /\ UNCHANGED <<drain, ambiguous, lost, accepted, unrecorded, failures>>
  BY <1>1 DEF Inv, TypeOK, Insert, PushIds, bounds, hist
<1>3. push[n] = FreePush
  BY <1>1, <1>2 DEF Inv, IdsInOrder
<1>4. /\ push' \in [PushIds -> Push]
      /\ push'[n] = NewPush(via, prof)
      /\ \A p \in PushIds \ {n} : push'[p] = push[p]
  <2>1. NewPush(via, prof) \in Push
    BY DEF NewPush, Push, Statuses
  <2>2. push' = [push EXCEPT ![n] = NewPush(via, prof)]
    BY <1>1 DEF Insert
  <2> QED
    BY <2>1, <2>2 DEF Inv, TypeOK
<1>5. TypeOK'
  BY <1>2, <1>4 DEF Inv, TypeOK
<1>6. IdsInOrder'
  BY <1>1, <1>2, <1>4 DEF Inv, IdsInOrder, NewPush, PushIds
<1>7. SnapshotIsPending'
  BY <1>2, <1>4 DEF Inv, SnapshotIsPending, NewPush, TypeOK
<1>8. CopiesAreAccountedFor'
  BY <1>2, <1>3, <1>4 DEF Inv, CopiesAreAccountedFor, NewPush, FreePush
<1>9. AttemptsAreFailures' /\ DeathIsDeserved' /\ PrunedIsPast'
  BY <1>2, <1>3, <1>4
     DEF Inv, AttemptsAreFailures, DeathIsDeserved, PrunedIsPast, NewPush, FreePush
<1>10. OneDigestPerWindow'
  <2>1. \A p \in PushIds :
          via = "if_due" /\ push[p].via = "if_due" /\ push[p].recent =>
            push[p].profile # prof
    <3> SUFFICES ASSUME NEW p \in PushIds, via = "if_due",
                        push[p].via = "if_due", push[p].recent
                 PROVE  push[p].profile # prof
      OBVIOUS
    <3>1. push[p].status # "free"
      BY DEF Inv, TypeOK, IdsInOrder, FreePush, PushIds
    <3>2. push[p].status # "pruned"
      BY DEF Inv, PrunedIsPast
    <3> QED
      BY <3>1, <3>2 DEF DigestDue, IsDigest
  <2> QED
    BY <1>4, <2>1 DEF Inv, OneDigestPerWindow, NewPush
<1> QED
  BY <1>5, <1>6, <1>7, <1>8, <1>9, <1>10 DEF Inv

-----------------------------------------------------------------------------
(* Steps on one row.                                                       *)

(* The row p gets the status s and the attempts a. It may also become due  *)
(* or not, grow old and leave the throttle window.                         *)
RowChange(p, s, a) ==
    /\ push' \in [PushIds -> Push]
    /\ push'[p].status = s
    /\ push'[p].attempts = a
    /\ push'[p].via = push[p].via
    /\ push'[p].profile = push[p].profile
    /\ push[p].old => push'[p].old
    /\ push'[p].recent => push[p].recent
    /\ \A q \in PushIds \ {p} : push'[q] = push[q]

LEMMA RowChangeInv ==
  ASSUME Inv, NEW p \in PushIds, NEW s, NEW a \in Nat, RowChange(p, s, a),
         UNCHANGED lastPush, drain'.batch \subseteq drain.batch,
         \/ s = push[p].status /\ s # "free"
         \/ /\ push[p].status = "pending"
            /\ s \in {"sent", "dead"}
            /\ p \notin drain'.batch
  PROVE  /\ IdsInOrder' /\ SnapshotIsPending'
         /\ PrunedIsPast' /\ OneDigestPerWindow'
<1>1. push[p].status # "free" /\ s # "free"
  OBVIOUS
<1>2. p <= lastPush /\ p \in Nat /\ lastPush \in Nat
  BY <1>1 DEF Inv, TypeOK, IdsInOrder, FreePush, PushIds
<1>3. IdsInOrder'
  BY <1>1, <1>2 DEF Inv, IdsInOrder, RowChange, PushIds
<1>4. SnapshotIsPending'
  BY DEF Inv, TypeOK, SnapshotIsPending, RowChange
<1>5. PrunedIsPast'
  BY DEF Inv, PrunedIsPast, RowChange
<1>6. OneDigestPerWindow'
  BY DEF Inv, OneDigestPerWindow, RowChange
<1> QED
  BY <1>3, <1>4, <1>5, <1>6

(* The statements of the worker and the passing of time are row changes.   *)
LEMMA StatusChange ==
  ASSUME Inv, NEW p \in PushIds, NEW s \in Statuses,
         push' = [push EXCEPT ![p] = [@ EXCEPT !.status = s]]
  PROVE  RowChange(p, s, push[p].attempts) /\ push[p].attempts \in Nat
BY DEF Inv, TypeOK, Push, RowChange

LEMMA ReadyChange ==
  ASSUME Inv, NEW p \in PushIds, NEW r \in BOOLEAN,
         push' = [push EXCEPT ![p] = [@ EXCEPT !.ready = r]]
  PROVE  RowChange(p, push[p].status, push[p].attempts) /\ push[p].attempts \in Nat
BY DEF Inv, TypeOK, Push, RowChange

LEMMA AttemptsChange ==
  ASSUME Inv, NEW p \in PushIds, NEW a \in Nat,
         push' = [push EXCEPT ![p] = [@ EXCEPT !.attempts = a, !.ready = FALSE]]
  PROVE  RowChange(p, push[p].status, a)
<1>1. push \in [PushIds -> Push]
  BY DEF Inv, TypeOK
<1>2. [push[p] EXCEPT !.attempts = a, !.ready = FALSE] \in Push
  BY <1>1 DEF Push
<1> QED
  BY <1>1, <1>2 DEF Push, RowChange

-----------------------------------------------------------------------------
(* The worker. A step on the row in hand changes that row and no other.    *)

(* What InHand and the invariant say of the row that is looked at.         *)
LEMMA InHandFacts ==
  ASSUME Inv, NEW p \in PushIds, InHand(p)
  PROVE  /\ drain.at = 0 /\ drain.answer = "none"
         /\ push[p].status = "pending"
BY DEF Inv, TypeOK, SnapshotIsPending, InHand

LEMMA SendingFacts ==
  ASSUME Inv, NEW p \in PushIds, drain.at = p
  PROVE  p \in drain.batch /\ push[p].status = "pending"
BY DEF Inv, TypeOK, SnapshotIsPending, PushIds

LEMMA DrainStartInv ==
  ASSUME Inv, NEW B \in SUBSET PushIds, DrainStart(B)
  PROVE  Inv'
<1>1. /\ drain' = [batch |-> B, at |-> 0, answer |-> "none"]
      /\ drain.at = 0 /\ drain.answer = "none"
      /\ UNCHANGED <<push, lastPush, ambiguous, lost, accepted, unrecorded, failures>>
  BY DEF DrainStart, IdleDrain, bounds, hist
<1>2. TypeOK'
  BY <1>1 DEF Inv, TypeOK
<1>3. SnapshotIsPending'
  BY <1>1 DEF SnapshotIsPending, DrainStart, Ready
<1>4. /\ IdsInOrder' /\ CopiesAreAccountedFor' /\ AttemptsAreFailures'
      /\ DeathIsDeserved' /\ PrunedIsPast' /\ OneDigestPerWindow'
  BY <1>1 DEF Inv, IdsInOrder, CopiesAreAccountedFor, AttemptsAreFailures,
              DeathIsDeserved, PrunedIsPast, OneDigestPerWindow
<1> QED
  BY <1>2, <1>3, <1>4 DEF Inv

(* The row is looked at and dropped from the batch; nothing was sent.      *)
LEMMA ExpireInv ==
  ASSUME Inv, NEW p \in PushIds, Expire(p)
  PROVE  Inv'
<1>1. /\ drain.at = 0 /\ drain.answer = "none" /\ push[p].status = "pending"
      /\ push[p].old
  BY InHandFacts DEF Expire
<1>2. /\ drain' = [batch |-> drain.batch \ {p}, at |-> 0, answer |-> "none"]
      /\ UNCHANGED <<lastPush, ambiguous, lost, accepted, unrecorded, failures>>
  BY DEF Expire, Advance, bounds, hist
<1>3. RowChange(p, "dead", push[p].attempts) /\ push[p].attempts \in Nat
  BY StatusChange DEF Expire, MarkPushDead, Statuses
<1>4. TypeOK'
  BY <1>2, <1>3 DEF Inv, TypeOK, RowChange
<1>5. CopiesAreAccountedFor' /\ AttemptsAreFailures'
  BY <1>1, <1>2, <1>3 DEF Inv, RowChange, CopiesAreAccountedFor, AttemptsAreFailures
<1>6. DeathIsDeserved'
  BY <1>1, <1>2, <1>3 DEF Inv, RowChange, DeathIsDeserved
<1> QED
  BY <1>1, <1>2, <1>3, <1>4, <1>5, <1>6, RowChangeInv DEF Inv

LEMMA TokenErrorInv ==
  ASSUME Inv, NEW p \in PushIds, TokenError(p)
  PROVE  Inv'
<1>1. drain.at = 0 /\ drain.answer = "none"
  BY InHandFacts DEF TokenError
<1>2. /\ drain' = [batch |-> drain.batch \ {p}, at |-> 0, answer |-> "none"]
      /\ UNCHANGED <<push, lastPush, ambiguous, lost, accepted, unrecorded, failures>>
  BY DEF TokenError, Advance, bounds, hist
<1>3. TypeOK' /\ SnapshotIsPending'
  BY <1>2 DEF Inv, TypeOK, SnapshotIsPending
<1>4. CopiesAreAccountedFor' /\ AttemptsAreFailures'
  BY <1>1, <1>2 DEF Inv, CopiesAreAccountedFor, AttemptsAreFailures
<1>5. /\ IdsInOrder' /\ DeathIsDeserved' /\ PrunedIsPast' /\ OneDigestPerWindow'
  BY <1>2 DEF Inv, IdsInOrder, DeathIsDeserved, PrunedIsPast, OneDigestPerWindow
<1> QED
  BY <1>3, <1>4, <1>5 DEF Inv

LEMMA NoTokenInv ==
  ASSUME Inv, NEW p \in PushIds, NoToken(p)
  PROVE  Inv'
<1>1. drain.at = 0 /\ drain.answer = "none" /\ push[p].status = "pending"
  BY InHandFacts DEF NoToken
<1>2. /\ drain' = [batch |-> drain.batch \ {p}, at |-> 0, answer |-> "none"]
      /\ UNCHANGED <<lastPush, ambiguous, lost, accepted, unrecorded, failures>>
  BY DEF NoToken, Advance, bounds, hist
<1>3. PICK s \in {"pending", "dead"} :
        /\ RowChange(p, s, push[p].attempts) /\ push[p].attempts \in Nat
        /\ s = "dead" => push[p].via = "device"
  <2>1. CASE push[p].via = "device"
    BY <2>1, StatusChange DEF NoToken, MarkPushDead, Statuses
  <2>2. CASE push[p].via # "device"
    BY <2>2, <1>1, ReadyChange DEF NoToken
  <2> QED
    BY <2>1, <2>2
<1>4. TypeOK'
  BY <1>2, <1>3 DEF Inv, TypeOK, RowChange
<1>5. CopiesAreAccountedFor' /\ AttemptsAreFailures'
  BY <1>1, <1>2, <1>3 DEF Inv, RowChange, CopiesAreAccountedFor, AttemptsAreFailures
<1>6. DeathIsDeserved'
  BY <1>2, <1>3 DEF Inv, RowChange, DeathIsDeserved
<1> QED
  BY <1>1, <1>2, <1>3, <1>4, <1>5, <1>6, RowChangeInv DEF Inv
LEMMA SendStartInv ==
  ASSUME Inv, NEW p \in PushIds, SendStart(p)
  PROVE  Inv'
<1>1. drain.at = 0 /\ drain.answer = "none" /\ p \in drain.batch
  BY InHandFacts DEF SendStart, InHand
<1>2. /\ drain' = [batch |-> drain.batch, at |-> p, answer |-> "none"]
      /\ UNCHANGED <<push, lastPush, ambiguous, lost, accepted, unrecorded, failures>>
  BY <1>1 DEF SendStart, bounds, hist, Inv, TypeOK
<1>3. TypeOK' /\ SnapshotIsPending'
  BY <1>1, <1>2 DEF Inv, TypeOK, SnapshotIsPending
<1>4. CopiesAreAccountedFor' /\ AttemptsAreFailures'
  BY <1>1, <1>2 DEF Inv, CopiesAreAccountedFor, AttemptsAreFailures
<1>5. /\ IdsInOrder' /\ DeathIsDeserved' /\ PrunedIsPast' /\ OneDigestPerWindow'
  BY <1>2 DEF Inv, IdsInOrder, DeathIsDeserved, PrunedIsPast, OneDigestPerWindow
<1> QED
  BY <1>3, <1>4, <1>5 DEF Inv

(* FCM's answers: the table is as before, the histories count them.        *)
LEMMA AnswerInv ==
  ASSUME Inv, NEW p \in PushIds,
         SendAccepted(p) \/ SendFails(p) \/ SendAmbiguous(p)
  PROVE  Inv'
<1>1. /\ drain.at = p /\ drain.answer = "none"
      /\ push[p].status = "pending" /\ p \in drain.batch
      /\ UNCHANGED <<push, lastPush, lost>>
  BY SendingFacts DEF SendAccepted, SendFails, SendAmbiguous, bounds
<1>2. PICK ans \in {"ok", "error"} :
        drain' = [batch |-> drain.batch, at |-> p, answer |-> ans]
  BY <1>1 DEF SendAccepted, SendFails, SendAmbiguous, Inv, TypeOK
<1>3. TypeOK'
  BY <1>1, <1>2 DEF Inv, TypeOK, SendAccepted, SendFails, SendAmbiguous, bounds
<1>4. CopiesAreAccountedFor'
  <2>1. CASE SendAccepted(p)
    BY <1>1, <2>1 DEF Inv, TypeOK, CopiesAreAccountedFor, SendAccepted
  <2>2. CASE SendFails(p)
    BY <1>1, <2>2 DEF Inv, TypeOK, CopiesAreAccountedFor, SendFails
  <2>3. CASE SendAmbiguous(p)
    BY <1>1, <2>3 DEF Inv, TypeOK, CopiesAreAccountedFor, SendAmbiguous
  <2> QED
    BY <2>1, <2>2, <2>3
<1>5. AttemptsAreFailures' /\ DeathIsDeserved'
  <2>1. CASE SendAccepted(p)
    BY <1>1, <2>1 DEF Inv, TypeOK, Push, AttemptsAreFailures, DeathIsDeserved, SendAccepted
  <2>2. CASE SendFails(p) \/ SendAmbiguous(p)
    <3>1. failures' = [failures EXCEPT ![p] = @ + 1]
      BY <2>2 DEF SendFails, SendAmbiguous
    <3>2. \A q \in PushIds : failures[q] \in Nat /\ push[q].attempts \in Nat
      BY DEF Inv, TypeOK, Push
    <3>3. AttemptsAreFailures'
      BY <1>1, <1>2, <3>1, <3>2 DEF Inv, TypeOK, AttemptsAreFailures
    <3>4. DeathIsDeserved'
      BY <1>1, <3>1, <3>2 DEF Inv, TypeOK, DeathIsDeserved
    <3> QED
      BY <3>3, <3>4
  <2> QED
    BY <2>1, <2>2
<1>6. IdsInOrder' /\ SnapshotIsPending' /\ PrunedIsPast' /\ OneDigestPerWindow'
  BY <1>1, <1>2
     DEF Inv, IdsInOrder, SnapshotIsPending, PrunedIsPast, OneDigestPerWindow
<1> QED
  BY <1>3, <1>4, <1>5, <1>6 DEF Inv

LEMMA MarkPushSentInv ==
  ASSUME Inv, NEW p \in PushIds, MarkPushSent(p)
  PROVE  Inv'
<1>1. drain.at = p /\ drain.answer = "ok" /\ push[p].status = "pending"
  BY SendingFacts DEF MarkPushSent
<1>2. /\ drain' = [batch |-> drain.batch \ {p}, at |-> 0, answer |-> "none"]
      /\ UNCHANGED <<lastPush, ambiguous, lost, accepted, unrecorded, failures>>
  BY DEF MarkPushSent, Advance, bounds, hist
<1>3. RowChange(p, "sent", push[p].attempts) /\ push[p].attempts \in Nat
  BY StatusChange DEF MarkPushSent, Statuses
<1>4. TypeOK'
  BY <1>2, <1>3 DEF Inv, TypeOK, RowChange
<1>5. CopiesAreAccountedFor' /\ AttemptsAreFailures'
  <2>1. \A q \in PushIds : accepted[q] \in Nat /\ unrecorded[q] \in Nat /\ q # 0
    BY DEF Inv, TypeOK, PushIds
  <2>2. CopiesAreAccountedFor'
    BY <1>1, <1>2, <1>3, <2>1 DEF Inv, RowChange, CopiesAreAccountedFor
  <2>3. AttemptsAreFailures'
    BY <1>1, <1>2, <1>3, <2>1 DEF Inv, RowChange, AttemptsAreFailures
  <2> QED
    BY <2>2, <2>3
<1>6. DeathIsDeserved'
  BY <1>2, <1>3 DEF Inv, RowChange, DeathIsDeserved
<1> QED
  BY <1>1, <1>2, <1>3, <1>4, <1>5, <1>6, RowChangeInv DEF Inv

(* The failed call that is recorded here is one more than attempts shows.  *)
LEMMA RecordFailureInv ==
  ASSUME Inv, NEW p \in PushIds, RecordFailure(p)
  PROVE  Inv'
<1>1. /\ drain.at = p /\ drain.answer = "error" /\ push[p].status = "pending"
      /\ push[p].attempts + 1 <= failures[p]
      /\ push[p].attempts \in Nat /\ failures[p] \in Nat
  BY SendingFacts DEF RecordFailure, Inv, AttemptsAreFailures, TypeOK, Push
<1>2. /\ drain' = [batch |-> drain.batch \ {p}, at |-> 0, answer |-> "none"]
      /\ UNCHANGED <<lastPush, ambiguous, lost, accepted, unrecorded, failures>>
  BY DEF RecordFailure, Advance, bounds, hist
<1>3. PICK s \in {"pending", "dead"}, a \in Nat :
        /\ RowChange(p, s, a)
        /\ a <= failures[p]
        /\ s = "dead" => failures[p] >= PushMaxAttempts
  <2>1. CASE push[p].attempts + 1 >= PushMaxAttempts
    BY <1>1, <2>1, StatusChange DEF RecordFailure, MarkPushDead, Statuses
  <2>2. CASE ~(push[p].attempts + 1 >= PushMaxAttempts)
    <3>1. push[p].attempts + 1 \in Nat
      BY <1>1
    <3>2. push' = [push EXCEPT ![p] =
                    [@ EXCEPT !.attempts = push[p].attempts + 1, !.ready = FALSE]]
      BY <2>2 DEF RecordFailure
    <3>3. RowChange(p, push[p].status, push[p].attempts + 1)
      BY <3>1, <3>2, AttemptsChange
    <3> QED
      BY <1>1, <3>1, <3>3
  <2> QED
    BY <2>1, <2>2
<1>4. TypeOK'
  BY <1>2, <1>3 DEF Inv, TypeOK, RowChange
<1>5. CopiesAreAccountedFor' /\ AttemptsAreFailures'
  BY <1>1, <1>2, <1>3
     DEF Inv, RowChange, CopiesAreAccountedFor, AttemptsAreFailures, PushIds
<1>6. DeathIsDeserved'
  BY <1>1, <1>2, <1>3 DEF Inv, RowChange, DeathIsDeserved
<1> QED
  BY <1>1, <1>2, <1>3, <1>4, <1>5, <1>6, RowChangeInv DEF Inv
(* A lost record moves the accepted copy in hand to the unrecorded ones.   *)
LEMMA LoseRecordInv ==
  ASSUME Inv, LoseRecord, drain'.batch \subseteq drain.batch,
         drain' = [batch |-> drain'.batch, at |-> 0, answer |-> "none"]
  PROVE  Inv'
<1>1. /\ UNCHANGED <<push, lastPush, ambiguous, accepted, failures>>
      /\ drain'.at = 0 /\ drain'.answer = "none"
  BY DEF LoseRecord
<1>2. TypeOK'
  <2>1. lost' \in 0 .. MaxLost
    BY DEF Inv, TypeOK, LoseRecord
  <2>2. unrecorded' \in [PushIds -> Nat]
    BY DEF Inv, TypeOK, LoseRecord
  <2>3. drain' \in [batch : SUBSET PushIds, at : PushIds \cup {0},
                    answer : {"none", "ok", "error"}]
    BY DEF Inv, TypeOK
  <2> QED
    BY <1>1, <2>1, <2>2, <2>3 DEF Inv, TypeOK
<1>3. CopiesAreAccountedFor'
  <2>1. \A q \in PushIds : accepted[q] \in Nat /\ unrecorded[q] \in Nat /\ q # 0
    BY DEF Inv, TypeOK, PushIds
  <2>2. CASE drain.answer = "ok"
    <3>1. drain.at \in PushIds /\ push[drain.at].status = "pending"
      BY <2>2, SendingFacts DEF Inv, TypeOK
    <3>2. unrecorded' = [unrecorded EXCEPT ![drain.at] = @ + 1]
      BY <2>2 DEF LoseRecord
    <3> QED
      BY <1>1, <2>1, <2>2, <3>1, <3>2 DEF Inv, TypeOK, CopiesAreAccountedFor
  <2>3. CASE drain.answer # "ok"
    BY <1>1, <2>1, <2>3 DEF Inv, CopiesAreAccountedFor, LoseRecord
  <2> QED
    BY <2>2, <2>3
<1>4. AttemptsAreFailures'
  <2>1. \A q \in PushIds : push[q].attempts \in Nat /\ failures[q] \in Nat /\ q # 0
    BY DEF Inv, TypeOK, Push, PushIds
  <2> QED
    BY <1>1, <2>1 DEF Inv, AttemptsAreFailures
<1>5. /\ IdsInOrder' /\ SnapshotIsPending' /\ DeathIsDeserved'
      /\ PrunedIsPast' /\ OneDigestPerWindow'
  BY <1>1 DEF Inv, IdsInOrder, SnapshotIsPending, DeathIsDeserved, PrunedIsPast,
              OneDigestPerWindow
<1> QED
  BY <1>2, <1>3, <1>4, <1>5 DEF Inv

LEMMA RecordLostInv ==
  ASSUME Inv, NEW p \in PushIds, RecordLost(p)
  PROVE  Inv'
BY LoseRecordInv DEF RecordLost, Advance

LEMMA RestartInv ==
  ASSUME Inv, Restart
  PROVE  Inv'
BY LoseRecordInv DEF Restart, IdleDrain

LEMMA PruneInv ==
  ASSUME Inv, NEW P \in SUBSET PushIds, PrunePushes(P)
  PROVE  Inv'
<1>1. /\ push' = [p \in PushIds |->
                    IF p \in P THEN [push[p] EXCEPT !.status = "pruned"]
                               ELSE push[p]]
      /\ \A p \in P : push[p].status = "sent" /\ ~push[p].recent
      /\ drain.batch = {} /\ drain.at = 0
      /\ UNCHANGED <<lastPush, drain, ambiguous, lost, accepted, unrecorded, failures>>
  BY DEF PrunePushes, IdleDrain, bounds, hist
<1>2. /\ push \in [PushIds -> Push]
      /\ push' \in [PushIds -> Push]
      /\ \A p \in PushIds :
           /\ push'[p].via = push[p].via
           /\ push'[p].profile = push[p].profile
           /\ push'[p].attempts = push[p].attempts
           /\ push'[p].old = push[p].old
           /\ push'[p].recent = push[p].recent
           /\ IF p \in P THEN push'[p].status = "pruned" ELSE push'[p] = push[p]
  BY <1>1, SMTT(60) DEF Inv, TypeOK, Push, Statuses
<1>3. TypeOK'
  BY <1>1, <1>2 DEF Inv, TypeOK
<1>4. IdsInOrder'
  <2>1. \A p \in PushIds : p > lastPush \/ p <= lastPush
    BY DEF Inv, TypeOK, PushIds
  <2>2. \A p \in P : p <= lastPush
    BY <1>1, <2>1 DEF Inv, IdsInOrder, FreePush
  <2>3. \A p \in P : ~(p > lastPush)
    BY <2>2 DEF Inv, TypeOK, PushIds
  <2> QED
    BY <1>1, <1>2, <2>2, <2>3 DEF Inv, IdsInOrder
<1>5. CopiesAreAccountedFor' /\ AttemptsAreFailures'
  BY <1>1, <1>2 DEF Inv, CopiesAreAccountedFor, AttemptsAreFailures
<1>6. SnapshotIsPending' /\ DeathIsDeserved' /\ PrunedIsPast' /\ OneDigestPerWindow'
  BY <1>1, <1>2
     DEF Inv, SnapshotIsPending, DeathIsDeserved, PrunedIsPast, OneDigestPerWindow
<1> QED
  BY <1>3, <1>4, <1>5, <1>6 DEF Inv

LEMMA TimeInv ==
  ASSUME Inv, NEW p \in PushIds,
         BackoffEnds(p) \/ GrowsOld(p) \/ WindowPasses(p)
  PROVE  Inv'
<1>1. UNCHANGED <<lastPush, drain, ambiguous, lost, accepted, unrecorded, failures>>
  BY DEF BackoffEnds, GrowsOld, WindowPasses, bounds, hist
<1>2. /\ RowChange(p, push[p].status, push[p].attempts)
      /\ push[p].attempts \in Nat
      /\ push[p].status # "free"
  <2>1. CASE BackoffEnds(p)
    BY <2>1, ReadyChange DEF BackoffEnds
  <2>2. CASE GrowsOld(p)
    <3>1. push \in [PushIds -> Push] /\ push[p] \in Push /\ push[p].status = "pending"
      BY <2>2 DEF GrowsOld, Inv, TypeOK
    <3>2. push' = [push EXCEPT ![p] = [push[p] EXCEPT !.old = TRUE]]
      BY <2>2 DEF GrowsOld
    <3>3. [push[p] EXCEPT !.old = TRUE] \in Push
      BY <3>1 DEF Push
    <3>4. /\ push' \in [PushIds -> Push] /\ push'[p] = [push[p] EXCEPT !.old = TRUE]
          /\ \A q \in PushIds \ {p} : push'[q] = push[q]
      BY <3>1, <3>2, <3>3
    <3>5. QED
      BY <3>1, <3>4 DEF Push, RowChange
  <2>3. CASE WindowPasses(p)
    <3>1. push[p].status # "free"
      <4>1. p > lastPush \/ p <= lastPush
        BY DEF Inv, TypeOK, PushIds
      <4>2. push[p] # FreePush
        BY <2>3 DEF WindowPasses, FreePush
      <4> QED
        BY <4>1, <4>2 DEF Inv, IdsInOrder
    <3>2. RowChange(p, push[p].status, push[p].attempts) /\ push[p].attempts \in Nat
      <4>1. push \in [PushIds -> Push]
        BY DEF Inv, TypeOK
      <4>2. [push[p] EXCEPT !.recent = FALSE] \in Push
        BY <4>1 DEF Push
      <4>3. push' = [push EXCEPT ![p] = [push[p] EXCEPT !.recent = FALSE]]
        BY <2>3 DEF WindowPasses
      <4>4. push' \in [PushIds -> Push]
        BY <4>1, <4>2, <4>3
      <4>5. push'[p] = [push[p] EXCEPT !.recent = FALSE]
        BY <4>1, <4>3
      <4>6. \A q \in PushIds \ {p} : push'[q] = push[q]
        BY <4>1, <4>3
      <4> QED
        BY <4>1, <4>4, <4>5, <4>6 DEF Push, RowChange
    <3> QED
      BY <3>1, <3>2
  <2> QED
    BY <2>1, <2>2, <2>3
<1>3. TypeOK'
  BY <1>1, <1>2 DEF Inv, TypeOK, RowChange
<1>4. CopiesAreAccountedFor' /\ AttemptsAreFailures'
  BY <1>1, <1>2 DEF Inv, RowChange, CopiesAreAccountedFor, AttemptsAreFailures
<1>5. DeathIsDeserved'
  BY <1>1, <1>2 DEF Inv, RowChange, DeathIsDeserved
<1> QED
  BY <1>1, <1>2, <1>3, <1>4, <1>5, RowChangeInv DEF Inv

-----------------------------------------------------------------------------
(* The theorems.                                                           *)

LEMMA NextInv == Inv /\ [Next]_vars => Inv'
<1> SUFFICES ASSUME Inv, [Next]_vars PROVE Inv'
  OBVIOUS
<1>1. CASE Enqueue
  BY <1>1, InsertInv DEF Enqueue, EnqueueDigestIfDue, EnqueueUnthrottled, Writers
<1>2. CASE Drain
  BY <1>2, DrainStartInv, ExpireInv, TokenErrorInv, NoTokenInv, SendStartInv,
     AnswerInv, MarkPushSentInv, RecordFailureInv, RecordLostInv
     DEF Drain, WorkerStep, FCMAnswers
<1>3. CASE Restart
  BY <1>3, RestartInv
<1>4. CASE \E P \in SUBSET PushIds : PrunePushes(P)
  BY <1>4, PruneInv
<1>5. CASE Time
  BY <1>5, TimeInv DEF Time
<1>6. CASE UNCHANGED vars
  BY <1>6 DEF vars, bounds, hist, Inv, TypeOK, IdsInOrder, SnapshotIsPending,
     CopiesAreAccountedFor, AttemptsAreFailures, DeathIsDeserved, PrunedIsPast,
     OneDigestPerWindow
<1> QED
  BY <1>1, <1>2, <1>3, <1>4, <1>5, <1>6 DEF Next

(* Inv, the inductive invariant, holds in every reachable state.           *)
THEOREM InvHolds == Spec => []Inv
BY InitInv, NextInv, PTL DEF Spec

(* The table, the worker and the histories are well typed.                 *)
THEOREM TypeCorrect == Spec => []TypeOK
<1>1. Inv => TypeOK
  BY DEF Inv
<1> QED
  BY <1>1, InvHolds, PTL

(* Every accepted copy is accounted for: a device sees a notification a    *)
(* second time only after the record of an accepted copy was lost.         *)
THEOREM Accounting == Spec => []CopiesAreAccountedFor
<1>1. Inv => CopiesAreAccountedFor
  BY DEF Inv
<1> QED
  BY <1>1, InvHolds, PTL

(* A row is given up for age, for a missing token of its one device, or    *)
(* after as many failed calls as the configured number of attempts.        *)
THEOREM NoEarlyDeath == Spec => []DeathIsDeserved
<1>1. Inv => DeathIsDeserved
  BY DEF Inv
<1> QED
  BY <1>1, InvHolds, PTL

(* The transaction of EnqueueDigestIfDue keeps its own digests apart by a  *)
(* throttle window, whatever happens to the earlier one in the meantime.   *)
THEOREM DigestThrottle == Spec => []OneDigestPerWindow
<1>1. Inv => OneDigestPerWindow
  BY DEF Inv
<1> QED
  BY <1>1, InvHolds, PTL

-----------------------------------------------------------------------------
(* The refinement of PushDelivery.                                         *)

LEMMA InitRefines == Init => Promise!Init
BY DEF Init, Promise!Init, phase, PhaseOf, FreePush, Zero

(* One row changes its status: the phase of that notification changes.     *)
LEMMA PhaseChange ==
  ASSUME Inv, NEW p \in PushIds, NEW s, NEW a, RowChange(p, s, a)
  PROVE  phase' = [phase EXCEPT ![p] = PhaseOf[s]]
<1>1. \A q \in PushIds :
        phase'[q] = IF q = p THEN PhaseOf[s] ELSE phase[q]
  BY DEF RowChange, phase
<1> QED
  BY <1>1 DEF phase

LEMMA StepRefines == Inv /\ [Next]_vars => [Promise!Next]_(Promise!vars)
<1> SUFFICES ASSUME Inv, [Next]_vars
             PROVE  Promise!Next \/ UNCHANGED <<phase, accepted>>
  BY DEF Promise!vars
<1>1. ASSUME NEW via \in Writers, NEW prof \in Profiles, Insert(via, prof)
      PROVE  Promise!Next
  <2>1. PICK n \in PushIds : n = lastPush + 1
    BY <1>1 DEF Inv, TypeOK, Insert, PushIds
  <2>2. push[n].status = "free"
    BY <2>1 DEF Inv, TypeOK, IdsInOrder, FreePush
  <2>3. push' = [push EXCEPT ![n] = NewPush(via, prof)] /\ UNCHANGED accepted
    BY <1>1, <2>1 DEF Insert, hist
  <2>4. \A q \in PushIds : push'[q].status = IF q = n THEN "pending" ELSE push[q].status
    BY <2>3 DEF Inv, TypeOK, NewPush
  <2>5. phase' = [phase EXCEPT ![n] = "queued"]
    <3>1. PhaseOf["pending"] = "queued"
      BY DEF PhaseOf
    <3>2. \A q \in PushIds : phase'[q] = IF q = n THEN "queued" ELSE phase[q]
      BY <2>4, <3>1 DEF phase
    <3> QED
      BY <3>2 DEF phase
  <2>6. Promise!Submit(n)
    BY <2>2, <2>3, <2>5 DEF Promise!Submit, phase, PhaseOf
  <2> QED
    BY <2>6 DEF Promise!Next
<1>2. CASE UNCHANGED <<push, accepted>>
  BY <1>2 DEF phase
<1>3. ASSUME NEW p \in PushIds, NEW s \in {"pending", "dead"}, NEW a,
             RowChange(p, s, a), push[p].status = "pending", UNCHANGED accepted
      PROVE  Promise!Next \/ UNCHANGED <<phase, accepted>>
  <2>1. phase' = [phase EXCEPT ![p] = PhaseOf[s]]
    BY <1>3, PhaseChange
  <2>2. phase[p] = "queued"
    BY <1>3 DEF phase, PhaseOf
  <2>3. CASE s = "dead"
    BY <1>3, <2>1, <2>2, <2>3 DEF Promise!Drop, Promise!Next, PhaseOf
  <2>4. CASE s = "pending"
    BY <1>3, <2>1, <2>2, <2>4 DEF phase, PhaseOf
  <2> QED
    BY <2>3, <2>4
<1>4. ASSUME NEW p \in PushIds, MarkPushSent(p)
      PROVE  Promise!Next
  <2>1. drain.at = p /\ drain.answer = "ok" /\ push[p].status = "pending"
    BY <1>4, SendingFacts DEF MarkPushSent
  <2>2. accepted[p] > 0
    BY <2>1 DEF Inv, TypeOK, CopiesAreAccountedFor
  <2>3. RowChange(p, "sent", push[p].attempts) /\ UNCHANGED accepted
    BY <1>4, StatusChange DEF MarkPushSent, Statuses, hist
  <2>4. phase[p] = "queued" /\ phase' = [phase EXCEPT ![p] = "done"]
    BY <2>1, <2>3, PhaseChange DEF phase, PhaseOf
  <2> QED
    BY <2>2, <2>3, <2>4 DEF Promise!Complete, Promise!Next
<1>5. ASSUME NEW p \in PushIds, SendAccepted(p) \/ SendAmbiguous(p)
      PROVE  Promise!Next
  <2>1. drain.at = p /\ push[p].status = "pending"
    BY <1>5, SendingFacts DEF SendAccepted, SendAmbiguous
  <2>2. accepted' = [accepted EXCEPT ![p] = @ + 1] /\ UNCHANGED push
    BY <1>5 DEF SendAccepted, SendAmbiguous
  <2>3. phase[p] = "queued" /\ UNCHANGED phase
    BY <2>1, <2>2 DEF phase, PhaseOf
  <2> QED
    BY <2>2, <2>3 DEF Promise!Deliver, Promise!Next
<1>6. ASSUME NEW P \in SUBSET PushIds, PrunePushes(P)
      PROVE  Promise!Next
  <2>1. /\ \A p \in P : push[p].status = "sent"
        /\ \A p \in PushIds :
             push'[p].status = IF p \in P THEN "pruned" ELSE push[p].status
        /\ UNCHANGED accepted
    BY <1>6 DEF PrunePushes, Inv, TypeOK, Push, hist
  <2>2. \A p \in P : phase[p] = "done"
    BY <2>1 DEF phase, PhaseOf
  <2>3. phase' = [p \in PushIds |-> IF p \in P THEN "forgotten" ELSE phase[p]]
    BY <2>1 DEF phase, PhaseOf
  <2> QED
    BY <2>1, <2>2, <2>3 DEF Promise!Forget, Promise!Next
<1>7. CASE Enqueue
  BY <1>1, <1>7 DEF Enqueue, EnqueueDigestIfDue, EnqueueUnthrottled, Writers
<1>8. CASE Drain
  <2>1. ASSUME NEW B \in SUBSET PushIds, DrainStart(B) PROVE UNCHANGED <<push, accepted>>
    BY <2>1 DEF DrainStart, hist
  <2>2. ASSUME NEW p \in PushIds,
               TokenError(p) \/ SendStart(p) \/ SendFails(p) \/ RecordLost(p)
        PROVE  UNCHANGED <<push, accepted>>
    BY <2>2 DEF TokenError, SendStart, SendFails, RecordLost, LoseRecord, hist
  <2>3. ASSUME NEW p \in PushIds, Expire(p) \/ NoToken(p)
        PROVE  Promise!Next \/ UNCHANGED <<phase, accepted>>
    <3>1. push[p].status = "pending" /\ UNCHANGED accepted
      BY <2>3, InHandFacts DEF Expire, NoToken, hist
    <3>2. \E s \in {"pending", "dead"} : RowChange(p, s, push[p].attempts)
      BY <2>3, <3>1, StatusChange, ReadyChange
         DEF Expire, NoToken, MarkPushDead, Statuses
    <3> QED
      BY <1>3, <3>1, <3>2
  <2>4. ASSUME NEW p \in PushIds, RecordFailure(p)
        PROVE  Promise!Next \/ UNCHANGED <<phase, accepted>>
    <3>1. push[p].status = "pending" /\ UNCHANGED accepted /\ push[p].attempts + 1 \in Nat
      BY <2>4, SendingFacts DEF RecordFailure, hist, Inv, TypeOK, Push
    <3>2. \E s \in {"pending", "dead"}, a \in Nat : RowChange(p, s, a)
      <4>1. CASE push[p].attempts + 1 >= PushMaxAttempts
        BY <2>4, <4>1, StatusChange DEF RecordFailure, MarkPushDead, Statuses
      <4>2. CASE ~(push[p].attempts + 1 >= PushMaxAttempts)
        <5>1. push' = [push EXCEPT ![p] =
                        [@ EXCEPT !.attempts = push[p].attempts + 1, !.ready = FALSE]]
          BY <2>4, <4>2 DEF RecordFailure
        <5> QED
          BY <3>1, <5>1, AttemptsChange
      <4> QED
        BY <4>1, <4>2
    <3> QED
      BY <1>3, <3>1, <3>2
  <2> QED
    BY <1>2, <1>4, <1>5, <1>8, <2>1, <2>2, <2>3, <2>4
       DEF Drain, WorkerStep, FCMAnswers
<1>9. CASE Restart
  BY <1>2, <1>9 DEF Restart, LoseRecord
<1>10. CASE Time
  <2>1. PICK p \in PushIds : BackoffEnds(p) \/ GrowsOld(p) \/ WindowPasses(p)
    BY <1>10 DEF Time
  <2>2. UNCHANGED accepted /\ \A q \in PushIds : push'[q].status = push[q].status
    BY <2>1 DEF BackoffEnds, GrowsOld, WindowPasses, Inv, TypeOK, Push, hist
  <2> QED
    BY <2>2 DEF phase
<1>11. CASE UNCHANGED vars
  BY <1>2, <1>11 DEF vars, hist
<1> QED
  BY <1>6, <1>7, <1>8, <1>9, <1>10, <1>11 DEF Next

(* The outbox keeps its promise: it implements PushDelivery.               *)
THEOREM Refinement == Spec => KeepsPromise
BY InitRefines, StepRefines, InvHolds, PTL
   DEF Spec, KeepsPromise, Promise!Spec
=============================================================================
