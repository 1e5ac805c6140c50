-------------------------- MODULE ControlBridgeProofs --------------------------
(***************************************************************************)
(* Type correctness of ControlBridge, and the correlation of answers with  *)
(* calls: while queue and pty are in step, every answer finds its call;    *)
(* and in step or not, the bridge is an Exchange.                          *)
(***************************************************************************)
EXTENDS ControlBridge, TLAPS

(* The lines in the pty are the first entries of the queue; the entries    *)
(* after them are those, each once, of the calls that have yet to write.   *)
Aligned ==
    /\ Len(wire) <= Len(queue)
    /\ \A i \in 1..Len(wire) : queue[i] = wire[i]
    /\ \A i \in 1..Len(queue) : pc[queue[i]] = "queued" <=> i > Len(wire)
    /\ \A i \in 1..Len(queue) : pc[queue[i]] # "idle"
    /\ \A i, j \in 1..Len(queue) : queue[i] = queue[j] => i = j
    /\ \A c \in Calls : pc[c] = "queued" => \E i \in 1..Len(queue) : queue[i] = c
    /\ \A c \in Calls : respCh[c] \in {c, None}

Inv == TypeOK /\ (~skewed => Aligned)

-----------------------------------------------------------------------------
(* Facts about the queue as a sequence *)

LEMMA QueueSeq ==
  ASSUME NEW S, NEW q \in Seq(S)
  PROVE  /\ Len(q) \in Nat
         /\ \A i \in 1..Len(q) : q[i] \in S
         /\ q # <<>> => /\ Len(q) > 0
                        /\ Head(q) = q[1] /\ Head(q) \in S
                        /\ Tail(q) \in Seq(S)
                        /\ Len(Tail(q)) = Len(q) - 1
                        /\ \A i \in 1..Len(Tail(q)) : Tail(q)[i] = q[i + 1]
OBVIOUS

LEMMA QueueAppend ==
  ASSUME NEW S, NEW q \in Seq(S), NEW e \in S
  PROVE  /\ Append(q, e) \in Seq(S)
         /\ Len(Append(q, e)) = Len(q) + 1
         /\ Append(q, e)[Len(q) + 1] = e
         /\ \A i \in 1..Len(q) : Append(q, e)[i] = q[i]
OBVIOUS

(* An element taken out: the ones before it stay, the others move up.      *)
LEMMA TakeOut ==
  ASSUME NEW q \in Seq(Calls), NEW k \in 1..Len(q),
         NEW r, r = SubSeq(q, 1, k - 1) \o SubSeq(q, k + 1, Len(q))
  PROVE  /\ r \in Seq(Calls)
         /\ Len(r) = Len(q) - 1
         /\ \A i \in 1..(k - 1) : r[i] = q[i]
         /\ \A i \in k..(Len(q) - 1) : r[i] = q[i + 1]
<1> DEFINE a == SubSeq(q, 1, k - 1)
           b == SubSeq(q, k + 1, Len(q))
<1>1. /\ a \in Seq(Calls) /\ Len(a) = k - 1
      /\ \A i \in 1..(k - 1) : a[i] = q[i]
  OBVIOUS
<1>2. /\ b \in Seq(Calls) /\ Len(b) = Len(q) - k
      /\ \A i \in 1..(Len(q) - k) : b[i] = q[i + k]
  <2>1. b \in Seq(Calls) /\ Len(b) = Len(q) - k
    OBVIOUS
  <2>2. ASSUME NEW i \in 1..(Len(q) - k) PROVE b[i] = q[i + k]
    OBVIOUS
  <2> QED
    BY <2>1, <2>2
<1> HIDE DEF a, b
<1>3. /\ a \o b \in Seq(Calls) /\ Len(a \o b) = Len(q) - 1
      /\ \A i \in 1..(k - 1) : (a \o b)[i] = a[i]
      /\ \A i \in k..(Len(q) - 1) : (a \o b)[i] = b[i - (k - 1)]
  BY <1>1, <1>2
<1>4. r = a \o b
  BY DEF a, b
<1>5. \A i \in k..(Len(q) - 1) : (a \o b)[i] = q[i + 1]
  <2>1. ASSUME NEW i \in k..(Len(q) - 1)
        PROVE  i - (k - 1) \in 1..(Len(q) - k) /\ (i - (k - 1)) + k = i + 1
    OBVIOUS
  <2> QED
    BY <1>2, <1>3, <2>1
<1> QED
  BY <1>1, <1>3, <1>4, <1>5

-----------------------------------------------------------------------------
LEMMA InitInv == Init => Inv
<1> SUFFICES ASSUME Init PROVE Inv
  OBVIOUS
<1>1. Len(queue) = 0 /\ Len(wire) = 0 /\ queue \in Seq(Calls)
      /\ wire \in Seq(Calls \cup {Detach})
  BY DEF Init
<1>2. TypeOK
  BY <1>1 DEF Init, TypeOK, Places, StopPlaces
<1>3. Aligned
  BY <1>1 DEF Init, Aligned
<1> QED
  BY <1>2, <1>3 DEF Inv

(* What a head that is popped and an answer that is offered leave true.    *)
LEMMA DeliverTyped ==
  ASSUME Inv, NEW lines \in Calls \cup {Detach}, DeliverResponse(lines)
  PROVE  /\ queue' \in Seq(Calls)
         /\ pc' \in [Calls -> Places]
         /\ respCh' \in [Calls -> Calls \cup {Detach, None}]
<1>1. CASE queue = <<>> /\ UNCHANGED <<pc, respCh, queue>>
  BY <1>1 DEF Inv, TypeOK
<1>2. CASE queue # <<>>
  <2>1. Head(queue) \in Calls /\ Tail(queue) \in Seq(Calls)
    BY <1>2, QueueSeq DEF Inv, TypeOK
  <2> QED
    BY <1>2, <2>1 DEF DeliverResponse, Inv, TypeOK, Places, Returned
<1> QED
  BY <1>1, <1>2 DEF DeliverResponse

LEMMA EnqueueInv ==
  ASSUME Inv, NEW c \in Calls, Enqueue(c)
  PROVE  Inv'
<1> USE DEF senderVars, streamVars, stopVars
<1>1. CASE cancelled
  <2>1. TypeOK'
    BY <1>1 DEF Enqueue, Inv, TypeOK, Places, Returned
  <2>2. ASSUME ~skewed' PROVE Aligned'
    <3>1. Aligned /\ queue' = queue /\ wire' = wire /\ respCh' = respCh
      BY <1>1, <2>2 DEF Enqueue, Inv
    <3>2. \A d \in Calls : d # c => pc'[d] = pc[d]
      BY <1>1 DEF Enqueue, Inv, TypeOK
    <3>3. pc[c] = "idle" /\ pc'[c] = "cancelled"
      BY <1>1 DEF Enqueue, Inv, TypeOK
    <3>4. \A i \in 1..Len(queue) : queue[i] \in Calls /\ queue[i] # c
      BY <3>1, <3>3, QueueSeq DEF Aligned, Inv, TypeOK
    <3> QED
      BY <3>1, <3>2, <3>3, <3>4 DEF Aligned
  <2> QED
    BY <2>1, <2>2 DEF Inv
<1>2. CASE ~cancelled
  <2>1. TypeOK'
    <3>1. Append(queue, c) \in Seq(Calls)
      BY QueueAppend DEF Inv, TypeOK
    <3> QED
      BY <1>2, <3>1 DEF Enqueue, Inv, TypeOK, Places, Returned
  <2>2. ASSUME ~skewed' PROVE Aligned'
    <3>1. Aligned /\ wire' = wire /\ respCh' = respCh /\ queue' = Append(queue, c)
      BY <1>2, <2>2 DEF Enqueue, Inv
    <3>2. \A d \in Calls : d # c => pc'[d] = pc[d]
      BY <1>2 DEF Enqueue, Inv, TypeOK
    <3>3. pc[c] = "idle" /\ pc'[c] = "queued"
      BY <1>2 DEF Enqueue, Inv, TypeOK
    <3>4. \A i \in 1..Len(queue) : queue[i] \in Calls /\ queue[i] # c
      BY <3>1, <3>3, QueueSeq DEF Aligned, Inv, TypeOK
    <3>5. /\ Len(queue) \in Nat /\ Len(wire) \in Nat
          /\ Len(queue') = Len(queue) + 1 /\ queue'[Len(queue) + 1] = c
          /\ \A i \in 1..Len(queue) : queue'[i] = queue[i]
      BY <3>1, QueueSeq, QueueAppend DEF Inv, TypeOK
    <3>6. Len(wire) <= Len(queue)
      BY <3>1 DEF Aligned
    <3>7. \A i \in 1..Len(queue') :
            \/ i \in 1..Len(queue) /\ queue'[i] = queue[i] /\ pc'[queue'[i]] = pc[queue[i]]
            \/ i = Len(queue) + 1 /\ queue'[i] = c
      BY <3>2, <3>4, <3>5
    <3>8. \A i \in 1..Len(wire') : queue'[i] = wire'[i]
      BY <3>1, <3>5, <3>6 DEF Aligned
    <3>9. \A i \in 1..Len(queue') : /\ pc'[queue'[i]] = "queued" <=> i > Len(wire')
                                    /\ pc'[queue'[i]] # "idle"
      BY <3>1, <3>3, <3>5, <3>6, <3>7 DEF Aligned
    <3>10. \A i, j \in 1..Len(queue') : queue'[i] = queue'[j] => i = j
      BY <3>1, <3>4, <3>5, <3>7 DEF Aligned
    <3>11. ASSUME NEW d \in Calls, pc'[d] = "queued"
           PROVE  \E i \in 1..Len(queue') : queue'[i] = d
      <4>1. CASE d = c
        <5>1. Len(queue) + 1 \in 1..Len(queue')
          BY <3>5
        <5> QED
          BY <3>5, <4>1, <5>1
      <4>2. CASE d # c
        <5>1. PICK i \in 1..Len(queue) : queue[i] = d
          BY <3>1, <3>2, <3>11, <4>2 DEF Aligned
        <5>2. i \in 1..Len(queue')
          BY <3>5
        <5> QED
          BY <3>5, <5>1, <5>2
      <4> QED
        BY <4>1, <4>2
    <3> QED
      BY <3>1, <3>5, <3>6, <3>8, <3>9, <3>10, <3>11 DEF Aligned
  <2> QED
    BY <2>1, <2>2 DEF Inv
<1> QED
  BY <1>1, <1>2

(* While nothing is skewed, the call that writes in turn is the first of   *)
(* those that have yet to write.                                           *)
LEMMA WriteInv ==
  ASSUME Inv, NEW c \in Calls, Write(c)
  PROVE  Inv'
<1> USE DEF senderVars, streamVars, stopVars
<1>1. TypeOK'
  BY QueueAppend DEF Write, Inv, TypeOK, Places, Returned
<1>2. ASSUME ~skewed' PROVE Aligned'
  <2>1. /\ Aligned /\ ~OutOfTurn(c) /\ pc[c] = "queued"
        /\ queue' = queue /\ respCh' = respCh /\ wire' = Append(wire, c)
    BY <1>2 DEF Write, Inv
  <2>2. \A d \in Calls : d # c => pc'[d] = pc[d]
    BY DEF Write, Inv, TypeOK
  <2>3. pc'[c] \in {"waiting", "answered"}
    BY DEF Write, Inv, TypeOK
  <2>4. /\ Len(queue) \in Nat /\ Len(wire) \in Nat
        /\ \A i \in 1..Len(queue) : queue[i] \in Calls
        /\ Len(wire') = Len(wire) + 1 /\ wire'[Len(wire) + 1] = c
        /\ \A i \in 1..Len(wire) : wire'[i] = wire[i]
    BY <2>1, QueueSeq, QueueAppend DEF Inv, TypeOK
  <2>5. PICK k \in 1..Len(queue) : queue[k] = c
    BY <2>1 DEF Aligned
  <2>6. k > Len(wire)
    BY <2>1, <2>5 DEF Aligned
  <2>7. k = Len(wire) + 1
    <3>1. ASSUME k > Len(wire) + 1 PROVE FALSE
      <4>1. Len(wire) + 1 \in 1..Len(queue) /\ Len(wire) + 1 < k
        BY <2>4, <3>1
      <4>2. pc[queue[Len(wire) + 1]] = "queued"
        BY <2>1, <2>4, <4>1 DEF Aligned
      <4> QED
        BY <2>1, <2>5, <4>1, <4>2 DEF OutOfTurn
    <3> QED
      BY <2>4, <2>6, <3>1
  <2>8. \A i \in 1..Len(wire') : queue'[i] = wire'[i]
    BY <2>1, <2>4, <2>5, <2>7 DEF Aligned
  <2>9. \A i \in 1..Len(queue) :
          IF i = k THEN pc'[queue[i]] \in {"waiting", "answered"}
                   ELSE queue[i] # c /\ pc'[queue[i]] = pc[queue[i]]
    BY <2>1, <2>2, <2>3, <2>4, <2>5 DEF Aligned
  <2>10. \A i \in 1..Len(queue') : pc'[queue'[i]] = "queued" <=> i > Len(wire')
    BY <2>1, <2>4, <2>7, <2>9 DEF Aligned
  <2>11. \A i \in 1..Len(queue') : pc'[queue'[i]] # "idle"
    BY <2>1, <2>9 DEF Aligned
  <2>12. \A d \in Calls : pc'[d] = "queued" => \E i \in 1..Len(queue') : queue'[i] = d
    BY <2>1, <2>2, <2>3 DEF Aligned
  <2> QED
    BY <2>1, <2>4, <2>7, <2>8, <2>10, <2>11, <2>12 DEF Aligned
<1> QED
  BY <1>1, <1>2 DEF Inv

LEMMA WriteFailsInv ==
  ASSUME Inv, NEW c \in Calls, WriteFails(c)
  PROVE  Inv'
<1> USE DEF senderVars, streamVars, stopVars
<1> DEFINE k == CHOOSE i \in 1..Len(queue) : queue[i] = c
<1>1. pc[c] = "queued" /\ pc' = [pc EXCEPT ![c] = "failed"]
      /\ wire' = wire /\ respCh' = respCh /\ skewed' = skewed
      /\ queue' = Without(c)
  BY DEF WriteFails
<1>2. /\ \A d \in Calls : d # c => pc'[d] = pc[d]
      /\ pc'[c] = "failed"
  BY <1>1 DEF Inv, TypeOK
<1>3. Len(queue) \in Nat /\ Len(wire) \in Nat
      /\ \A i \in 1..Len(queue) : queue[i] \in Calls
  BY QueueSeq DEF Inv, TypeOK
<1>4. CASE \A i \in 1..Len(queue) : queue[i] # c
  <2>1. queue' = queue
    BY <1>1, <1>4 DEF Without
  <2>2. TypeOK'
    BY <1>1, <2>1 DEF WriteFails, Inv, TypeOK, Places, Returned
  <2>3. skewed
    BY <1>1, <1>4 DEF Inv, Aligned
  <2> QED
    BY <1>1, <2>2, <2>3 DEF Inv
<1>5. CASE \E i \in 1..Len(queue) : queue[i] = c
  <2>1. k \in 1..Len(queue) /\ queue[k] = c
    BY <1>5
  <2>2. queue' = SubSeq(queue, 1, k - 1) \o SubSeq(queue, k + 1, Len(queue))
    BY <1>1, <1>5 DEF Without
  <2> HIDE DEF k
  <2>3. /\ queue' \in Seq(Calls)
        /\ Len(queue') = Len(queue) - 1
        /\ \A i \in 1..(k - 1) : queue'[i] = queue[i]
        /\ \A i \in k..(Len(queue) - 1) : queue'[i] = queue[i + 1]
    <3>1. queue \in Seq(Calls)
      BY DEF Inv, TypeOK
    <3>2. ASSUME NEW r, r = SubSeq(queue, 1, k - 1) \o SubSeq(queue, k + 1, Len(queue))
          PROVE  /\ r \in Seq(Calls)
                 /\ Len(r) = Len(queue) - 1
                 /\ \A i \in 1..(k - 1) : r[i] = queue[i]
                 /\ \A i \in k..(Len(queue) - 1) : r[i] = queue[i + 1]
      <4>1. k \in 1..Len(queue)
        BY <2>1
      <4> QED
        BY <3>1, <3>2, <4>1, TakeOut
    <3> QED
      BY <2>2, <3>2
  <2>4. TypeOK'
    BY <1>1, <2>3 DEF WriteFails, Inv, TypeOK, Places, Returned
  <2>5. ASSUME ~skewed' PROVE Aligned'
    <3>1. Aligned
      BY <1>1, <2>5 DEF Inv
    <3>2. k > Len(wire)
      BY <1>1, <2>1, <3>1 DEF Aligned
    <3>3. \A i \in 1..Len(queue') :
            \/ i < k /\ i \in 1..Len(queue) /\ queue'[i] = queue[i]
            \/ i >= k /\ i + 1 \in 1..Len(queue) /\ queue'[i] = queue[i + 1]
      BY <1>3, <2>1, <2>3
    <3>4. \A i \in 1..Len(queue) : i # k => queue[i] # c
      BY <2>1, <3>1 DEF Aligned
    <3>5. \A i \in 1..Len(queue) : i # k => pc'[queue[i]] = pc[queue[i]]
      BY <1>2, <1>3, <3>4
    <3>6. Len(wire') <= Len(queue')
      BY <1>1, <1>3, <2>1, <2>3, <3>2
    <3>7. \A i \in 1..Len(wire') : queue'[i] = wire'[i]
      <4>1. \A i \in 1..Len(wire) : i \in 1..(k - 1)
        BY <1>3, <2>1, <3>2
      <4> QED
        BY <1>1, <2>3, <3>1, <4>1 DEF Aligned
    <3>8. ASSUME NEW i \in 1..Len(queue')
          PROVE  /\ pc'[queue'[i]] = "queued" <=> i > Len(wire')
                 /\ pc'[queue'[i]] # "idle"
      <4>1. CASE i < k /\ i \in 1..Len(queue) /\ queue'[i] = queue[i]
        BY <1>1, <2>1, <3>1, <3>5, <4>1 DEF Aligned
      <4>2. CASE i >= k /\ i + 1 \in 1..Len(queue) /\ queue'[i] = queue[i + 1]
        <5>1. pc'[queue'[i]] = pc[queue[i + 1]] /\ i > Len(wire) /\ i + 1 > Len(wire)
          BY <1>3, <2>1, <3>2, <3>5, <4>2
        <5> QED
          BY <1>1, <3>1, <4>2, <5>1 DEF Aligned
      <4> QED
        BY <3>3, <4>1, <4>2
    <3>9. ASSUME NEW i \in 1..Len(queue'), NEW j \in 1..Len(queue'),
                 queue'[i] = queue'[j]
          PROVE  i = j
      <4> DEFINE up(n) == IF n < k THEN n ELSE n + 1
      <4>1. /\ up(i) \in 1..Len(queue) /\ queue'[i] = queue[up(i)]
            /\ up(j) \in 1..Len(queue) /\ queue'[j] = queue[up(j)]
        BY <2>1, <3>3
      <4>2. queue[up(i)] = queue[up(j)]
        BY <3>9, <4>1
      <4>3. \A m, n \in 1..Len(queue) : queue[m] = queue[n] => m = n
        BY <3>1 DEF Aligned
      <4>4. up(i) = up(j)
        <5> HIDE DEF up
        <5> QED
          BY <4>1, <4>2, <4>3
      <4> QED
        BY <1>3, <2>1, <2>3, <4>4
    <3>10. ASSUME NEW d \in Calls, pc'[d] = "queued"
           PROVE  \E i \in 1..Len(queue') : queue'[i] = d
      <4>1. d # c /\ pc[d] = "queued"
        BY <1>2, <3>10
      <4>2. PICK i \in 1..Len(queue) : queue[i] = d
        BY <3>1, <4>1 DEF Aligned
      <4>3. CASE i < k
        <5>1. i \in 1..(k - 1) /\ i \in 1..Len(queue')
          BY <1>3, <2>1, <2>3, <4>3
        <5> QED
          BY <2>3, <4>2, <5>1
      <4>4. CASE i > k
        <5>1. i - 1 \in k..(Len(queue) - 1) /\ i - 1 \in 1..Len(queue') /\ (i - 1) + 1 = i
          BY <1>3, <2>1, <2>3, <4>4
        <5>2. queue'[i - 1] = d
          BY <2>3, <4>2, <5>1
        <5> QED
          BY <5>1, <5>2
      <4> QED
        BY <1>3, <2>1, <4>1, <4>2, <4>3, <4>4
    <3> QED
      BY <1>1, <3>1, <3>6, <3>7, <3>8, <3>9, <3>10 DEF Aligned
  <2> QED
    BY <2>4, <2>5 DEF Inv
<1> QED
  BY <1>4, <1>5

(* A call that gives up, or that CancelAll wakes, has written before.      *)
LEMMA WaiterLeaves ==
  ASSUME Inv, UNCHANGED <<respCh, queue, streamVars, skewed>>,
         TypeOK',
         \A c \in Calls : \/ pc'[c] = pc[c]
                          \/ pc[c] = "waiting" /\ pc'[c] \in Returned
  PROVE  Inv'
<1> USE DEF senderVars, streamVars, stopVars
<1>1. ASSUME ~skewed' PROVE Aligned'
  <2>1. /\ Aligned /\ queue' = queue /\ wire' = wire /\ respCh' = respCh
    BY <1>1 DEF Inv
  <2>2. \A i \in 1..Len(queue) : queue[i] \in Calls
    BY QueueSeq DEF Inv, TypeOK
  <2>3. \A c \in Calls : /\ pc'[c] = "queued" <=> pc[c] = "queued"
                         /\ pc'[c] = "idle" <=> pc[c] = "idle"
    BY DEF Returned
  <2> QED
    BY <2>1, <2>2, <2>3 DEF Aligned
<1> QED
  BY <1>1 DEF Inv

LEMMA GiveUpInv ==
  ASSUME Inv, NEW c \in Calls, Timeout(c) \/ ContextDone(c)
  PROVE  Inv'
<1> USE DEF senderVars, streamVars, stopVars
<1>1. PICK place \in {"timedOut", "cancelled"} : GiveUp(c, place)
  BY DEF Timeout, ContextDone
<1>2. TypeOK'
  BY <1>1 DEF GiveUp, Inv, TypeOK, Places, Returned
<1> QED
  BY <1>1, <1>2, WaiterLeaves DEF GiveUp, Inv, TypeOK, Returned

LEMMA StopCancelsInv ==
  ASSUME Inv, StopCancels
  PROVE  Inv'
<1> USE DEF senderVars, streamVars, stopVars
<1>1. TypeOK'
  BY DEF StopCancels, CancelAll, Inv, TypeOK, Places, Returned, StopPlaces
<1> QED
  BY <1>1, WaiterLeaves DEF StopCancels, CancelAll, Inv, TypeOK, Returned

(* The block that ends is that of the first line in the pty, which is the  *)
(* first entry of the queue.                                               *)
LEMMA ParseEndInv ==
  ASSUME Inv, ParseEnd
  PROVE  Inv'
<1> USE DEF senderVars, streamVars, stopVars
<1>1. /\ wire # <<>> /\ Head(wire) = wire[1] /\ Len(wire) > 0
      /\ Head(wire) \in Calls \cup {Detach}
      /\ Tail(wire) \in Seq(Calls \cup {Detach})
      /\ Len(wire') = Len(wire) - 1
      /\ \A i \in 1..Len(wire') : wire'[i] = wire[i + 1]
  BY QueueSeq DEF ParseEnd, Inv, TypeOK
<1>2. TypeOK'
  <2>1. DeliverResponse(Head(wire))
    BY DEF ParseEnd
  <2> QED
    BY <1>1, <2>1, DeliverTyped DEF ParseEnd, Inv, TypeOK
<1>3. ASSUME ~skewed' PROVE Aligned'
  <2>1. Aligned /\ DeliverResponse(Head(wire))
    BY <1>3 DEF ParseEnd, Inv
  <2>2. Len(queue) \in Nat /\ Len(wire) \in Nat /\ Len(wire) <= Len(queue)
    BY <2>1, QueueSeq DEF Aligned, Inv, TypeOK
  <2>3. queue # <<>>
    BY <1>1, <2>2
  <2>4. /\ Head(queue) = queue[1] /\ Head(queue) \in Calls
        /\ Len(Tail(queue)) = Len(queue) - 1
        /\ \A i \in 1..Len(Tail(queue)) : Tail(queue)[i] = queue[i + 1]
        /\ \A i \in 1..Len(queue) : queue[i] \in Calls
    BY <2>3, QueueSeq DEF Inv, TypeOK
  <2> DEFINE h == Head(queue)
  <2>5. /\ queue' = Tail(queue)
        /\ respCh' = [respCh EXCEPT ![h] = Head(wire)]
        /\ pc' = [pc EXCEPT ![h] = IF @ = "waiting" THEN "answered" ELSE @]
    BY <2>1, <2>3 DEF DeliverResponse
  <2>6. Head(wire) = h
    BY <1>1, <2>1, <2>2, <2>4 DEF Aligned
  <2> HIDE DEF h
  <2>7. \A d \in Calls : respCh'[d] \in {d, None}
    BY <2>1, <2>5, <2>6 DEF Aligned, Inv, TypeOK
  <2>8. \A d \in Calls : /\ pc'[d] = "queued" <=> pc[d] = "queued"
                         /\ pc'[d] = "idle" <=> pc[d] = "idle"
    BY <2>5 DEF Inv, TypeOK
  <2>9. pc[queue[1]] # "queued"
    BY <1>1, <2>1, <2>2 DEF Aligned
  <2>10. \A i \in 1..Len(queue') :
           /\ i + 1 \in 1..Len(queue) /\ queue'[i] = queue[i + 1]
           /\ queue[i + 1] \in Calls
    BY <2>2, <2>4, <2>5
  <2>11. \A i \in 1..Len(wire') :
           i + 1 \in 1..Len(wire) /\ i \in 1..Len(queue') /\ wire'[i] = wire[i + 1]
    BY <1>1, <2>2, <2>4, <2>5
  <2>12. \A i \in 1..Len(wire') : queue'[i] = wire'[i]
    BY <2>1, <2>10, <2>11 DEF Aligned
  <2>13. ASSUME NEW i \in 1..Len(queue')
         PROVE  /\ pc'[queue'[i]] = "queued" <=> i > Len(wire')
                /\ pc'[queue'[i]] # "idle"
    <3>1. /\ pc[queue[i + 1]] = "queued" <=> i + 1 > Len(wire)
          /\ pc[queue[i + 1]] # "idle"
      BY <2>1, <2>10 DEF Aligned
    <3>2. i + 1 > Len(wire) <=> i > Len(wire')
      BY <1>1, <2>2, <2>4, <2>5
    <3> QED
      BY <2>8, <2>10, <3>1, <3>2
  <2>14. \A i, j \in 1..Len(queue') : queue'[i] = queue'[j] => i = j
    <3>1. ASSUME NEW i \in 1..Len(queue'), NEW j \in 1..Len(queue'),
                 queue'[i] = queue'[j]
          PROVE  i = j
      <4>1. i + 1 = j + 1
        BY <2>1, <2>10, <3>1 DEF Aligned
      <4> QED
        BY <4>1
    <3> QED
      BY <3>1
  <2>15. ASSUME NEW d \in Calls, pc'[d] = "queued"
         PROVE  \E i \in 1..Len(queue') : queue'[i] = d
    <3>1. PICK i \in 1..Len(queue) : queue[i] = d
      BY <2>1, <2>8, <2>15 DEF Aligned
    <3>2. i # 1
      BY <2>8, <2>9, <2>15, <3>1
    <3>3. i - 1 \in 1..Len(queue') /\ (i - 1) + 1 = i
      BY <2>2, <2>4, <2>5, <3>2
    <3>4. queue'[i - 1] = d
      BY <2>10, <3>1, <3>3
    <3> QED
      BY <3>3, <3>4
  <2>16. Len(wire') <= Len(queue')
    BY <1>1, <2>2, <2>4, <2>5
  <2> QED
    BY <2>7, <2>12, <2>13, <2>14, <2>15, <2>16 DEF Aligned
<1> QED
  BY <1>2, <1>3 DEF Inv

(* The line Stop writes is in the pty only once queue and pty are skewed.  *)
LEMMA ParseDetachInv ==
  ASSUME Inv, ParseDetach
  PROVE  Inv'
<1> USE DEF senderVars, streamVars, stopVars
<1>1. skewed
  <2>1. ASSUME ~skewed PROVE FALSE
    <3>1. Aligned
      BY <2>1 DEF Inv
    <3>2. Len(wire) \in Nat /\ Len(wire) > 0 /\ wire[1] = Detach
      BY QueueSeq DEF ParseDetach, Inv, TypeOK
    <3>3. 1 \in 1..Len(wire) /\ 1 \in 1..Len(queue)
      BY <3>1, <3>2, QueueSeq DEF Aligned, Inv, TypeOK
    <3>4. queue[1] = Detach /\ queue[1] \in Calls
      BY <3>1, <3>2, <3>3, QueueSeq DEF Aligned, Inv, TypeOK
    <3> QED
      BY <3>4, DetachAssumption
  <2> QED
    BY <2>1
<1>2. TypeOK'
  <2>1. DeliverResponse(Detach)
    BY DEF ParseDetach
  <2>2. wire' \in Seq(Calls \cup {Detach})
    BY DEF ParseDetach
  <2> QED
    BY <2>1, <2>2, DeliverTyped DEF ParseDetach, Inv, TypeOK
<1> QED
  BY <1>1, <1>2 DEF ParseDetach, Inv

LEMMA SkewInv ==
  ASSUME Inv, ParseError \/ StopDetaches
  PROVE  Inv'
<1> USE DEF senderVars, streamVars, stopVars
<1>1. CASE ParseError
  <2>1. Tail(wire) \in Seq(Calls \cup {Detach})
    BY <1>1, QueueSeq DEF ParseError, Inv, TypeOK
  <2> QED
    BY <1>1, <2>1 DEF ParseError, Inv, TypeOK
<1>2. CASE StopDetaches
  <2>1. CASE exited
    BY <1>2, <2>1 DEF StopDetaches, Inv, TypeOK, StopPlaces, Aligned
  <2>2. CASE ~exited
    <3>1. Append(wire, Detach) \in Seq(Calls \cup {Detach})
      BY QueueAppend DEF Inv, TypeOK
    <3> QED
      BY <1>2, <2>2, <3>1 DEF StopDetaches, Inv, TypeOK, StopPlaces
  <2> QED
    BY <2>1, <2>2
<1> QED
  BY <1>1, <1>2

LEMMA RestInv ==
  ASSUME Inv, ParseEvent \/ ParserEnds \/ TmuxExits \/ StopCloses \/ UNCHANGED vars
  PROVE  Inv'
<1> USE DEF senderVars, streamVars, stopVars
<1> DEFINE Rest == /\ UNCHANGED <<pc, respCh, queue, cancelled, wire, collecting, skewed>>
                   /\ exited' \in {exited, TRUE} /\ done' \in {done, TRUE}
                   /\ stop' \in {stop, "stopped"} /\ closed' \in {closed, TRUE}
                   /\ panicked' \in {panicked, TRUE}
<1>1. Rest
  <2>1. CASE ParseEvent
    BY <2>1 DEF ParseEvent
  <2>2. CASE ParserEnds
    BY <2>2 DEF ParserEnds
  <2>3. CASE TmuxExits
    BY <2>3 DEF TmuxExits
  <2>4. CASE StopCloses
    BY <2>4 DEF StopCloses
  <2>5. CASE UNCHANGED vars
    BY <2>5 DEF vars
  <2> QED
    BY <2>1, <2>2, <2>3, <2>4, <2>5
<1>2. TypeOK'
  <2>1. TypeOK /\ TRUE \in BOOLEAN /\ "stopped" \in StopPlaces
    BY DEF Inv, StopPlaces
  <2>2. /\ exited' \in BOOLEAN /\ done' \in BOOLEAN
        /\ stop' \in StopPlaces /\ closed' \in BOOLEAN /\ panicked' \in BOOLEAN
    BY <1>1, <2>1 DEF TypeOK
  <2> HIDE DEF senderVars, streamVars, stopVars
  <2> QED
    BY <1>1, <2>1, <2>2 DEF TypeOK
<1>3. ~skewed' => Aligned'
  BY <1>1 DEF Inv, Aligned
<1> QED
  BY <1>2, <1>3 DEF Inv

LEMMA StepInv == Inv /\ [Next]_vars => Inv'
<1> SUFFICES ASSUME Inv, [Next]_vars PROVE Inv'
  OBVIOUS
<1>1. ASSUME NEW c \in Calls, SendStep(c) PROVE Inv'
  BY <1>1, EnqueueInv, WriteInv, WriteFailsInv, GiveUpInv DEF SendStep
<1>2. ASSUME ParserStep PROVE Inv'
  BY <1>2, ParseEndInv, ParseDetachInv, SkewInv, RestInv DEF ParserStep
<1> QED
  BY <1>1, <1>2, StopCancelsInv, SkewInv, RestInv DEF Next

(* Inv is inductive.                                                       *)
THEOREM InvHolds == Spec => []Inv
BY InitInv, StepInv, PTL DEF Spec

(* The state of sender, parser and Stop is typed.                          *)
THEOREM TypeCorrect == Spec => []TypeOK
<1>1. Inv => TypeOK
  BY DEF Inv
<1> QED
  BY <1>1, InvHolds, PTL

(* For any number of calls: unless a command fails, two are written out of *)
(* turn, or Stop has written its line, an answer goes to its own call.     *)
THEOREM AnswersCorrect == Spec => []AnswersMatch
<1>1. Inv => AnswersMatch
  BY DEF Inv, Aligned, AnswersMatch
<1> QED
  BY <1>1, InvHolds, PTL

(* Under the same condition every line in the pty has its entry.           *)
THEOREM QueueCorrect == Spec => []QueueFollowsPty
<1>1. Inv => QueueFollowsPty
  BY DEF Inv, Aligned, QueueFollowsPty
<1> QED
  BY <1>1, InvHolds, PTL

-----------------------------------------------------------------------------
(* The bridge as an exchange. What follows holds out of step too.          *)

(* Whoever waits in the queue has asked and has no answer yet, and is in   *)
(* it once; a call that has not asked has no answer.                       *)
Registered ==
    /\ \A i \in 1..Len(queue) : pc[queue[i]] # "idle" /\ respCh[queue[i]] = None
    /\ \A i, j \in 1..Len(queue) : queue[i] = queue[j] => i = j
    /\ \A c \in Calls : pc[c] = "idle" => respCh[c] = None

LEMMA InitRegistered == Init => Registered
<1> SUFFICES ASSUME Init PROVE Registered
  OBVIOUS
<1>1. Len(queue) = 0
  BY DEF Init
<1> QED
  BY <1>1 DEF Init, Registered

(* A step that takes nobody back to where he had not asked, and leaves the *)
(* queue and the channels alone.                                           *)
LEMMA OthersRegistered ==
  ASSUME Inv, Registered, UNCHANGED <<queue, respCh>>,
         \A c \in Calls : pc'[c] = "idle" => pc[c] = "idle"
  PROVE  Registered'
<1>1. \A i \in 1..Len(queue) : queue[i] \in Calls
  BY QueueSeq DEF Inv, TypeOK
<1> QED
  BY <1>1 DEF Registered

LEMMA EnqueueRegistered ==
  ASSUME Inv, Registered, NEW c \in Calls, Enqueue(c)
  PROVE  Registered'
<1>1. /\ pc[c] = "idle" /\ pc'[c] # "idle" /\ respCh' = respCh
      /\ \A d \in Calls : d # c => pc'[d] = pc[d]
  BY DEF Enqueue, Inv, TypeOK
<1>2. CASE cancelled
  BY <1>1, <1>2, OthersRegistered DEF Enqueue
<1>3. CASE ~cancelled
  <2>1. /\ Len(queue) \in Nat
        /\ Len(queue') = Len(queue) + 1 /\ queue'[Len(queue) + 1] = c
        /\ \A i \in 1..Len(queue) : queue'[i] = queue[i] /\ queue[i] \in Calls
    BY <1>3, QueueSeq, QueueAppend DEF Enqueue, Inv, TypeOK
  <2>2. \A i \in 1..Len(queue) : queue[i] # c
    BY <1>1 DEF Registered
  <2>3. \A i \in 1..Len(queue') :
          \/ i \in 1..Len(queue) /\ queue'[i] = queue[i]
          \/ i = Len(queue) + 1 /\ queue'[i] = c
    BY <2>1
  <2>4. \A i, j \in 1..Len(queue') : queue'[i] = queue'[j] => i = j
    BY <2>2, <2>3 DEF Registered
  <2>5. \A i \in 1..Len(queue') : pc'[queue'[i]] # "idle" /\ respCh'[queue'[i]] = None
    BY <1>1, <2>1, <2>2, <2>3 DEF Registered
  <2>6. \A d \in Calls : pc'[d] = "idle" => respCh'[d] = None
    BY <1>1 DEF Registered
  <2> QED
    BY <2>4, <2>5, <2>6 DEF Registered
<1> QED
  BY <1>2, <1>3

(* An entry that is taken out: what is left was there before.              *)
LEMMA WriteFailsRegistered ==
  ASSUME Inv, Registered, NEW c \in Calls, WriteFails(c)
  PROVE  Registered'
<1> DEFINE k == CHOOSE i \in 1..Len(queue) : queue[i] = c
           up(i) == IF i < k THEN i ELSE i + 1
<1>1. /\ queue' = Without(c) /\ respCh' = respCh
      /\ pc[c] = "queued" /\ pc'[c] = "failed"
      /\ \A d \in Calls : d # c => pc'[d] = pc[d]
  BY DEF WriteFails, Inv, TypeOK
<1>2. \A d \in Calls : pc'[d] = "idle" => pc[d] = "idle"
  BY <1>1
<1>3. CASE \A i \in 1..Len(queue) : queue[i] # c
  <2>1. queue' = queue
    BY <1>1, <1>3 DEF Without
  <2> QED
    BY <1>1, <1>2, <2>1, OthersRegistered
<1>4. CASE \E i \in 1..Len(queue) : queue[i] = c
  <2>1. k \in 1..Len(queue) /\ queue \in Seq(Calls) /\ Len(queue) \in Nat
    BY <1>4, QueueSeq DEF Inv, TypeOK
  <2>2. queue' = SubSeq(queue, 1, k - 1) \o SubSeq(queue, k + 1, Len(queue))
    BY <1>1, <1>4 DEF Without
  <2> HIDE DEF k
  <2>3. /\ Len(queue') = Len(queue) - 1
        /\ \A i \in 1..(k - 1) : queue'[i] = queue[i]
        /\ \A i \in k..(Len(queue) - 1) : queue'[i] = queue[i + 1]
    <3>1. ASSUME NEW r, r = SubSeq(queue, 1, k - 1) \o SubSeq(queue, k + 1, Len(queue))
          PROVE  /\ Len(r) = Len(queue) - 1
                 /\ \A i \in 1..(k - 1) : r[i] = queue[i]
                 /\ \A i \in k..(Len(queue) - 1) : r[i] = queue[i + 1]
      BY <2>1, <3>1, TakeOut
    <3> QED
      BY <2>2, <3>1
  <2>4. ASSUME NEW i \in 1..Len(queue')
        PROVE  up(i) \in 1..Len(queue) /\ queue'[i] = queue[up(i)]
    BY <2>1, <2>3
  <2>5. \A i, j \in 1..Len(queue') : up(i) = up(j) => i = j
    BY <2>1, <2>3
  <2> HIDE DEF up
  <2>6. \A i, j \in 1..Len(queue') : queue'[i] = queue'[j] => i = j
    BY <2>4, <2>5 DEF Registered
  <2>7. \A i \in 1..Len(queue) : queue[i] \in Calls
    BY <2>1
  <2>8. \A i \in 1..Len(queue') : pc'[queue'[i]] # "idle" /\ respCh'[queue'[i]] = None
    BY <1>1, <1>2, <2>4, <2>7 DEF Registered
  <2> QED
    BY <1>1, <1>2, <2>6, <2>8 DEF Registered
<1> QED
  BY <1>3, <1>4

(* The head goes, and its channel is filled: it is nowhere else.           *)
LEMMA DeliverRegistered ==
  ASSUME Inv, Registered, NEW lines \in Calls \cup {Detach}, DeliverResponse(lines)
  PROVE  Registered'
<1>1. CASE queue = <<>> /\ UNCHANGED <<pc, respCh, queue>>
  BY <1>1, OthersRegistered
<1>2. CASE queue # <<>>
  <2> DEFINE h == Head(queue)
  <2>1. /\ h \in Calls /\ h = queue[1] /\ Len(queue) \in Nat /\ Len(queue) > 0
        /\ Len(queue') = Len(queue) - 1
        /\ \A i \in 1..Len(queue') : queue'[i] = queue[i + 1]
        /\ \A i \in 1..Len(queue) : queue[i] \in Calls
    <3>1. queue \in Seq(Calls) /\ queue' = Tail(queue)
      BY <1>2 DEF DeliverResponse, Inv, TypeOK
    <3> QED
      BY <1>2, <3>1, QueueSeq
  <2>2. /\ pc[h] # "idle" /\ pc'[h] # "idle"
        /\ \A d \in Calls : d # h => pc'[d] = pc[d] /\ respCh'[d] = respCh[d]
    <3>1. 1 \in 1..Len(queue)
      BY <2>1
    <3>2. pc[h] # "idle"
      BY <2>1, <3>1 DEF Registered
    <3> QED
      BY <1>2, <2>1, <3>2 DEF DeliverResponse, Inv, TypeOK
  <2> HIDE DEF h
  <2>3. ASSUME NEW i \in 1..Len(queue')
        PROVE  /\ i + 1 \in 1..Len(queue) /\ queue'[i] = queue[i + 1]
               /\ queue[i + 1] \in Calls /\ queue[i + 1] # h
    <3>1. /\ 1 \in 1..Len(queue) /\ i + 1 \in 1..Len(queue) /\ i + 1 # 1
      BY <2>1
    <3> QED
      BY <2>1, <3>1 DEF Registered
  <2>4. \A i \in 1..Len(queue') : pc'[queue'[i]] # "idle" /\ respCh'[queue'[i]] = None
    BY <2>2, <2>3 DEF Registered
  <2>5. ASSUME NEW i \in 1..Len(queue'), NEW j \in 1..Len(queue'), queue'[i] = queue'[j]
        PROVE  i = j
    <3>1. i + 1 = j + 1
      BY <2>3, <2>5 DEF Registered
    <3> QED
      BY <3>1
  <2>6. \A d \in Calls : pc'[d] = "idle" => respCh'[d] = None
    BY <2>2 DEF Registered
  <2> QED
    BY <2>4, <2>5, <2>6 DEF Registered
<1> QED
  BY <1>1, <1>2 DEF DeliverResponse

LEMMA StepRegistered ==
  ASSUME Inv, Registered, [Next]_vars
  PROVE  Registered'
<1> USE DEF senderVars, streamVars, stopVars
<1>1. ASSUME NEW c \in Calls, SendStep(c) PROVE Registered'
  <2>1. CASE Write(c) \/ Timeout(c) \/ ContextDone(c)
    <3>1. \A d \in Calls : pc'[d] = "idle" => pc[d] = "idle"
      BY <2>1 DEF Write, Timeout, ContextDone, GiveUp, Inv, TypeOK
    <3> QED
      BY <2>1, <3>1, OthersRegistered DEF Write, Timeout, ContextDone, GiveUp
  <2> QED
    BY <1>1, <2>1, EnqueueRegistered, WriteFailsRegistered DEF SendStep
<1>2. CASE ParseEnd \/ ParseDetach
  <2>1. CASE ParseEnd
    <3>1. Head(wire) \in Calls \cup {Detach}
      BY <2>1, QueueSeq DEF ParseEnd, Inv, TypeOK
    <3> QED
      BY <2>1, <3>1, DeliverRegistered DEF ParseEnd
  <2>2. CASE ParseDetach
    BY <2>2, DeliverRegistered DEF ParseDetach
  <2> QED
    BY <1>2, <2>1, <2>2
<1>3. CASE ParseError \/ ParseEvent \/ ParserEnds \/ TmuxExits \/ StopDetaches \/ StopCloses
           \/ UNCHANGED vars
  <2>1. UNCHANGED <<pc, queue, respCh>>
    BY <1>3 DEF ParseError, ParseEvent, ParserEnds, TmuxExits, StopDetaches, StopCloses, vars
  <2> QED
    BY <2>1, OthersRegistered
<1>4. CASE StopCancels
  BY <1>4, OthersRegistered DEF StopCancels, CancelAll
<1> QED
  BY <1>1, <1>2, <1>3, <1>4 DEF Next, ParserStep

THEOREM RegisteredHolds == Spec => []Registered
BY InitRegistered, StepRegistered, InvHolds, PTL DEF Spec

(* What Exchange says of the state, step by step.                          *)
LEMMA StageType ==
  ASSUME Inv
  PROVE  \A c \in Calls :
           /\ Stage[c] \in {"idle", "open", "closed"}
           /\ Stage[c] = "idle" <=> pc[c] = "idle"
           /\ Stage[c] = "open" <=> pc[c] \in {"queued", "waiting"}
<1>1. \A c \in Calls : pc[c] \in Places
  BY DEF Inv, TypeOK
<1> QED
  BY <1>1 DEF Stage, Places, Returned

LEMMA LineInit == Init => Line!Init
BY DEF Init, Line!Init, Stage

LEMMA LineEnqueue ==
  ASSUME Inv, NEW c \in Calls, Enqueue(c)
  PROVE  Line!Ask(c)
<1>1. PICK to \in {"queued", "cancelled"} : pc' = [pc EXCEPT ![c] = to]
  BY DEF Enqueue
<1>2. Stage[c] = "idle"
  BY StageType DEF Enqueue
<1>3. Stage' = [Stage EXCEPT ![c] = IF to = "queued" THEN "open" ELSE "closed"]
  BY <1>1 DEF Stage, Inv, TypeOK, Returned
<1> QED
  BY <1>2, <1>3 DEF Enqueue, Line!Ask

(* Calls that return without one of the parser's steps.                    *)
LEMMA LineLeave ==
  ASSUME Inv, NEW C \in SUBSET Calls,
         \A c \in C : pc[c] \in {"queued", "waiting"} /\ pc'[c] \in Returned,
         \A c \in Calls \ C : \/ pc'[c] = pc[c]
                              \/ pc[c] = "queued" /\ pc'[c] = "waiting",
         respCh' = respCh, skewed' \in {skewed, TRUE}
  PROVE  Line!Leave(C)
<1>1. \A c \in C : Stage[c] = "open"
  BY StageType
<1>2. \A c \in Calls : /\ pc[c] \in Places
                       /\ Stage'[c] = IF c \in C THEN "closed" ELSE Stage[c]
  BY DEF Stage, Inv, TypeOK, Places, Returned
<1>3. Stage' = [c \in Calls |-> IF c \in C THEN "closed" ELSE Stage[c]]
  BY <1>2 DEF Stage
<1>4. (~skewed)' \in {~skewed, FALSE}
  BY DEF Inv, TypeOK
<1> QED
  BY <1>1, <1>3, <1>4 DEF Line!Leave

(* An answer: its channel is empty, and in step it is that of its call.    *)
LEMMA LineDeliver ==
  ASSUME Inv, Registered, NEW lines \in Calls \cup {Detach},
         DeliverResponse(lines), skewed' = skewed,
         ~skewed => queue # <<>> /\ Head(queue) = lines
  PROVE  [Line!Next]_(Line!vars)
<1>1. CASE queue = <<>> /\ UNCHANGED <<pc, respCh, queue>>
  BY <1>1 DEF Line!vars, Stage
<1>2. CASE queue # <<>>
  <2> DEFINE h == Head(queue)
             to == IF pc[h] = "waiting" THEN "closed" ELSE Stage[h]
  <2>1. h \in Calls /\ pc[h] # "idle" /\ respCh[h] = None
    <3>1. /\ 1 \in 1..Len(queue) /\ h = queue[1] /\ h \in Calls
      BY <1>2, QueueSeq DEF Inv, TypeOK
    <3> QED
      BY <3>1 DEF Registered
  <2>2. /\ respCh' = [respCh EXCEPT ![h] = lines]
        /\ pc' = [pc EXCEPT ![h] = IF pc[h] = "waiting" THEN "answered" ELSE pc[h]]
    BY <1>2 DEF DeliverResponse
  <2>3. (~skewed) => lines = h
    OBVIOUS
  <2> HIDE DEF h
  <2>4. Stage' = [Stage EXCEPT ![h] = to]
    BY <2>1, <2>2 DEF Stage, Inv, TypeOK, Returned
  <2>5. Stage[h] # "idle" /\ to \in {Stage[h], "closed"}
    BY <2>1, StageType
  <2> HIDE DEF to
  <2>6. Line!Reply(h, lines)
    BY <2>1, <2>2, <2>3, <2>4, <2>5 DEF Line!Reply
  <2> QED
    BY <2>1, <2>6 DEF Line!Next
<1> QED
  BY <1>1, <1>2 DEF DeliverResponse

LEMMA LineStep ==
  ASSUME Inv, Registered, [Next]_vars
  PROVE  [Line!Next]_(Line!vars)
<1> USE DEF senderVars, streamVars, stopVars
<1>1. \A C \in SUBSET Calls : Line!Leave(C) => Line!Next
  BY DEF Line!Next
<1>2. ASSUME NEW c \in Calls, SendStep(c) PROVE Line!Next
  <2>1. CASE Enqueue(c)
    BY <2>1, LineEnqueue DEF Line!Next
  <2>2. CASE Write(c)
    <3>1. PICK to \in {"waiting", "answered"} : pc' = [pc EXCEPT ![c] = to]
      BY <2>2 DEF Write
    <3>2. Line!Leave({d \in {c} : to = "answered"})
      BY <2>2, <3>1, LineLeave DEF Write, Inv, TypeOK, Returned
    <3> QED
      BY <1>1, <3>2
  <2>3. CASE WriteFails(c)
    <3>1. Line!Leave({c})
      BY <2>3, LineLeave DEF WriteFails, Inv, TypeOK, Returned
    <3> QED
      BY <1>1, <3>1
  <2>4. CASE Timeout(c) \/ ContextDone(c)
    <3>1. PICK place \in {"timedOut", "cancelled"} : GiveUp(c, place)
      BY <2>4 DEF Timeout, ContextDone
    <3>2. Line!Leave({c})
      BY <3>1, LineLeave DEF GiveUp, Inv, TypeOK, Returned
    <3> QED
      BY <1>1, <3>2
  <2> QED
    BY <1>2, <2>1, <2>2, <2>3, <2>4 DEF SendStep
<1>3. CASE ParseEnd
  <2>1. Head(wire) \in Calls \cup {Detach} /\ Len(wire) \in Nat /\ Len(wire) > 0
        /\ Head(wire) = wire[1]
    BY <1>3, QueueSeq DEF ParseEnd, Inv, TypeOK
  <2>2. ~skewed => queue # <<>> /\ Head(queue) = Head(wire)
    BY <2>1, QueueSeq DEF Inv, TypeOK, Aligned
  <2> QED
    BY <1>3, <2>1, <2>2, LineDeliver DEF ParseEnd
<1>4. CASE ParseDetach
  <2>1. /\ wire # <<>> /\ Head(wire) = Detach /\ Len(wire) \in Nat /\ Len(wire) > 0
        /\ Head(wire) = wire[1]
    BY <1>4, QueueSeq DEF ParseDetach, Inv, TypeOK
  <2>2. ~skewed => queue # <<>> /\ Head(queue) = Detach
    BY <2>1, QueueSeq DEF Inv, TypeOK, Aligned
  <2> QED
    BY <1>4, <2>2, LineDeliver DEF ParseDetach
<1>5. CASE ParseError \/ StopDetaches
  <2>1. UNCHANGED <<pc, respCh>> /\ skewed' \in {skewed, TRUE}
    BY <1>5 DEF ParseError, StopDetaches
  <2>2. Line!Leave({})
    BY <2>1, LineLeave
  <2> QED
    BY <1>1, <2>2
<1>6. CASE StopCancels
  <2>1. Line!Leave({c \in Calls : pc[c] = "waiting"})
    BY <1>6, LineLeave DEF StopCancels, CancelAll, Returned
  <2> QED
    BY <1>1, <2>1
<1>7. CASE ParseEvent \/ ParserEnds \/ TmuxExits \/ StopCloses \/ UNCHANGED vars
  BY <1>7 DEF ParseEvent, ParserEnds, TmuxExits, StopCloses, vars, Line!vars, Stage
<1> QED
  BY <1>2, <1>3, <1>4, <1>5, <1>6, <1>7 DEF Next, ParserStep

(* The bridge is an exchange, in step or not: one answer at most for each  *)
(* call that has asked, its own in step, whoever gives up in between.      *)
THEOREM ExchangeRefines == Spec => KeepsExchange
BY LineInit, LineStep, InvHolds, RegisteredHolds, PTL DEF Spec, KeepsExchange, Line!Spec
=============================================================================
