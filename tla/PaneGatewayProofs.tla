------------------------- MODULE PaneGatewayProofs -------------------------
(***************************************************************************)
(* Proofs about PaneGateway: its types, that slots and subscriptions are   *)
(* accounted for, that live frames keep their order and follow the         *)
(* snapshot of their attach, and that a client is shown a PaneStream.      *)
(*                                                                         *)
(* Four facts carry them. A subscription belongs to the client whose       *)
(* reader made it (Owners). A connection that is not served yet has an     *)
(* empty queue and owns nothing (Fresh). The goroutine of an attach starts *)
(* with the end of its snapshot in the queue or already written            *)
(* (Announced). And the frames of an attach ascend in every place they     *)
(* pass through, those in a later place before those in an earlier one     *)
(* (Lined).                                                                *)
(***************************************************************************)
EXTENDS PaneGateway, TLAPS

ReaderType == [pc : Places, sub : Subs \cup {0}]

SubType == [client : Clients \cup {NoClient}, pane : Panes \cup {NoClient},
            routed : BOOLEAN, ch : Seq(1 .. MaxFrames), streaming : BOOLEAN]

(* Only the list names no subscription.                                    *)
Sent == {m \in MessageType : m.kind # "list" => m.sub \in Subs}

Queues ==
    /\ writeCh \in [Clients -> Seq(Sent)]
    /\ emit.to # {} => emit.n \in 1 .. MaxFrames
    /\ \A k \in Subs : k \in emit.to \/ sub[k].streaming \/ sub[k].routed
                         => sub[k].client \in Clients

Attaching(c) == reader[c].pc \in {"subscribed", "start", "snapshot", "end"}

Owners ==
    \A c \in Clients :
      /\ \A k \in cancelSubs[c] : sub[k].client = c
      /\ Attaching(c) => reader[c].sub \in Subs /\ sub[reader[c].sub].client = c
      /\ At(c, "gone") => cancelSubs[c] = {}

Fresh ==
    \A c \in Clients : reader[c].pc \in {"off", "accepting", "list"} =>
      writeCh[c] = <<>> /\ \A k \in Subs : sub[k].client # c

Ends(q, k) == \E j \in 1 .. Len(q) : q[j].kind = "end" /\ q[j].sub = k

Announced ==
    \A c \in Clients, k \in Subs :
      sub[k].streaming /\ sub[k].client = c /\ writer[c] = "running" =>
        k \in ended \/ Ends(writeCh[c], k)

(* The frames of a queue, as FramesFollowTheSnapshot has them.             *)
Follow(q, done) ==
    \A i \in 1 .. Len(q) : q[i].kind = "frame" =>
      q[i].sub \in done \/ \E j \in 1 .. i - 1 : q[j].kind = "end" /\ q[j].sub = q[i].sub

Following == \A c \in Clients : writer[c] = "running" => Follow(writeCh[c], ended)

Below(q, k, n) == \A i \in 1 .. Len(q) : IsFrame(q[i], k) => q[i].n < n

Sorted(ns) == \A i, j \in 1 .. Len(ns) : i < j => ns[i] < ns[j]

(* n is later than every frame of k that was written or is in a queue.     *)
Waits(k, n) ==
    /\ last[k] < n /\ n <= frame
    /\ \A c \in Clients : Below(writeCh[c], k, n)

QueueLined(c, k) ==
    /\ InOrder(writeCh[c], k)
    /\ \A i \in 1 .. Len(writeCh[c]) : IsFrame(writeCh[c][i], k) =>
         /\ sub[k].client = c
         /\ last[k] < writeCh[c][i].n /\ writeCh[c][i].n <= frame

ChannelLined(k) ==
    /\ Sorted(sub[k].ch)
    /\ \A i \in 1 .. Len(sub[k].ch) : Waits(k, sub[k].ch[i])
    /\ k \in emit.to => /\ Waits(k, emit.n)
                        /\ \A i \in 1 .. Len(sub[k].ch) : sub[k].ch[i] < emit.n

(* What FramesKeepTheirOrder says, place by place.                         *)
Lined ==
    /\ emit.n = frame
    /\ \A k \in Subs : /\ last[k] <= frame
                        /\ ChannelLined(k)
                        /\ \A c \in Clients : QueueLined(c, k)

TypeInv == TypeOK /\ Queues /\ Owners /\ Fresh

Inv ==
    /\ TypeInv /\ SlotsAreAccountedFor /\ SubscriptionsAreOwned
    /\ Announced /\ Following /\ Lined

-----------------------------------------------------------------------------
(* Helpers.                                                                *)

LEMMA SubsNat == Subs \subseteq Nat /\ 0 \notin Subs
BY GatewayAssumption DEF Subs

LEMMA SentIsMessage == Sent \subseteq MessageType
BY DEF Sent

(* Of TypeOK, what a single step is looked at with.                        *)
LEMMA Types ==
  ASSUME TypeInv
  PROVE  /\ reader \in [Clients -> ReaderType] /\ sub \in [Subs -> SubType]
         /\ writeCh \in [Clients -> Seq(Sent)]
         /\ cancelSubs \in [Clients -> SUBSET Subs]
         /\ writer \in [Clients -> {"off", "running", "ended"}]
         /\ emit \in [n : 0 .. MaxFrames, to : SUBSET Subs]
BY DEF TypeInv, TypeOK, Queues, ReaderType, SubType

LEMMA GoesTo ==
  ASSUME reader \in [Clients -> ReaderType], NEW c \in Clients, NEW place \in Places,
         NEW k \in Subs \cup {0}, Goes(c, place, k)
  PROVE  /\ reader' \in [Clients -> ReaderType]
         /\ reader'[c].pc = place /\ reader'[c].sub = k
         /\ \A d \in Clients \ {c} : reader'[d] = reader[d]
BY DEF Goes, ReaderType

LEMMA PutIn ==
  ASSUME writeCh \in [Clients -> Seq(Sent)], NEW c \in Clients, NEW m \in Sent, Put(c, m)
  PROVE  /\ writeCh' \in [Clients -> Seq(Sent)]
         /\ writeCh'[c] = Append(writeCh[c], m)
         /\ Len(writeCh'[c]) = Len(writeCh[c]) + 1
         /\ \A d \in Clients \ {c} : writeCh'[d] = writeCh[d]
<1>1. writeCh[c] \in Seq(Sent)
  OBVIOUS
<1>. HIDE DEF Sent
<1>2. Append(writeCh[c], m) \in Seq(Sent) /\ Len(Append(writeCh[c], m)) = Len(writeCh[c]) + 1
  BY <1>1
<1>3. QED
  BY <1>2 DEF Put

LEMMA Rest ==
  ASSUME NEW S, NEW q \in Seq(S), q # <<>>
  PROVE  /\ Tail(q) \in Seq(S) /\ Head(q) \in S
         /\ Len(Tail(q)) = Len(q) - 1 /\ Len(q) \in Nat
OBVIOUS

LEMMA IsSent ==
  ASSUME NEW k \in Subs
  PROVE  /\ \A kind \in {"start", "snapshot", "end"} : Message(kind, k, 0) \in Sent
         /\ Message("list", 0, 0) \in Sent
         /\ \A n \in 0 .. MaxFrames : Message("frame", k, n) \in Sent
BY GatewayAssumption, SubsNat DEF Message, Sent, MessageType

(* One subscription is changed.                                            *)
LEMMA SubSet ==
  ASSUME sub \in [Subs -> SubType], NEW k \in Subs, NEW s \in SubType,
         sub' = [sub EXCEPT ![k] = s]
  PROVE  sub' \in [Subs -> SubType] /\ sub'[k] = s
         /\ \A j \in Subs \ {k} : sub'[j] = sub[j]
OBVIOUS

(* Some are cancelled.                                                     *)
LEMMA UnroutedSubs ==
  ASSUME sub \in [Subs -> SubType], NEW S \in SUBSET Subs, sub' = Unrouted(S)
  PROVE  /\ sub' \in [Subs -> SubType]
         /\ \A k \in Subs : /\ sub'[k].client = sub[k].client /\ sub'[k].pane = sub[k].pane
                            /\ sub'[k].ch = sub[k].ch /\ sub'[k].streaming = sub[k].streaming
                            /\ sub'[k].routed <=> sub[k].routed /\ k \notin S
<1>1. ASSUME NEW k \in Subs
      PROVE  /\ sub'[k] \in SubType
             /\ sub'[k].client = sub[k].client /\ sub'[k].pane = sub[k].pane
             /\ sub'[k].ch = sub[k].ch /\ sub'[k].streaming = sub[k].streaming
             /\ sub'[k].routed <=> sub[k].routed /\ k \notin S
  <2>1. sub[k] \in SubType
    OBVIOUS
  <2>2. sub'[k] = IF k \in S THEN [sub[k] EXCEPT !.routed = FALSE] ELSE sub[k]
    BY DEF Unrouted
  <2>3. QED
    BY <2>1, <2>2 DEF SubType
<1>2. sub' \in [Subs -> SubType]
  BY <1>1 DEF Unrouted
<1>3. QED
  BY <1>1, <1>2

-----------------------------------------------------------------------------
(* Types, owners and fresh connections.                                    *)

LEMMA InitType == Init => TypeInv
<1>. SUFFICES ASSUME Init PROVE TypeInv
  OBVIOUS
<1>1. <<>> \in Seq(Sent) /\ <<>> \in Seq(MessageType) /\ <<>> \in Seq(1 .. MaxFrames)
      /\ Len(<<>>) = 0
  OBVIOUS
<1>2. NoSub \in SubType /\ [pc |-> "off", sub |-> 0] \in ReaderType
  BY <1>1 DEF NoSub, SubType, ReaderType, Places
<1>3. TypeOK
  <2>1. /\ reader \in [Clients -> ReaderType] /\ sub \in [Subs -> SubType]
        /\ writeCh \in [Clients -> Seq(MessageType)]
    BY <1>1, <1>2 DEF Init
  <2>2. /\ \A c \in Clients : Len(writeCh[c]) <= QueueCap
        /\ \A k \in Subs : Len(sub[k].ch) <= SubCap
    BY <1>1, GatewayAssumption DEF Init, NoSub
  <2>3. frame \in 0 .. MaxFrames /\ emit \in [n : 0 .. MaxFrames, to : SUBSET Subs]
        /\ last \in [Subs -> 0 .. MaxFrames]
    BY GatewayAssumption DEF Init
  <2>4. QED
    BY <2>1, <2>2, <2>3 DEF Init, TypeOK, SubType, ReaderType
<1>4. Queues /\ Owners /\ Fresh
  BY <1>1, GatewayAssumption DEF Init, Queues, Owners, Fresh, Attaching, At, NoSub
<1>5. QED
  BY <1>3, <1>4 DEF TypeInv

(* The reader moves, and at most its slot and its writer with it.          *)
LEMMA MoveType ==
  ASSUME TypeInv, NEW c \in Clients, NEW place \in Places, NEW k \in Subs \cup {0},
         Goes(c, place, k), clients' \in SUBSET Clients,
         writer' \in [Clients -> {"off", "running", "ended"}],
         place = "end" => k = reader[c].sub /\ Attaching(c),
         place \notin {"subscribed", "start", "snapshot"},
         place \in {"accepting", "list"} => reader[c].pc \in {"off", "accepting"},
         place # "off",
         place = "gone" => cancelSubs[c] = {},
         UNCHANGED <<cancelSubs, broken, writeCh, sub, outVars, stopping, hist>>
  PROVE  TypeInv'
<1>1. /\ reader' \in [Clients -> ReaderType]
      /\ reader'[c].pc = place /\ reader'[c].sub = k
      /\ \A d \in Clients \ {c} : reader'[d] = reader[d]
  BY Types, GoesTo
<1>2. TypeOK'
  BY <1>1 DEF TypeInv, TypeOK, ReaderType, outVars, hist
<1>3. Queues'
  BY DEF TypeInv, Queues, outVars
<1>4. Owners'
  BY <1>1 DEF TypeInv, Owners, Attaching, At
<1>5. Fresh'
  BY <1>1 DEF TypeInv, Fresh
<1>6. QED
  BY <1>2, <1>3, <1>4, <1>5 DEF TypeInv

LEMMA MovesType ==
  ASSUME TypeInv, NEW c \in Clients,
         \/ AddClient(c) \/ AcceptFails(c) \/ Connect(c) \/ SendCancelled(c)
         \/ ReadFails(c) \/ Leave(c) \/ Left(c)
         \/ \E k \in Subs : NoSnapshot(c, k)
  PROVE  TypeInv'
<1>0. /\ clients \in SUBSET Clients /\ writer \in [Clients -> {"off", "running", "ended"}]
      /\ 0 \in Subs \cup {0} /\ cancelSubs \in [Clients -> SUBSET Subs]
  BY DEF TypeInv, TypeOK
<1>1. CASE AddClient(c)
  BY <1>0, <1>1, MoveType DEF AddClient, Places, At
<1>2. CASE AcceptFails(c)
  <2>1. cancelSubs[c] = {}
    <3>1. At(c, "accepting")
      BY <1>2 DEF AcceptFails
    <3>2. \A k \in Subs : sub[k].client # c
      BY <3>1 DEF TypeInv, Fresh, At
    <3>3. QED
      BY <1>0, <3>2 DEF TypeInv, Owners
  <2>2. QED
    BY <1>0, <1>2, <2>1, MoveType DEF AcceptFails, Places, At
<1>3. CASE Connect(c)
  BY <1>0, <1>3, MoveType DEF Connect, Places, At
<1>4. CASE SendCancelled(c)
  BY <1>0, <1>4, MoveType DEF SendCancelled, Places, At
<1>5. CASE ReadFails(c)
  BY <1>0, <1>5, MoveType DEF ReadFails, Places, At
<1>6. CASE Leave(c)
  BY <1>0, <1>6, MoveType DEF Leave, Places, At
<1>7. CASE Left(c)
  BY <1>0, <1>7, MoveType DEF Left, Places, At
<1>8. ASSUME NEW k \in Subs, NoSnapshot(c, k) PROVE TypeInv'
  BY <1>0, <1>8, MoveType DEF NoSnapshot, Places, At, Attaching
<1>9. QED
  BY <1>1, <1>2, <1>3, <1>4, <1>5, <1>6, <1>7, <1>8

(* The reader puts a message into the queue and moves.                     *)
LEMMA SendsType ==
  ASSUME TypeInv, NEW c \in Clients,
         SendList(c) \/ \E k \in Subs : SendStart(c, k) \/ SendSnapshot(c, k)
  PROVE  TypeInv'
<1>1. PICK m \in Sent, place \in {"reading", "snapshot", "end"}, k \in Subs \cup {0} :
        /\ Put(c, m) /\ Goes(c, place, k)
        /\ place # "reading" => Attaching(c) /\ k = reader[c].sub
        /\ Len(writeCh[c]) < QueueCap
        /\ reader[c].pc \in {"list", "start", "snapshot"}
        /\ UNCHANGED <<clients, cancelSubs, broken, writer, sub, outVars, stopping, hist>>
  <2>1. CASE SendList(c)
    <3>1. writeCh[c] = <<>>
      BY <2>1 DEF TypeInv, Fresh, SendList, At
    <3>2. Len(<<>>) = 0
      OBVIOUS
    <3>3. Len(writeCh[c]) < QueueCap
      BY <3>1, <3>2, GatewayAssumption
    <3>4. Message("list", 0, 0) \in Sent
      BY GatewayAssumption DEF Message, Sent, MessageType
    <3>5. QED
      BY <2>1, <3>3, <3>4 DEF SendList, At
  <2>2. ASSUME NEW k \in Subs, SendStart(c, k) \/ SendSnapshot(c, k)
        PROVE  \E m \in Sent, place \in {"snapshot", "end"} :
                 /\ Put(c, m) /\ Goes(c, place, k)
                 /\ Attaching(c) /\ k = reader[c].sub
                 /\ Len(writeCh[c]) < QueueCap
                 /\ reader[c].pc \in {"list", "start", "snapshot"}
                 /\ UNCHANGED <<clients, cancelSubs, broken, writer, sub, outVars, stopping, hist>>
    BY <2>2, IsSent DEF SendStart, SendSnapshot, At, Attaching, HasRoom
  <2>3. QED
    BY <2>1, <2>2
<1>2. /\ reader' \in [Clients -> ReaderType]
      /\ reader'[c].pc = place /\ reader'[c].sub = k
      /\ \A d \in Clients \ {c} : reader'[d] = reader[d]
  BY <1>1, Types, GoesTo DEF Places
<1>3. /\ writeCh' \in [Clients -> Seq(Sent)]
      /\ Len(writeCh'[c]) = Len(writeCh[c]) + 1
      /\ \A d \in Clients \ {c} : writeCh'[d] = writeCh[d]
  BY <1>1, Types, PutIn
<1>4. \A d \in Clients : Len(writeCh'[d]) <= QueueCap
  <2>1. Len(writeCh[c]) \in Nat /\ \A d \in Clients : Len(writeCh[d]) <= QueueCap
    BY Types DEF TypeInv, TypeOK
  <2>2. Len(writeCh'[c]) <= QueueCap
    BY <1>1, <1>3, <2>1, GatewayAssumption
  <2>3. QED
    BY <1>3, <2>1, <2>2
<1>5. writeCh' \in [Clients -> Seq(MessageType)]
  BY <1>3, SentIsMessage
<1>6. TypeOK'
  BY <1>1, <1>2, <1>4, <1>5 DEF TypeInv, TypeOK, ReaderType, outVars, hist
<1>7. Queues'
  BY <1>1, <1>3 DEF TypeInv, Queues, outVars
<1>8. Owners'
  BY <1>1, <1>2 DEF TypeInv, Owners, Attaching, At
<1>9. Fresh'
  BY <1>1, <1>2, <1>3 DEF TypeInv, Fresh
<1>10. QED
  BY <1>6, <1>7, <1>8, <1>9 DEF TypeInv

LEMMA SendEndType ==
  ASSUME TypeInv, NEW c \in Clients, NEW k \in Subs, SendEnd(c, k)
  PROVE  TypeInv'
<1>. DEFINE m == Message("end", k, 0)
<1>. DEFINE s == [sub[k] EXCEPT !.streaming = TRUE]
<1>1. /\ Put(c, m) /\ m \in Sent /\ Goes(c, "reading", 0) /\ sub' = [sub EXCEPT ![k] = s]
      /\ Len(writeCh[c]) < QueueCap /\ reader[c].pc = "end" /\ reader[c].sub = k
      /\ UNCHANGED <<clients, cancelSubs, broken, writer, outVars, stopping, hist>>
  BY IsSent DEF SendEnd, At, HasRoom
<1>2. sub[k] \in SubType /\ s \in SubType
      /\ s.client = sub[k].client /\ s.routed = sub[k].routed /\ s.ch = sub[k].ch
  <2>1. sub[k] \in SubType
    BY Types
  <2>2. QED
    BY <2>1 DEF SubType
<1>. HIDE DEF m, s
<1>3. /\ reader' \in [Clients -> ReaderType]
      /\ reader'[c].pc = "reading"
      /\ \A d \in Clients \ {c} : reader'[d] = reader[d]
  BY <1>1, Types, GoesTo DEF Places
<1>4. /\ writeCh' \in [Clients -> Seq(Sent)]
      /\ Len(writeCh'[c]) = Len(writeCh[c]) + 1
      /\ \A d \in Clients \ {c} : writeCh'[d] = writeCh[d]
  BY <1>1, Types, PutIn
<1>5. /\ sub' \in [Subs -> SubType] /\ sub'[k] = s
      /\ \A j \in Subs \ {k} : sub'[j] = sub[j]
  BY <1>1, <1>2, Types, SubSet
<1>6. \A j \in Subs : /\ sub'[j].client = sub[j].client /\ sub'[j].routed = sub[j].routed
                      /\ sub'[j].ch = sub[j].ch
  BY <1>2, <1>5
<1>7. \A d \in Clients : Len(writeCh'[d]) <= QueueCap
  <2>1. Len(writeCh[c]) \in Nat /\ \A d \in Clients : Len(writeCh[d]) <= QueueCap
    BY Types DEF TypeInv, TypeOK
  <2>2. Len(writeCh'[c]) <= QueueCap
    BY <1>1, <1>4, <2>1, GatewayAssumption
  <2>3. QED
    BY <1>4, <2>1, <2>2
<1>8. TypeOK'
  <2>1. writeCh' \in [Clients -> Seq(MessageType)]
    BY <1>4, SentIsMessage
  <2>2. \A j \in Subs : Len(sub'[j].ch) <= SubCap
    BY <1>6 DEF TypeInv, TypeOK
  <2>3. QED
    BY <1>1, <1>3, <1>5, <1>7, <2>1, <2>2 DEF TypeInv, TypeOK, ReaderType, SubType,
       outVars, hist
<1>9. sub[k].client = c
  BY <1>1 DEF TypeInv, Owners, Attaching
<1>10. Queues'
  BY <1>1, <1>4, <1>5, <1>6, <1>9 DEF TypeInv, Queues, outVars
<1>11. Owners'
  BY <1>1, <1>3, <1>6, Types DEF TypeInv, Owners, Attaching, At
<1>12. Fresh'
  BY <1>1, <1>3, <1>4, <1>6, <1>9 DEF TypeInv, Fresh
<1>13. QED
  BY <1>8, <1>10, <1>11, <1>12 DEF TypeInv

LEMMA SubscribeType ==
  ASSUME TypeInv, NEW c \in Clients, NEW p \in Panes, NEW k \in Subs, Subscribe(c, p, k)
  PROVE  TypeInv'
<1>. DEFINE s == [NoSub EXCEPT !.client = c, !.pane = p, !.routed = TRUE]
<1>1. /\ sub' = [sub EXCEPT ![k] = s] /\ sub[k] = NoSub /\ Goes(c, "subscribed", k)
      /\ At(c, "reading")
      /\ UNCHANGED <<clients, cancelSubs, broken, writer, writeCh, outVars, stopping, hist>>
  BY DEF Subscribe
<1>2. s \in SubType /\ s.client = c /\ s.ch = <<>> /\ Len(s.ch) = 0
  <2>1. <<>> \in Seq(1 .. MaxFrames) /\ Len(<<>>) = 0
    OBVIOUS
  <2>2. QED
    BY <2>1 DEF NoSub, SubType
<1>. HIDE DEF s
<1>3. /\ reader' \in [Clients -> ReaderType]
      /\ reader'[c].pc = "subscribed" /\ reader'[c].sub = k
      /\ \A d \in Clients \ {c} : reader'[d] = reader[d]
  BY <1>1, Types, GoesTo DEF Places
<1>4. /\ sub' \in [Subs -> SubType] /\ sub'[k] = s
      /\ \A j \in Subs \ {k} : sub'[j] = sub[j]
  BY <1>1, <1>2, Types, SubSet
<1>5. sub[k].client \notin Clients
  BY <1>1, GatewayAssumption DEF NoSub
<1>6. TypeOK'
  <2>0. /\ \A j \in Subs : Len(sub[j].ch) <= SubCap
        /\ 0 <= SubCap
    BY GatewayAssumption DEF TypeInv, TypeOK
  <2>1. \A j \in Subs : Len(sub'[j].ch) <= SubCap
    BY <1>2, <1>4, <2>0
  <2>2. QED
    BY <1>1, <1>3, <1>4, <2>1 DEF TypeInv, TypeOK, ReaderType, SubType, outVars, hist
<1>7. Queues'
  BY <1>1, <1>2, <1>4 DEF TypeInv, Queues, outVars
<1>8. Owners'
  BY <1>1, <1>2, <1>3, <1>4, <1>5, Types DEF TypeInv, Owners, Attaching, At
<1>9. Fresh'
  BY <1>1, <1>2, <1>3, <1>4 DEF TypeInv, Fresh, At
<1>10. QED
  BY <1>6, <1>7, <1>8, <1>9 DEF TypeInv

(* The registry takes a subscription in, or out.                           *)
LEMMA RegistryType ==
  ASSUME TypeInv, NEW c \in Clients, NEW k \in Subs,
         AddSub(c, k) \/ Detach(c, k) \/ CancelSub(c, k)
  PROVE  TypeInv'
<1>0. cancelSubs \in [Clients -> SUBSET Subs] /\ Existing(c, k) \in SUBSET Subs
  BY Types DEF Existing
<1>1. PICK S \in SUBSET Subs : sub' = Unrouted(S)
  BY <1>0 DEF AddSub, Detach, CancelSub
<1>2. /\ sub' \in [Subs -> SubType]
      /\ \A j \in Subs : /\ sub'[j].client = sub[j].client /\ sub'[j].pane = sub[j].pane
                          /\ sub'[j].ch = sub[j].ch /\ sub'[j].streaming = sub[j].streaming
                          /\ (sub'[j].routed => sub[j].routed)
  BY <1>1, Types, UnroutedSubs
<1>3. /\ reader' \in [Clients -> ReaderType]
      /\ \/ reader'[c] = reader[c]
         \/ reader'[c].pc = "start" /\ reader'[c].sub = k /\ AddSub(c, k)
      /\ \A d \in Clients \ {c} : reader'[d] = reader[d]
      /\ reader[c].pc \in {"subscribed", "reading", "leaving"}
  <2>1. CASE AddSub(c, k)
    BY <2>1, Types, GoesTo DEF AddSub, Places, At
  <2>2. CASE Detach(c, k) \/ CancelSub(c, k)
    BY <2>2, Types DEF Detach, CancelSub, At
  <2>3. QED
    BY <2>1, <2>2
<1>4. /\ cancelSubs' \in [Clients -> SUBSET Subs]
      /\ \A d \in Clients \ {c} : cancelSubs'[d] = cancelSubs[d]
      /\ \A j \in cancelSubs'[c] : j \in cancelSubs[c] \/ (j = k /\ AddSub(c, k))
  BY <1>0 DEF AddSub, Detach, CancelSub
<1>5. UNCHANGED <<clients, broken, writer, writeCh, outVars, stopping, hist>>
  BY DEF AddSub, Detach, CancelSub
<1>6. AddSub(c, k) => reader[c].pc = "subscribed" /\ reader[c].sub = k /\ sub[k].client = c
  BY DEF AddSub, At, TypeInv, Owners, Attaching
<1>7. TypeOK'
  <2>0. \A j \in Subs : Len(sub[j].ch) <= SubCap
    BY DEF TypeInv, TypeOK
  <2>1. \A j \in Subs : Len(sub'[j].ch) <= SubCap
    BY <1>2, <2>0
  <2>2. QED
    BY <1>2, <1>3, <1>4, <1>5, <2>1 DEF TypeInv, TypeOK, ReaderType, SubType, outVars, hist
<1>8. Queues'
  BY <1>2, <1>5 DEF TypeInv, Queues, outVars
<1>9. Owners'
  <2>1. ASSUME NEW d \in Clients, d # c
        PROVE  /\ \A j \in cancelSubs'[d] : sub'[j].client = d
               /\ Attaching(d)' => reader'[d].sub \in Subs /\ sub'[reader'[d].sub].client = d
               /\ At(d, "gone")' => cancelSubs'[d] = {}
    BY <1>0, <1>2, <1>3, <1>4, <2>1 DEF TypeInv, Owners, Attaching, At
  <2>2. /\ \A j \in cancelSubs'[c] : sub'[j].client = c
        /\ Attaching(c)' => reader'[c].sub \in Subs /\ sub'[reader'[c].sub].client = c
        /\ At(c, "gone")' => cancelSubs'[c] = {}
    BY <1>0, <1>2, <1>3, <1>4, <1>6 DEF TypeInv, Owners, Attaching, At
  <2>3. QED
    BY <2>1, <2>2 DEF Owners, Attaching, At
<1>10. Fresh'
  BY <1>2, <1>3, <1>5 DEF TypeInv, Fresh
<1>11. QED
  BY <1>7, <1>8, <1>9, <1>10 DEF TypeInv

(* The writer, and a connection that breaks.                               *)
LEMMA WriterType ==
  ASSUME TypeInv, NEW c \in Clients, WriterStep(c) \/ Break(c)
  PROVE  TypeInv'
<1>0. /\ writeCh[c] \in Seq(Sent) /\ \A d \in Clients : Len(writeCh[d]) <= QueueCap
      /\ writeCh \in [Clients -> Seq(Sent)]
  BY Types DEF TypeInv, TypeOK
<1>1. /\ writeCh' \in [Clients -> Seq(Sent)]
      /\ \A d \in Clients : Len(writeCh'[d]) <= QueueCap
      /\ \A d \in Clients : writeCh[d] = <<>> => writeCh'[d] = <<>>
  <2>1. CASE writeCh[c] # <<>> /\ writeCh' = [writeCh EXCEPT ![c] = Tail(writeCh[c])]
    <3>1. Tail(writeCh[c]) \in Seq(Sent) /\ Len(Tail(writeCh[c])) = Len(writeCh[c]) - 1
          /\ Len(writeCh[c]) \in Nat
      <4>. HIDE DEF Sent
      <4>1. QED
        BY <1>0, <2>1
    <3>2. QED
      BY <1>0, <2>1, <3>1, GatewayAssumption
  <2>2. CASE UNCHANGED writeCh
    BY <1>0, <2>2
  <2>3. QED
    BY <2>1, <2>2 DEF WriterStep, WriterSends, WriterFails, WriterCancelled, Break
<1>2. ended' \in SUBSET Subs /\ last' \in [Subs -> 0 .. MaxFrames]
  <2>1. CASE WriterSends(c)
    <3>. DEFINE m == Head(writeCh[c])
    <3>1. m \in Sent
      BY <1>0, <2>1 DEF WriterSends
    <3>2. /\ ended' = IF m.kind = "end" THEN ended \cup {m.sub} ELSE ended
          /\ last' = IF m.kind = "frame" THEN [last EXCEPT ![m.sub] = m.n] ELSE last
      BY <2>1 DEF WriterSends
    <3>3. ended \in SUBSET Subs /\ last \in [Subs -> 0 .. MaxFrames]
      BY DEF TypeInv, TypeOK
    <3>. HIDE DEF m
    <3>4. QED
      BY <3>1, <3>2, <3>3 DEF Sent, MessageType
  <2>2. CASE UNCHANGED hist
    BY <2>2 DEF TypeInv, TypeOK, hist
  <2>3. QED
    BY <2>1, <2>2 DEF WriterStep, WriterFails, WriterCancelled, Break
<1>3. /\ writer' \in [Clients -> {"off", "running", "ended"}] /\ broken' \in SUBSET Clients
      /\ UNCHANGED <<clients, cancelSubs, reader, sub, outVars, stopping>>
  BY DEF TypeInv, TypeOK, WriterStep, WriterSends, WriterFails, WriterCancelled, Break, connVars
<1>4. TypeOK'
  <2>1. writeCh' \in [Clients -> Seq(MessageType)]
    BY <1>1, SentIsMessage
  <2>2. QED
    BY <1>1, <1>2, <1>3, <2>1 DEF TypeInv, TypeOK, outVars
<1>5. Queues'
  BY <1>1, <1>3 DEF TypeInv, Queues, outVars
<1>6. Owners'
  BY <1>3 DEF TypeInv, Owners, Attaching, At
<1>7. Fresh'
  BY <1>1, <1>3 DEF TypeInv, Fresh
<1>8. QED
  BY <1>4, <1>5, <1>6, <1>7 DEF TypeInv

(* A frame comes out of tmux, is delivered, is moved on.                   *)
LEMMA EmitType ==
  ASSUME TypeInv, NEW p \in Panes, Emit(p)
  PROVE  TypeInv'
<1>1. frame' \in 1 .. MaxFrames /\ emit'.n = frame'
      /\ emit'.to = {k \in Subs : sub[k].routed /\ sub[k].pane = p}
      /\ emit' \in [n : 0 .. MaxFrames, to : SUBSET Subs]
  BY GatewayAssumption DEF TypeInv, TypeOK, Emit
<1>2. UNCHANGED <<connVars, writer, writeCh, sub, stopping, hist>>
  BY DEF Emit
<1>3. TypeOK'
  <2>1. frame' \in 0 .. MaxFrames
    BY <1>1
  <2>2. QED
    BY <1>1, <1>2, <2>1 DEF TypeInv, TypeOK, connVars, hist
<1>4. Queues'
  BY <1>1, <1>2 DEF TypeInv, Queues
<1>5. Owners' /\ Fresh'
  BY <1>2 DEF TypeInv, Owners, Fresh, Attaching, At, connVars
<1>6. QED
  BY <1>3, <1>4, <1>5 DEF TypeInv

(* A subscription's channel or goroutine changes, and perhaps its queue.   *)
LEMMA ChannelType ==
  ASSUME TypeInv, NEW k \in Subs, NEW s \in SubType, sub' = [sub EXCEPT ![k] = s],
         s.client = sub[k].client, s.routed = sub[k].routed,
         s.streaming => sub[k].client \in Clients, Len(s.ch) <= SubCap,
         writeCh' \in [Clients -> Seq(Sent)],
         \A d \in Clients : Len(writeCh'[d]) <= QueueCap,
         \A d \in Clients \ {sub[k].client} : writeCh'[d] = writeCh[d],
         emit' \in [n : 0 .. MaxFrames, to : SUBSET Subs],
         emit'.n = emit.n, emit'.to \subseteq emit.to,
         UNCHANGED <<connVars, writer, frame, stopping, hist>>
  PROVE  TypeInv'
<1>1. /\ sub' \in [Subs -> SubType] /\ sub'[k] = s
      /\ \A j \in Subs \ {k} : sub'[j] = sub[j]
  BY Types, SubSet
<1>2. \A j \in Subs : /\ sub'[j].client = sub[j].client /\ sub'[j].routed = sub[j].routed
  BY <1>1
<1>3. TypeOK'
  <2>0. \A j \in Subs : Len(sub[j].ch) <= SubCap
    BY DEF TypeInv, TypeOK
  <2>1. \A j \in Subs : Len(sub'[j].ch) <= SubCap
    BY <1>1, <2>0
  <2>2. writeCh' \in [Clients -> Seq(MessageType)]
    BY SentIsMessage
  <2>3. QED
    BY <1>1, <2>1, <2>2 DEF TypeInv, TypeOK, SubType, connVars, hist
<1>4. Queues'
  BY <1>1, <1>2 DEF TypeInv, Queues
<1>5. Owners'
  BY <1>2, Types DEF TypeInv, Owners, Attaching, At, connVars
<1>6. Fresh'
  BY <1>2 DEF TypeInv, Fresh, connVars
<1>7. QED
  BY <1>3, <1>4, <1>5, <1>6 DEF TypeInv

LEMMA FrameType ==
  ASSUME TypeInv, NEW k \in Subs, StreamStep(k) \/ Deliver(k)
  PROVE  TypeInv'
<1>0. /\ sub[k] \in SubType /\ sub[k].ch \in Seq(1 .. MaxFrames) /\ Len(sub[k].ch) <= SubCap
      /\ writeCh \in [Clients -> Seq(Sent)]
      /\ emit \in [n : 0 .. MaxFrames, to : SUBSET Subs]
      /\ \A d \in Clients : Len(writeCh[d]) <= QueueCap
      /\ k \in emit.to \/ sub[k].streaming => sub[k].client \in Clients
      /\ emit.to # {} => emit.n \in 1 .. MaxFrames
  <2>1. sub \in [Subs -> SubType] /\ sub[k] \in SubType
    BY Types
  <2>2. sub[k].ch \in Seq(1 .. MaxFrames)
    BY <2>1 DEF SubType
  <2>3. Len(sub[k].ch) <= SubCap /\ \A d \in Clients : Len(writeCh[d]) <= QueueCap
    BY DEF TypeInv, TypeOK
  <2>4. QED
    BY <2>1, <2>2, <2>3, Types DEF TypeInv, Queues
<1>1. CASE Stream(k)
  <2>. DEFINE s == [sub[k] EXCEPT !.ch = Tail(sub[k].ch)]
  <2>. DEFINE c == sub[k].client
  <2>. DEFINE n == Head(sub[k].ch)
  <2>1. /\ Tail(sub[k].ch) \in Seq(1 .. MaxFrames) /\ Len(Tail(sub[k].ch)) <= SubCap
        /\ n \in 1 .. MaxFrames
    <3>1. sub[k].ch # <<>>
      BY <1>1 DEF Stream
    <3>2. /\ Tail(sub[k].ch) \in Seq(1 .. MaxFrames) /\ Head(sub[k].ch) \in 1 .. MaxFrames
          /\ Len(Tail(sub[k].ch)) = Len(sub[k].ch) - 1 /\ Len(sub[k].ch) \in Nat
      BY <1>0, <3>1, Rest
    <3>3. Len(Tail(sub[k].ch)) <= SubCap
      BY <1>0, <3>2, GatewayAssumption
    <3>4. QED
      BY <3>2, <3>3
  <2>2. /\ s \in SubType /\ s.client = sub[k].client /\ s.routed = sub[k].routed
        /\ s.streaming = sub[k].streaming /\ s.ch = Tail(sub[k].ch)
    BY <1>0, <2>1 DEF SubType
  <2>3. c \in Clients /\ Message("frame", k, n) \in Sent
    BY <1>0, <1>1, <2>1, IsSent DEF Stream
  <2>4. /\ writeCh' \in [Clients -> Seq(Sent)]
        /\ \A d \in Clients : Len(writeCh'[d]) <= QueueCap
        /\ \A d \in Clients \ {c} : writeCh'[d] = writeCh[d]
    <3>1. CASE HasRoom(c)
      <4>1. Put(c, Message("frame", k, n))
        BY <1>1, <3>1 DEF Stream
      <4>2. /\ writeCh' \in [Clients -> Seq(Sent)]
            /\ Len(writeCh'[c]) = Len(writeCh[c]) + 1
            /\ \A d \in Clients \ {c} : writeCh'[d] = writeCh[d]
        BY <1>0, <2>3, <4>1, PutIn
      <4>3. Len(writeCh[c]) \in Nat /\ Len(writeCh[c]) < QueueCap
        BY <1>0, <2>3, <3>1 DEF HasRoom
      <4>4. Len(writeCh'[c]) <= QueueCap
        BY <4>2, <4>3, GatewayAssumption
      <4>5. QED
        BY <1>0, <4>2, <4>4
    <3>2. CASE ~ HasRoom(c)
      BY <1>0, <1>1, <3>2 DEF Stream
    <3>3. QED
      BY <3>1, <3>2
  <2>5. /\ sub' = [sub EXCEPT ![k] = s] /\ emit' = emit
        /\ UNCHANGED <<connVars, writer, frame, stopping, hist>>
    BY <1>1 DEF Stream, outVars
  <2>. HIDE DEF s, n
  <2>6. QED
    BY <1>0, <2>1, <2>2, <2>3, <2>4, <2>5, ChannelType
<1>2. CASE StreamEnds(k)
  <2>. DEFINE s == [sub[k] EXCEPT !.streaming = FALSE]
  <2>1. /\ s \in SubType /\ s.client = sub[k].client /\ s.routed = sub[k].routed
        /\ s.streaming = FALSE /\ s.ch = sub[k].ch
    BY <1>0 DEF SubType
  <2>2. /\ sub' = [sub EXCEPT ![k] = s] /\ emit' = emit /\ writeCh' = writeCh
        /\ UNCHANGED <<connVars, writer, frame, stopping, hist>>
    BY <1>2 DEF StreamEnds, outVars
  <2>. HIDE DEF s
  <2>3. QED
    BY <1>0, <2>1, <2>2, ChannelType
<1>3. CASE Deliver(k)
  <2>1. /\ emit' \in [n : 0 .. MaxFrames, to : SUBSET Subs]
        /\ emit'.n = emit.n /\ emit'.to \subseteq emit.to
        /\ writeCh' = writeCh /\ emit.n \in 1 .. MaxFrames
        /\ UNCHANGED <<connVars, writer, frame, stopping, hist>>
    BY <1>0, <1>3 DEF Deliver
  <2>2. PICK s \in SubType :
          /\ sub' = [sub EXCEPT ![k] = s]
          /\ s.client = sub[k].client /\ s.routed = sub[k].routed
          /\ s.streaming = sub[k].streaming /\ Len(s.ch) <= SubCap
    <3>1. CASE Len(sub[k].ch) < SubCap
      <4>. DEFINE q == Append(sub[k].ch, emit.n)
      <4>. DEFINE s == [sub[k] EXCEPT !.ch = q]
      <4>1. q \in Seq(1 .. MaxFrames) /\ Len(q) <= SubCap
        BY <1>0, <2>1, <3>1, GatewayAssumption
      <4>. HIDE DEF q
      <4>2. /\ s \in SubType /\ s.client = sub[k].client /\ s.routed = sub[k].routed
            /\ s.streaming = sub[k].streaming /\ s.ch = q
        BY <1>0, <4>1 DEF SubType
      <4>3. sub' = [sub EXCEPT ![k] = s]
        BY <1>3, <3>1 DEF Deliver, q
      <4>. HIDE DEF s
      <4>4. QED
        BY <4>1, <4>2, <4>3
    <3>2. CASE ~ (Len(sub[k].ch) < SubCap)
      <4>1. sub' = sub
        BY <1>3, <3>2 DEF Deliver
      <4>2. sub' = [sub EXCEPT ![k] = sub[k]]
        BY <4>1, Types
      <4>3. QED
        BY <1>0, <4>2
    <3>3. QED
      BY <3>1, <3>2
  <2>3. s.streaming => sub[k].client \in Clients
    BY <1>0, <2>2
  <2>4. QED
    BY <1>0, <2>1, <2>2, <2>3, ChannelType
<1>4. QED
  BY <1>1, <1>2, <1>3 DEF StreamStep

LEMMA StepType ==
  ASSUME TypeInv, [Next]_vars
  PROVE  TypeInv'
<1>1. ASSUME NEW c \in Clients, ReaderStep(c) PROVE TypeInv'
  BY <1>1, MovesType, SendsType, SendEndType, RegistryType DEF ReaderStep
<1>2. ASSUME NEW c \in Clients, WriterStep(c) PROVE TypeInv'
  BY <1>2, WriterType
<1>3. ASSUME NEW c \in Clients, Client(c) PROVE TypeInv'
  BY <1>3, MovesType, WriterType, RegistryType, SubscribeType DEF Client
<1>4. ASSUME NEW k \in Subs, StreamStep(k) \/ Deliver(k) PROVE TypeInv'
  BY <1>4, FrameType
<1>5. ASSUME NEW p \in Panes, Emit(p) PROVE TypeInv'
  BY <1>5, EmitType
<1>6. CASE Stop
  BY <1>6 DEF TypeInv, TypeOK, Queues, Owners, Fresh, Attaching, At, Stop, connVars,
     outVars, hist
<1>7. CASE UNCHANGED vars
  BY <1>7 DEF TypeInv, TypeOK, Queues, Owners, Fresh, Attaching, At, vars, connVars,
     outVars, hist
<1>8. QED
  BY <1>1, <1>2, <1>3, <1>4, <1>5, <1>6, <1>7 DEF Next

(* The steps of the channels leave the owner, the pane and the route alone. *)
LEMMA SameOwner ==
  ASSUME TypeInv, NEW k \in Subs, StreamStep(k) \/ Deliver(k), NEW j \in Subs
  PROVE  /\ sub'[j].client = sub[j].client /\ sub'[j].pane = sub[j].pane
         /\ sub'[j].routed = sub[j].routed
         /\ sub'[j].streaming => sub[j].streaming
         /\ Stream(k) \/ Deliver(k) => sub'[j].streaming = sub[j].streaming
<1>0. sub \in [Subs -> SubType] /\ sub[k] \in SubType
  BY Types
<1>1. CASE j # k
  <2>1. sub'[j] = sub[j]
    BY <1>0, <1>1 DEF StreamStep, Stream, StreamEnds, Deliver
  <2>2. QED
    BY <2>1
<1>2. CASE j = k /\ Stream(k)
  <2>1. sub'[k] = [sub[k] EXCEPT !.ch = Tail(sub[k].ch)]
    BY <1>0, <1>2 DEF Stream
  <2>2. QED
    BY <1>0, <1>2, <2>1 DEF SubType
<1>3. CASE j = k /\ StreamEnds(k)
  <2>1. sub'[k] = [sub[k] EXCEPT !.streaming = FALSE]
    BY <1>0, <1>3 DEF StreamEnds
  <2>2. ~ (Stream(k) \/ Deliver(k))
    <3>1. Len(sub[k].ch) \in Nat /\ sub'[k].streaming = FALSE /\ sub[k].streaming = TRUE
      BY <1>0, <1>3, <2>1 DEF SubType, StreamEnds
    <3>2. ~Stream(k)
      <4>1. Stream(k) => sub'[k] = [sub[k] EXCEPT !.ch = Tail(sub[k].ch)]
        BY <1>0 DEF Stream
      <4>2. Stream(k) => sub'[k].streaming = sub[k].streaming
        BY <1>0, <4>1 DEF SubType
      <4>3. QED
        BY <3>1, <4>2
    <3>3. ~Deliver(k)
      <4>1. Deliver(k) => \/ sub'[k] = [sub[k] EXCEPT !.ch = Append(sub[k].ch, emit.n)]
                         \/ sub'[k] = sub[k]
        BY <1>0 DEF Deliver
      <4>2. Deliver(k) => sub'[k].streaming = sub[k].streaming
        BY <1>0, <4>1 DEF SubType
      <4>3. QED
        BY <3>1, <4>2
    <3>4. QED
      BY <3>2, <3>3
  <2>3. QED
    BY <1>0, <1>3, <2>1, <2>2 DEF SubType
<1>4. CASE j = k /\ Deliver(k)
  <2>1. \/ sub'[k] = [sub[k] EXCEPT !.ch = Append(sub[k].ch, emit.n)]
        \/ sub'[k] = sub[k]
    BY <1>0, <1>4 DEF Deliver
  <2>2. QED
    BY <1>0, <1>4, <2>1 DEF SubType
<1>5. QED
  BY <1>1, <1>2, <1>3, <1>4 DEF StreamStep

-----------------------------------------------------------------------------
(* Slots.                                                                  *)

Out == {"off", "leaving", "gone"}

LEMMA SlotMoves ==
  ASSUME TypeInv, SlotsAreAccountedFor, NEW c \in Clients, NEW place \in Places,
         NEW k \in Subs \cup {0}, Goes(c, place, k),
         c \in clients' <=> place \notin Out,
         \A d \in Clients \ {c} : d \in clients' <=> d \in clients
  PROVE  SlotsAreAccountedFor'
<1>1. /\ reader'[c].pc = place
      /\ \A d \in Clients \ {c} : reader'[d] = reader[d]
  BY GoesTo, Types
<1>2. QED
  BY <1>1 DEF SlotsAreAccountedFor, Out

LEMMA SlotKept ==
  ASSUME TypeInv, SlotsAreAccountedFor, NEW c \in Clients, NEW place \in Places \ Out,
         NEW k \in Subs \cup {0}, Goes(c, place, k), reader[c].pc \notin Out,
         clients' = clients
  PROVE  SlotsAreAccountedFor'
BY SlotMoves DEF SlotsAreAccountedFor, Out

LEMMA SlotsSame ==
  ASSUME SlotsAreAccountedFor, reader' = reader, clients' = clients
  PROVE  SlotsAreAccountedFor'
BY DEF SlotsAreAccountedFor

LEMMA SlotsStep ==
  ASSUME TypeInv, SlotsAreAccountedFor, [Next]_vars
  PROVE  SlotsAreAccountedFor'
<1>0. /\ {"accepting", "list", "reading", "subscribed", "start", "snapshot", "end",
          "ending"} = Places \ Out
      /\ Out \subseteq Places /\ 0 \in Subs \cup {0}
  BY DEF Places, Out
<1>1. ASSUME NEW c \in Clients, ReaderStep(c) PROVE SlotsAreAccountedFor'
  <2>1. CASE AcceptFails(c) \/ Leave(c)
    BY <1>0, <1>1, <2>1, SlotMoves DEF AcceptFails, Leave, Out
  <2>2. CASE Left(c)
    <3>1. c \notin clients' /\ clients' = clients
      BY <2>2 DEF Left, At, SlotsAreAccountedFor
    <3>2. QED
      BY <1>0, <1>1, <2>2, <3>1, SlotMoves DEF Left, Out
  <2>3. CASE Connect(c) \/ SendList(c) \/ ReadFails(c)
    BY <1>0, <1>1, <2>3, SlotKept DEF Connect, SendList, ReadFails, At, Out
  <2>4. CASE SendCancelled(c)
    BY <1>0, <1>1, <2>4, SlotKept DEF SendCancelled, Out
  <2>5. ASSUME NEW k \in Subs,
               \/ AddSub(c, k) \/ SendStart(c, k) \/ SendSnapshot(c, k)
               \/ NoSnapshot(c, k) \/ SendEnd(c, k)
        PROVE  SlotsAreAccountedFor'
    BY <1>0, <1>1, <2>5, SlotKept
       DEF AddSub, SendStart, SendSnapshot, NoSnapshot, SendEnd, At, Out
  <2>6. ASSUME NEW k \in Subs, CancelSub(c, k) PROVE SlotsAreAccountedFor'
    BY <2>6, SlotsSame DEF CancelSub
  <2>7. QED
    BY <1>1, <2>1, <2>2, <2>3, <2>4, <2>5, <2>6 DEF ReaderStep
<1>2. ASSUME NEW c \in Clients, WriterStep(c) PROVE SlotsAreAccountedFor'
  BY <1>2, SlotsSame DEF WriterStep, WriterSends, WriterFails, WriterCancelled, connVars
<1>3. ASSUME NEW c \in Clients, Client(c) PROVE SlotsAreAccountedFor'
  <2>1. CASE AddClient(c)
    BY <1>0, <1>3, <2>1, SlotMoves DEF AddClient, Out
  <2>2. CASE Break(c)
    BY <2>2, SlotsSame DEF Break
  <2>3. ASSUME NEW k \in Subs, Detach(c, k) PROVE SlotsAreAccountedFor'
    BY <2>3, SlotsSame DEF Detach
  <2>4. ASSUME NEW k \in Subs, NEW p \in Panes, Subscribe(c, p, k)
        PROVE  SlotsAreAccountedFor'
    BY <1>0, <1>3, <2>4, SlotKept DEF Subscribe, At, Out
  <2>5. QED
    BY <1>3, <2>1, <2>2, <2>3, <2>4 DEF Client
<1>4. CASE \/ \E k \in Subs : StreamStep(k) \/ Deliver(k)
           \/ \E p \in Panes : Emit(p)
           \/ Stop \/ UNCHANGED vars
  BY <1>4, SlotsSame
     DEF StreamStep, Stream, StreamEnds, Deliver, Emit, Stop, vars, connVars
<1>5. QED
  BY <1>1, <1>2, <1>3, <1>4 DEF Next

-----------------------------------------------------------------------------
(* Subscriptions.                                                          *)

SameSubs ==
    \A k \in Subs : /\ sub'[k].client = sub[k].client /\ sub'[k].pane = sub[k].pane
                    /\ sub'[k].routed => sub[k].routed

(* Nothing new is routed, and a reader that goes leaves nothing behind.    *)
LEMMA OwnedKept ==
  ASSUME TypeInv, SubscriptionsAreOwned, cancelSubs' = cancelSubs, SameSubs,
         NEW c \in Clients, ~At(c, "subscribed"),
         \A d \in Clients \ {c} : reader'[d] = reader[d],
         reader'[c].pc = "gone" => cancelSubs[c] = {} \/ At(c, "gone")
  PROVE  SubscriptionsAreOwned'
<1>1. SUFFICES ASSUME NEW k \in Subs, sub'[k].routed
               PROVE  LET d == sub'[k].client
                      IN  \/ reader'[d].pc = "subscribed" /\ reader'[d].sub = k
                          \/ /\ k \in cancelSubs'[d] /\ ~(reader'[d].pc = "gone")
                             /\ \A j \in cancelSubs'[d] :
                                  sub'[j].pane = sub'[k].pane => j = k
  BY DEF SubscriptionsAreOwned, At
<1>. DEFINE d == sub[k].client
<1>2. sub'[k].client = d /\ sub[k].routed /\ d \in Clients
  BY <1>1 DEF SameSubs, TypeInv, Queues
<1>3. \/ reader[d].pc = "subscribed" /\ reader[d].sub = k
      \/ /\ k \in cancelSubs[d] /\ ~(reader[d].pc = "gone")
         /\ \A j \in cancelSubs[d] : sub[j].pane = sub[k].pane => j = k
  BY <1>2 DEF SubscriptionsAreOwned, At
<1>4. \A j \in cancelSubs[d] : j \in Subs
  BY <1>2, Types
<1>. HIDE DEF d
<1>5. CASE d = c
  BY <1>2, <1>3, <1>4, <1>5 DEF At, SameSubs
<1>6. CASE d # c
  BY <1>2, <1>3, <1>4, <1>6 DEF SameSubs
<1>7. QED
  BY <1>5, <1>6

LEMMA OwnedMoves ==
  ASSUME TypeInv, SubscriptionsAreOwned, cancelSubs' = cancelSubs, SameSubs,
         NEW c \in Clients, ~At(c, "subscribed"), NEW place \in Places,
         NEW k \in Subs \cup {0}, Goes(c, place, k),
         place = "gone" => cancelSubs[c] = {}
  PROVE  SubscriptionsAreOwned'
<1>1. reader'[c].pc = place /\ \A d \in Clients \ {c} : reader'[d] = reader[d]
  BY GoesTo, Types
<1>2. QED
  BY <1>1, OwnedKept

LEMMA OwnedSame ==
  ASSUME TypeInv, SubscriptionsAreOwned, cancelSubs' = cancelSubs, SameSubs,
         reader' = reader
  PROVE  SubscriptionsAreOwned'
<1>1. ASSUME NEW k \in Subs, sub'[k].routed
      PROVE  LET d == sub'[k].client
             IN  \/ reader'[d].pc = "subscribed" /\ reader'[d].sub = k
                 \/ /\ k \in cancelSubs'[d] /\ ~(reader'[d].pc = "gone")
                    /\ \A j \in cancelSubs'[d] : sub'[j].pane = sub'[k].pane => j = k
  <2>1. sub'[k].client = sub[k].client /\ sub[k].routed /\ sub[k].client \in Clients
    BY <1>1 DEF SameSubs, TypeInv, Queues
  <2>2. \A j \in cancelSubs[sub[k].client] : j \in Subs
    BY <2>1, Types
  <2>3. QED
    BY <2>1, <2>2 DEF SubscriptionsAreOwned, SameSubs, At
<1>2. QED
  BY <1>1 DEF SubscriptionsAreOwned, At

(* k is cancelled and its owner forgets it.                                *)
LEMMA OwnedForget ==
  ASSUME TypeInv, SubscriptionsAreOwned, NEW c \in Clients, NEW k \in Subs,
         k \in cancelSubs[c],
         cancelSubs' = [cancelSubs EXCEPT ![c] = cancelSubs[c] \ {k}],
         sub' = Unrouted({k}), reader' = reader
  PROVE  SubscriptionsAreOwned'
<1>0. \A j \in Subs : /\ sub'[j].client = sub[j].client /\ sub'[j].pane = sub[j].pane
                      /\ sub'[j].routed <=> sub[j].routed /\ j \notin {k}
  <2>1. {k} \in SUBSET Subs
    OBVIOUS
  <2>2. QED
    BY <2>1, UnroutedSubs, Types
<1>1. ASSUME NEW j \in Subs, sub'[j].routed
      PROVE  LET d == sub'[j].client
             IN  \/ reader'[d].pc = "subscribed" /\ reader'[d].sub = j
                 \/ /\ j \in cancelSubs'[d] /\ ~(reader'[d].pc = "gone")
                    /\ \A i \in cancelSubs'[d] : sub'[i].pane = sub'[j].pane => i = j
  <2>1. sub'[j].client = sub[j].client /\ sub[j].routed /\ j # k /\ sub[j].client \in Clients
    BY <1>0, <1>1 DEF TypeInv, Queues
  <2>2. /\ cancelSubs'[sub[j].client] \subseteq cancelSubs[sub[j].client]
        /\ cancelSubs'[sub[j].client] \subseteq Subs
        /\ j \in cancelSubs[sub[j].client] => j \in cancelSubs'[sub[j].client]
    BY <2>1, Types
  <2>3. \/ reader[sub[j].client].pc = "subscribed" /\ reader[sub[j].client].sub = j
        \/ /\ j \in cancelSubs[sub[j].client] /\ ~(reader[sub[j].client].pc = "gone")
           /\ \A i \in cancelSubs[sub[j].client] : sub[i].pane = sub[j].pane => i = j
    BY <2>1 DEF SubscriptionsAreOwned, At
  <2>4. \A i \in cancelSubs'[sub[j].client] :
          i \in cancelSubs[sub[j].client] /\ sub'[i].pane = sub[i].pane
    BY <1>0, <2>2
  <2>5. sub'[j].pane = sub[j].pane
    BY <1>0
  <2>6. QED
    BY <2>1, <2>2, <2>3, <2>4, <2>5
<1>2. QED
  BY <1>1 DEF SubscriptionsAreOwned, At

LEMMA OwnedSubscribe ==
  ASSUME TypeInv, SubscriptionsAreOwned, NEW c \in Clients, NEW p \in Panes, NEW k \in Subs,
         Subscribe(c, p, k)
  PROVE  SubscriptionsAreOwned'
<1>0. /\ reader'[c].pc = "subscribed" /\ reader'[c].sub = k
      /\ \A d \in Clients \ {c} : reader'[d] = reader[d]
  BY GoesTo, Types DEF Subscribe, Places
<1>1. /\ sub'[k].client = c /\ \A j \in Subs \ {k} : sub'[j] = sub[j]
      /\ cancelSubs' = cancelSubs /\ reader[c].pc = "reading" /\ sub[k].client = NoClient
  BY Types DEF Subscribe, At, NoSub
<1>2. ASSUME NEW j \in Subs, sub'[j].routed
      PROVE  LET d == sub'[j].client
             IN  \/ reader'[d].pc = "subscribed" /\ reader'[d].sub = j
                 \/ /\ j \in cancelSubs'[d] /\ ~(reader'[d].pc = "gone")
                    /\ \A i \in cancelSubs'[d] : sub'[i].pane = sub'[j].pane => i = j
  <2>1. CASE j = k
    BY <1>0, <1>1, <2>1
  <2>2. CASE j # k
    <3>1. sub'[j] = sub[j] /\ sub[j].routed /\ sub[j].client \in Clients
      BY <1>1, <1>2, <2>2 DEF TypeInv, Queues
    <3>2. \A i \in cancelSubs[sub[j].client] : i \in Subs \ {k}
      BY <1>1, <3>1, Types, GatewayAssumption DEF TypeInv, Owners
    <3>3. \/ reader[sub[j].client].pc = "subscribed" /\ reader[sub[j].client].sub = j
          \/ /\ j \in cancelSubs[sub[j].client] /\ ~(reader[sub[j].client].pc = "gone")
             /\ \A i \in cancelSubs[sub[j].client] : sub[i].pane = sub[j].pane => i = j
      BY <3>1 DEF SubscriptionsAreOwned, At
    <3>4. \A i \in cancelSubs[sub[j].client] : sub'[i] = sub[i]
      BY <1>1, <3>2
    <3>5. CASE sub[j].client = c
      BY <1>0, <1>1, <3>1, <3>3, <3>4, <3>5
    <3>6. CASE sub[j].client # c
      BY <1>0, <1>1, <3>1, <3>3, <3>4, <3>6
    <3>7. QED
      BY <3>5, <3>6
  <2>3. QED
    BY <2>1, <2>2
<1>3. QED
  BY <1>2 DEF SubscriptionsAreOwned, At

LEMMA OwnedAdd ==
  ASSUME TypeInv, SubscriptionsAreOwned, NEW c \in Clients, NEW k \in Subs, AddSub(c, k)
  PROVE  SubscriptionsAreOwned'
<1>. DEFINE E == Existing(c, k)
<1>0. /\ reader'[c].pc = "start" /\ \A d \in Clients \ {c} : reader'[d] = reader[d]
  BY GoesTo, Types DEF AddSub, Places
<1>1. /\ reader[c].pc = "subscribed" /\ reader[c].sub = k /\ sub[k].client = c
  BY DEF AddSub, At, TypeInv, Owners, Attaching
<1>2. E \in SUBSET Subs /\ E \subseteq cancelSubs[c]
  BY Types DEF Existing
<1>3. \A j \in Subs : /\ sub'[j].client = sub[j].client /\ sub'[j].pane = sub[j].pane
                      /\ sub'[j].routed <=> sub[j].routed /\ j \notin E
  BY <1>2, UnroutedSubs, Types DEF AddSub
<1>4. /\ cancelSubs'[c] = (cancelSubs[c] \ E) \cup {k}
      /\ \A d \in Clients \ {c} : cancelSubs'[d] = cancelSubs[d]
  BY Types DEF AddSub
<1>5. \A d \in Clients : cancelSubs[d] \subseteq Subs
  BY Types
<1>6. \A j \in cancelSubs[c] : j \in E <=> sub[j].pane = sub[k].pane
  BY DEF Existing
<1>. HIDE DEF E
<1>7. ASSUME NEW j \in Subs, sub'[j].routed
      PROVE  LET d == sub'[j].client
             IN  \/ reader'[d].pc = "subscribed" /\ reader'[d].sub = j
                 \/ /\ j \in cancelSubs'[d] /\ ~(reader'[d].pc = "gone")
                    /\ \A i \in cancelSubs'[d] : sub'[i].pane = sub'[j].pane => i = j
  <2>1. sub'[j].client = sub[j].client /\ sub[j].routed /\ j \notin E
        /\ sub[j].client \in Clients
    BY <1>3, <1>7 DEF TypeInv, Queues
  <2>2. \/ reader[sub[j].client].pc = "subscribed" /\ reader[sub[j].client].sub = j
        \/ /\ j \in cancelSubs[sub[j].client] /\ ~(reader[sub[j].client].pc = "gone")
           /\ \A i \in cancelSubs[sub[j].client] : sub[i].pane = sub[j].pane => i = j
    BY <2>1 DEF SubscriptionsAreOwned, At
  <2>3. CASE sub[j].client # c
    BY <1>0, <1>3, <1>4, <1>5, <2>1, <2>2, <2>3
  <2>4. CASE sub[j].client = c /\ j = k
    <3>1. \A i \in cancelSubs'[c] : sub'[i].pane = sub'[k].pane => i = k
      BY <1>3, <1>4, <1>5, <1>6
    <3>2. QED
      BY <1>0, <1>4, <2>1, <2>4, <3>1
  <2>5. CASE sub[j].client = c /\ j # k
    <3>1. j \in cancelSubs[c] /\ \A i \in cancelSubs[c] : sub[i].pane = sub[j].pane => i = j
      BY <1>1, <2>2, <2>5
    <3>2. sub[j].pane # sub[k].pane
      BY <1>6, <2>1, <3>1
    <3>3. \A i \in cancelSubs'[c] : sub'[i].pane = sub'[j].pane => i = j
      BY <1>3, <1>4, <1>5, <3>1, <3>2
    <3>4. QED
      BY <1>0, <1>4, <2>1, <2>5, <3>1, <3>3
  <2>6. QED
    BY <2>3, <2>4, <2>5
<1>8. QED
  BY <1>7 DEF SubscriptionsAreOwned, At


LEMMA OwnedStep ==
  ASSUME TypeInv, SubscriptionsAreOwned, [Next]_vars
  PROVE  SubscriptionsAreOwned'
<1>0. /\ {"accepting", "list", "reading", "start", "snapshot", "end", "ending", "leaving",
          "gone"} \subseteq Places
      /\ 0 \in Subs \cup {0}
  BY DEF Places
<1>1. ASSUME NEW c \in Clients, ReaderStep(c) PROVE SubscriptionsAreOwned'
  <2>1. CASE AcceptFails(c)
    <3>1. cancelSubs[c] = {}
      <4>1. \A k \in Subs : sub[k].client # c
        BY <2>1 DEF AcceptFails, At, TypeInv, Fresh
      <4>2. QED
        BY <4>1, Types DEF TypeInv, Owners
    <3>2. QED
      BY <1>0, <1>1, <2>1, <3>1, OwnedMoves DEF AcceptFails, At, SameSubs
  <2>2. CASE Connect(c) \/ SendList(c) \/ ReadFails(c) \/ Leave(c)
    BY <1>0, <1>1, <2>2, OwnedMoves DEF Connect, SendList, ReadFails, Leave, At, SameSubs
  <2>3. CASE Left(c)
    BY <1>0, <1>1, <2>3, OwnedMoves DEF Left, At, SameSubs
  <2>4. CASE SendCancelled(c)
    BY <1>0, <1>1, <2>4, OwnedMoves DEF SendCancelled, At, SameSubs
  <2>5. ASSUME NEW k \in Subs, AddSub(c, k) PROVE SubscriptionsAreOwned'
    BY <1>1, <2>5, OwnedAdd
  <2>6. ASSUME NEW k \in Subs, SendStart(c, k) \/ SendSnapshot(c, k) \/ NoSnapshot(c, k)
        PROVE  SubscriptionsAreOwned'
    BY <1>0, <1>1, <2>6, OwnedMoves DEF SendStart, SendSnapshot, NoSnapshot, At, SameSubs
  <2>7. ASSUME NEW k \in Subs, SendEnd(c, k) PROVE SubscriptionsAreOwned'
    <3>1. SameSubs
      BY <2>7, Types DEF SendEnd, SameSubs, SubType
    <3>2. QED
      BY <1>0, <1>1, <2>7, <3>1, OwnedMoves DEF SendEnd, At
  <2>8. ASSUME NEW k \in Subs, CancelSub(c, k) PROVE SubscriptionsAreOwned'
    BY <1>1, <2>8, OwnedForget DEF CancelSub
  <2>9. QED
    BY <1>1, <2>1, <2>2, <2>3, <2>4, <2>5, <2>6, <2>7, <2>8 DEF ReaderStep
<1>2. ASSUME NEW c \in Clients, WriterStep(c) PROVE SubscriptionsAreOwned'
  BY <1>2, OwnedSame
     DEF WriterStep, WriterSends, WriterFails, WriterCancelled, connVars, SameSubs
<1>3. ASSUME NEW c \in Clients, Client(c) PROVE SubscriptionsAreOwned'
  <2>1. CASE AddClient(c)
    BY <1>0, <1>3, <2>1, OwnedMoves DEF AddClient, At, SameSubs
  <2>2. CASE Break(c)
    BY <2>2, OwnedSame DEF Break, SameSubs
  <2>3. ASSUME NEW k \in Subs, Detach(c, k) PROVE SubscriptionsAreOwned'
    BY <1>3, <2>3, OwnedForget DEF Detach
  <2>4. ASSUME NEW k \in Subs, NEW p \in Panes, Subscribe(c, p, k)
        PROVE  SubscriptionsAreOwned'
    BY <1>3, <2>4, OwnedSubscribe
  <2>5. QED
    BY <1>3, <2>1, <2>2, <2>3, <2>4 DEF Client
<1>4. ASSUME NEW k \in Subs, StreamStep(k) \/ Deliver(k) PROVE SubscriptionsAreOwned'
  <2>1. SameSubs
    BY <1>4, SameOwner DEF SameSubs
  <2>2. QED
    BY <1>4, <2>1, OwnedSame DEF StreamStep, Stream, StreamEnds, Deliver, connVars
<1>5. CASE (\E p \in Panes : Emit(p)) \/ Stop \/ UNCHANGED vars
  BY <1>5, OwnedSame DEF Emit, Stop, vars, connVars, SameSubs
<1>6. QED
  BY <1>1, <1>2, <1>3, <1>4, <1>5 DEF Next

-----------------------------------------------------------------------------
(* Frames follow the end of their snapshot.                                *)

LEMMA Appended ==
  ASSUME NEW q \in Seq(Sent), NEW m \in Sent
  PROVE  LET r == Append(q, m)
         IN  /\ Len(q) \in Nat /\ Len(r) = Len(q) + 1 /\ r[Len(q) + 1] = m
             /\ \A i \in 1 .. Len(q) : r[i] = q[i]
<1>. HIDE DEF Sent
<1>1. QED
  OBVIOUS

(* What is appended is a frame only of an attach whose end is in front.    *)
LEMMA FollowPut ==
  ASSUME NEW q \in Seq(Sent), NEW m \in Sent, NEW done, Follow(q, done),
         m.kind = "frame" => m.sub \in done \/ Ends(q, m.sub)
  PROVE  Follow(Append(q, m), done)
<1>. DEFINE r == Append(q, m)
<1>0. /\ Len(q) \in Nat /\ Len(r) = Len(q) + 1 /\ r[Len(q) + 1] = m
      /\ \A i \in 1 .. Len(q) : r[i] = q[i]
  BY Appended
<1>. HIDE DEF r
<1>1. ASSUME NEW i \in 1 .. Len(r), r[i].kind = "frame"
      PROVE  \/ r[i].sub \in done
             \/ \E j \in 1 .. i - 1 : r[j].kind = "end" /\ r[j].sub = r[i].sub
  <2>1. CASE i \in 1 .. Len(q)
    <3>1. r[i] = q[i] /\ \A j \in 1 .. i - 1 : r[j] = q[j]
      BY <1>0, <2>1
    <3>2. QED
      BY <1>1, <2>1, <3>1 DEF Follow
  <2>2. CASE i = Len(q) + 1
    <3>1. r[i] = m /\ 1 .. i - 1 = 1 .. Len(q)
      BY <1>0, <2>2
    <3>2. QED
      BY <1>0, <1>1, <3>1 DEF Ends
  <2>3. QED
    BY <1>0, <2>1, <2>2
<1>2. QED
  BY <1>1 DEF Follow, r

LEMMA EndsPut ==
  ASSUME NEW q \in Seq(Sent), NEW m \in Sent, NEW k,
         Ends(q, k) \/ (m.kind = "end" /\ m.sub = k)
  PROVE  Ends(Append(q, m), k)
<1>. DEFINE r == Append(q, m)
<1>0. /\ Len(q) \in Nat /\ Len(r) = Len(q) + 1 /\ r[Len(q) + 1] = m
      /\ \A i \in 1 .. Len(q) : r[i] = q[i]
  BY Appended
<1>. HIDE DEF r
<1>1. CASE Ends(q, k)
  <2>1. PICK j \in 1 .. Len(q) : q[j].kind = "end" /\ q[j].sub = k
    BY <1>1 DEF Ends
  <2>2. j \in 1 .. Len(r) /\ r[j] = q[j]
    BY <1>0
  <2>3. QED
    BY <2>1, <2>2 DEF Ends, r
<1>2. CASE m.kind = "end" /\ m.sub = k
  <2>1. Len(q) + 1 \in 1 .. Len(r)
    BY <1>0
  <2>2. QED
    BY <1>0, <1>2, <2>1 DEF Ends, r
<1>3. QED
  BY <1>1, <1>2

LEMMA Popped ==
  ASSUME NEW q \in Seq(Sent), q # <<>>
  PROVE  /\ Tail(q) \in Seq(Sent) /\ Len(q) \in Nat /\ Len(q) >= 1
         /\ Len(Tail(q)) = Len(q) - 1 /\ Head(q) = q[1] /\ q[1] \in Sent
         /\ \A i \in 1 .. Len(q) - 1 : Tail(q)[i] = q[i + 1]
<1>. HIDE DEF Sent
<1>1. QED
  OBVIOUS

(* The head is written: an end becomes known, the others move up.          *)
LEMMA FollowPop ==
  ASSUME NEW q \in Seq(Sent), q # <<>>, NEW done, Follow(q, done), NEW next,
         next = IF Head(q).kind = "end" THEN done \cup {Head(q).sub} ELSE done
  PROVE  Follow(Tail(q), next)
<1>. DEFINE r == Tail(q)
<1>0. /\ Len(q) \in Nat /\ Len(q) >= 1 /\ Len(r) = Len(q) - 1 /\ Head(q) = q[1]
      /\ \A i \in 1 .. Len(q) - 1 : r[i] = q[i + 1]
  BY Popped
<1>. HIDE DEF r
<1>1. ASSUME NEW i \in 1 .. Len(r), r[i].kind = "frame"
      PROVE  \/ r[i].sub \in next
             \/ \E j \in 1 .. i - 1 : r[j].kind = "end" /\ r[j].sub = r[i].sub
  <2>1. r[i] = q[i + 1] /\ i + 1 \in 1 .. Len(q)
    BY <1>0
  <2>2. \/ q[i + 1].sub \in done
        \/ \E j \in 1 .. (i + 1) - 1 : q[j].kind = "end" /\ q[j].sub = q[i + 1].sub
    BY <1>1, <2>1 DEF Follow
  <2>3. CASE q[i + 1].sub \in done
    BY <2>1, <2>3
  <2>4. CASE \E j \in 1 .. (i + 1) - 1 : q[j].kind = "end" /\ q[j].sub = q[i + 1].sub
    <3>1. PICK j \in 1 .. (i + 1) - 1 : q[j].kind = "end" /\ q[j].sub = q[i + 1].sub
      BY <2>4
    <3>2. CASE j = 1
      BY <1>0, <2>1, <3>1, <3>2
    <3>3. CASE j # 1
      <4>1. j - 1 \in 1 .. i - 1 /\ r[j - 1] = q[(j - 1) + 1] /\ (j - 1) + 1 = j
        BY <1>0, <3>1, <3>3
      <4>2. QED
        BY <2>1, <3>1, <4>1
    <3>4. QED
      BY <3>2, <3>3
  <2>5. QED
    BY <2>2, <2>3, <2>4
<1>2. QED
  BY <1>1 DEF Follow, r

LEMMA EndsPop ==
  ASSUME NEW q \in Seq(Sent), q # <<>>, NEW k, Ends(q, k),
         ~(Head(q).kind = "end" /\ Head(q).sub = k)
  PROVE  Ends(Tail(q), k)
<1>. DEFINE r == Tail(q)
<1>0. /\ Len(q) \in Nat /\ Len(q) >= 1 /\ Len(r) = Len(q) - 1 /\ Head(q) = q[1]
      /\ \A i \in 1 .. Len(q) - 1 : r[i] = q[i + 1]
  BY Popped
<1>. HIDE DEF r
<1>1. PICK j \in 1 .. Len(q) : q[j].kind = "end" /\ q[j].sub = k
  BY DEF Ends
<1>2. j # 1
  BY <1>0, <1>1
<1>3. j - 1 \in 1 .. Len(r) /\ r[j - 1] = q[(j - 1) + 1] /\ (j - 1) + 1 = j
  BY <1>0, <1>2
<1>4. QED
  BY <1>1, <1>3 DEF Ends, r

Order == Announced /\ Following


(* No queue changes, and no goroutine of an attach or writer starts.       *)
LEMMA OrderSame ==
  ASSUME TypeInv, Order, writeCh' = writeCh, ended' = ended,
         \A c \in Clients : writer'[c] = "running" => writer[c] = "running",
         \A k \in Subs : sub'[k].streaming =>
           sub[k].streaming /\ sub'[k].client = sub[k].client
  PROVE  Order'
<1>1. Announced'
  BY DEF Order, Announced
<1>2. Following'
  BY DEF Order, Following
<1>3. QED
  BY <1>1, <1>2 DEF Order

LEMMA OrderPut ==
  ASSUME TypeInv, Order, NEW c \in Clients, NEW m \in Sent, Put(c, m), ended' = ended,
         writer' = writer,
         m.kind = "frame" /\ writer[c] = "running" => m.sub \in ended \/ Ends(writeCh[c], m.sub),
         \A k \in Subs : sub'[k].streaming =>
           /\ sub'[k].client = sub[k].client
           /\ sub[k].streaming \/ (sub[k].client = c /\ m.kind = "end" /\ m.sub = k)
  PROVE  Order'
<1>0. /\ writeCh[c] \in Seq(Sent) /\ writeCh'[c] = Append(writeCh[c], m)
      /\ \A d \in Clients \ {c} : writeCh'[d] = writeCh[d]
  BY PutIn, Types
<1>1. ASSUME NEW d \in Clients, NEW k \in Subs, sub'[k].streaming, sub'[k].client = d,
             writer'[d] = "running"
      PROVE  k \in ended' \/ Ends(writeCh'[d], k)
  <2>1. CASE d = c
    <3>1. k \in ended \/ Ends(writeCh[c], k) \/ (m.kind = "end" /\ m.sub = k)
      BY <1>1, <2>1 DEF Order, Announced
    <3>2. CASE k \in ended
      BY <3>2
    <3>3. CASE Ends(writeCh[c], k) \/ (m.kind = "end" /\ m.sub = k)
      <4>1. Ends(Append(writeCh[c], m), k)
        BY <1>0, <3>3, EndsPut
      <4>2. QED
        BY <1>0, <2>1, <4>1
    <3>4. QED
      BY <3>1, <3>2, <3>3
  <2>2. CASE d # c
    BY <1>0, <1>1, <2>2 DEF Order, Announced
  <2>3. QED
    BY <2>1, <2>2
<1>2. ASSUME NEW d \in Clients, writer'[d] = "running" PROVE Follow(writeCh'[d], ended')
  <2>1. Follow(writeCh[d], ended)
    BY <1>2 DEF Order, Following
  <2>2. CASE d = c
    BY <1>0, <1>2, <2>1, <2>2, FollowPut
  <2>3. CASE d # c
    BY <1>0, <2>1, <2>3
  <2>4. QED
    BY <2>2, <2>3
<1>3. QED
  BY <1>1, <1>2 DEF Order, Announced, Following

LEMMA OrderPop ==
  ASSUME TypeInv, Order, NEW c \in Clients, WriterSends(c)
  PROVE  Order'
<1>. DEFINE q == writeCh[c]
<1>. DEFINE m == Head(q)
<1>0. /\ q \in Seq(Sent) /\ q # <<>> /\ writer[c] = "running"
      /\ writeCh'[c] = Tail(q) /\ \A d \in Clients \ {c} : writeCh'[d] = writeCh[d]
      /\ ended' = IF m.kind = "end" THEN ended \cup {m.sub} ELSE ended
      /\ writer' = writer /\ sub' = sub
  BY Types DEF WriterSends
<1>. HIDE DEF q
<1>1. ASSUME NEW d \in Clients, NEW k \in Subs, sub'[k].streaming, sub'[k].client = d,
             writer'[d] = "running"
      PROVE  k \in ended' \/ Ends(writeCh'[d], k)
  <2>0. ended \subseteq ended' /\ (k \in ended \/ Ends(writeCh[d], k))
    BY <1>0, <1>1 DEF Order, Announced
  <2>1. CASE d = c /\ Ends(writeCh[d], k)
    <3>1. CASE m.kind = "end" /\ m.sub = k
      BY <1>0, <3>1
    <3>2. CASE ~(m.kind = "end" /\ m.sub = k)
      BY <1>0, <2>1, <3>2, EndsPop DEF q
    <3>3. QED
      BY <3>1, <3>2
  <2>2. CASE d # c
    BY <1>0, <2>0, <2>2
  <2>3. QED
    BY <2>0, <2>1, <2>2
<1>2. ASSUME NEW d \in Clients, writer'[d] = "running" PROVE Follow(writeCh'[d], ended')
  <2>1. Follow(writeCh[d], ended)
    BY <1>0, <1>2 DEF Order, Following
  <2>2. CASE d = c
    BY <1>0, <2>1, <2>2, FollowPop DEF q
  <2>3. CASE d # c
    <3>1. writeCh'[d] = writeCh[d] /\ ended \subseteq ended'
      BY <1>0, <2>3
    <3>2. QED
      BY <2>1, <3>1 DEF Follow
  <2>4. QED
    BY <2>2, <2>3
<1>3. QED
  BY <1>1, <1>2 DEF Order, Announced, Following

(* A writer starts on an empty queue, of a client that owns nothing.       *)
LEMMA OrderConnect ==
  ASSUME TypeInv, Order, NEW c \in Clients, Connect(c)
  PROVE  Order'
<1>0. /\ writeCh[c] = <<>> /\ \A k \in Subs : sub[k].client # c
      /\ writeCh' = writeCh /\ sub' = sub /\ ended' = ended
      /\ \A d \in Clients \ {c} : writer'[d] = writer[d]
  BY Types DEF Connect, hist, At, TypeInv, Fresh
<1>1. Announced'
  BY <1>0 DEF Order, Announced
<1>2. Follow(<<>>, ended)
  <2>1. Len(<<>>) = 0
    OBVIOUS
  <2>2. QED
    BY <2>1 DEF Follow
<1>3. Following'
  BY <1>0, <1>2 DEF Order, Following
<1>4. QED
  BY <1>1, <1>3 DEF Order

(* The writer ends with the message it fails on.                           *)
LEMMA OrderFails ==
  ASSUME TypeInv, Order, NEW c \in Clients, WriterFails(c)
  PROVE  Order'
<1>0. /\ writer'[c] = "ended" /\ \A d \in Clients \ {c} : writer'[d] = writer[d]
      /\ \A d \in Clients \ {c} : writeCh'[d] = writeCh[d]
      /\ sub' = sub /\ ended' = ended
  BY Types DEF WriterFails, hist
<1>1. Announced'
  BY <1>0 DEF Order, Announced
<1>2. Following'
  BY <1>0 DEF Order, Following
<1>3. QED
  BY <1>1, <1>2 DEF Order

LEMMA OrderStream ==
  ASSUME TypeInv, Order, NEW k \in Subs, Stream(k)
  PROVE  Order'
<1>. DEFINE c == sub[k].client
<1>. DEFINE m == Message("frame", k, Head(sub[k].ch))
<1>0. /\ sub[k] \in SubType /\ sub[k].ch \in Seq(1 .. MaxFrames) /\ sub[k].ch # <<>>
      /\ sub[k].streaming /\ c \in Clients
  BY Types DEF Stream, TypeInv, Queues, SubType
<1>1. Head(sub[k].ch) \in 1 .. MaxFrames
  BY <1>0, Rest
<1>2. m \in Sent /\ m.kind = "frame" /\ m.sub = k
  <2>1. Head(sub[k].ch) \in 0 .. MaxFrames
    BY <1>1, GatewayAssumption
  <2>2. m \in Sent
    BY <2>1, IsSent
  <2>3. QED
    BY <2>2 DEF Message
<1>3. writer[c] = "running" => k \in ended \/ Ends(writeCh[c], k)
  BY <1>0 DEF Order, Announced
<1>4. \A j \in Subs : /\ sub'[j].client = sub[j].client
                      /\ sub'[j].streaming = sub[j].streaming
  BY SameOwner DEF StreamStep
<1>5. ended' = ended /\ writer' = writer
  BY DEF Stream, hist
<1>6. CASE HasRoom(c)
  <2>1. Put(c, m)
    BY <1>6 DEF Stream
  <2>. HIDE DEF m, c
  <2>2. QED
    BY <1>0, <1>2, <1>3, <1>4, <1>5, <2>1, OrderPut
<1>7. CASE ~HasRoom(c)
  BY <1>4, <1>5, <1>7, OrderSame DEF Stream
<1>8. QED
  BY <1>6, <1>7

LEMMA OrderStep ==
  ASSUME TypeInv, Order, [Next]_vars
  PROVE  Order'
<1>1. ASSUME NEW c \in Clients, ReaderStep(c) PROVE Order'
  <2>1. CASE Connect(c)
    BY <1>1, <2>1, OrderConnect
  <2>2. CASE SendList(c)
    <3>1. Message("list", 0, 0) \in Sent /\ Message("list", 0, 0).kind = "list"
      BY SubsNat, GatewayAssumption DEF Message, Sent, MessageType
    <3>2. QED
      BY <1>1, <2>2, <3>1, OrderPut DEF SendList, hist
  <2>3. CASE AcceptFails(c) \/ SendCancelled(c) \/ ReadFails(c) \/ Leave(c) \/ Left(c)
    BY <2>3, OrderSame DEF AcceptFails, SendCancelled, ReadFails, Leave, Left, hist
  <2>4. ASSUME NEW k \in Subs, SendStart(c, k) PROVE Order'
    <3>1. Message("start", k, 0) \in Sent /\ Message("start", k, 0).kind = "start"
      BY IsSent DEF Message
    <3>2. QED
      BY <1>1, <2>4, <3>1, OrderPut DEF SendStart, hist
  <2>5. ASSUME NEW k \in Subs, SendSnapshot(c, k) PROVE Order'
    <3>1. Message("snapshot", k, 0) \in Sent /\ Message("snapshot", k, 0).kind = "snapshot"
      BY IsSent DEF Message
    <3>2. QED
      BY <1>1, <2>5, <3>1, OrderPut DEF SendSnapshot, hist
  <2>6. ASSUME NEW k \in Subs, SendEnd(c, k) PROVE Order'
    <3>1. /\ Message("end", k, 0) \in Sent /\ Message("end", k, 0).kind = "end"
          /\ Message("end", k, 0).sub = k
      BY IsSent DEF Message
    <3>2. sub[k].client = c
      BY <1>1, <2>6 DEF SendEnd, At, TypeInv, Owners, Attaching
    <3>3. \A j \in Subs : sub'[j].streaming =>
            sub'[j].client = sub[j].client /\ (sub[j].streaming \/ j = k)
      BY <2>6, Types DEF SendEnd, SubType
    <3>4. Put(c, Message("end", k, 0)) /\ ended' = ended /\ writer' = writer
      BY <2>6 DEF SendEnd, hist
    <3>5. QED
      BY <1>1, <3>1, <3>2, <3>3, <3>4, OrderPut
  <2>7. ASSUME NEW k \in Subs, AddSub(c, k) \/ NoSnapshot(c, k) \/ CancelSub(c, k)
        PROVE  Order'
    <3>1. \A j \in Subs : sub'[j].streaming = sub[j].streaming
                          /\ sub'[j].client = sub[j].client
      <4>1. CASE AddSub(c, k)
        <5>1. Existing(c, k) \in SUBSET Subs
          BY <1>1, Types DEF Existing
        <5>2. QED
          BY <4>1, <5>1, UnroutedSubs, Types DEF AddSub
      <4>2. CASE NoSnapshot(c, k)
        BY <4>2 DEF NoSnapshot
      <4>3. CASE CancelSub(c, k)
        <5>1. {k} \in SUBSET Subs
          OBVIOUS
        <5>2. QED
          BY <4>3, <5>1, UnroutedSubs, Types DEF CancelSub
      <4>4. QED
        BY <2>7, <4>1, <4>2, <4>3
    <3>2. QED
      BY <2>7, <3>1, OrderSame DEF AddSub, NoSnapshot, CancelSub, hist
  <2>8. QED
    BY <1>1, <2>1, <2>2, <2>3, <2>4, <2>5, <2>6, <2>7 DEF ReaderStep
<1>2. ASSUME NEW c \in Clients, WriterStep(c) PROVE Order'
  <2>1. CASE WriterSends(c)
    BY <1>2, <2>1, OrderPop
  <2>2. CASE WriterFails(c)
    BY <1>2, <2>2, OrderFails
  <2>3. CASE WriterCancelled(c)
    <3>1. \A d \in Clients : writer'[d] = "running" => writer[d] = "running"
      BY <1>2, <2>3, Types DEF WriterCancelled
    <3>2. QED
      BY <2>3, <3>1, OrderSame DEF WriterCancelled, hist
  <2>4. QED
    BY <1>2, <2>1, <2>2, <2>3 DEF WriterStep
<1>3. ASSUME NEW c \in Clients, Client(c) PROVE Order'
  <2>1. CASE AddClient(c) \/ Break(c)
    BY <2>1, OrderSame DEF AddClient, Break, hist
  <2>2. ASSUME NEW k \in Subs, Detach(c, k) PROVE Order'
    <3>1. {k} \in SUBSET Subs
      OBVIOUS
    <3>2. \A j \in Subs : sub'[j].streaming = sub[j].streaming
                          /\ sub'[j].client = sub[j].client
      BY <2>2, <3>1, UnroutedSubs, Types DEF Detach
    <3>3. QED
      BY <2>2, <3>2, OrderSame DEF Detach, hist
  <2>3. ASSUME NEW k \in Subs, NEW p \in Panes, Subscribe(c, p, k) PROVE Order'
    <3>1. ~sub'[k].streaming /\ \A j \in Subs \ {k} : sub'[j] = sub[j]
      BY <2>3, Types DEF Subscribe, NoSub
    <3>2. QED
      BY <2>3, <3>1, OrderSame DEF Subscribe, hist
  <2>4. QED
    BY <1>3, <2>1, <2>2, <2>3 DEF Client
<1>4. ASSUME NEW k \in Subs, StreamStep(k) \/ Deliver(k) PROVE Order'
  <2>1. CASE Stream(k)
    BY <1>4, <2>1, OrderStream
  <2>2. CASE StreamEnds(k) \/ Deliver(k)
    <3>1. \A j \in Subs : sub'[j].streaming =>
            sub[j].streaming /\ sub'[j].client = sub[j].client
      BY <1>4, SameOwner
    <3>2. QED
      BY <2>2, <3>1, OrderSame DEF StreamEnds, Deliver, hist
  <2>3. QED
    BY <1>4, <2>1, <2>2 DEF StreamStep
<1>5. CASE (\E p \in Panes : Emit(p)) \/ Stop \/ UNCHANGED vars
  BY <1>5, OrderSame DEF Emit, Stop, vars, hist
<1>6. QED
  BY <1>1, <1>2, <1>3, <1>4, <1>5 DEF Next

-----------------------------------------------------------------------------
(* Frames keep their order: nothing that waits has been overtaken.         *)

(* A message without a frame comes into a queue, or a frame of k that came *)
(* after all that is written or queued.                                    *)
LEMMA BelowPut ==
  ASSUME NEW q \in Seq(Sent), NEW m \in Sent, NEW k, NEW n, Below(q, k, n),
         IsFrame(m, k) => m.n < n
  PROVE  Below(Append(q, m), k, n)
<1>. DEFINE r == Append(q, m)
<1>0. /\ Len(q) \in Nat /\ Len(r) = Len(q) + 1 /\ r[Len(q) + 1] = m
      /\ \A i \in 1 .. Len(q) : r[i] = q[i]
  BY Appended
<1>. HIDE DEF r
<1>1. ASSUME NEW i \in 1 .. Len(r), IsFrame(r[i], k) PROVE r[i].n < n
  <2>1. CASE i = Len(q) + 1
    BY <1>0, <1>1, <2>1
  <2>2. CASE i \in 1 .. Len(q)
    BY <1>0, <1>1, <2>2 DEF Below
  <2>3. QED
    BY <1>0, <2>1, <2>2
<1>2. QED
  BY <1>1 DEF Below, r

LEMMA InOrderPut ==
  ASSUME NEW q \in Seq(Sent), NEW m \in Sent, NEW k, InOrder(q, k),
         IsFrame(m, k) => Below(q, k, m.n)
  PROVE  InOrder(Append(q, m), k)
<1>. DEFINE r == Append(q, m)
<1>0. /\ Len(q) \in Nat /\ Len(r) = Len(q) + 1 /\ r[Len(q) + 1] = m
      /\ \A i \in 1 .. Len(q) : r[i] = q[i]
  BY Appended
<1>. HIDE DEF r
<1>1. ASSUME NEW i \in 1 .. Len(r), NEW j \in 1 .. Len(r), i < j,
             IsFrame(r[i], k), IsFrame(r[j], k)
      PROVE  r[i].n < r[j].n
  <2>1. i \in 1 .. Len(q) /\ r[i] = q[i]
    BY <1>0, <1>1
  <2>2. CASE j = Len(q) + 1
    BY <1>0, <1>1, <2>1, <2>2 DEF Below
  <2>3. CASE j \in 1 .. Len(q)
    BY <1>0, <1>1, <2>1, <2>3 DEF InOrder
  <2>4. QED
    BY <1>0, <2>2, <2>3
<1>2. QED
  BY <1>1 DEF InOrder, r

LEMMA BelowPop ==
  ASSUME NEW q \in Seq(Sent), q # <<>>, NEW k, NEW n, Below(q, k, n)
  PROVE  Below(Tail(q), k, n) /\ (IsFrame(Head(q), k) => Head(q).n < n)
<1>. DEFINE r == Tail(q)
<1>0. /\ Len(q) \in Nat /\ Len(q) >= 1 /\ Len(r) = Len(q) - 1 /\ Head(q) = q[1]
      /\ \A i \in 1 .. Len(q) - 1 : r[i] = q[i + 1]
  BY Popped
<1>. HIDE DEF r
<1>1. ASSUME NEW i \in 1 .. Len(r), IsFrame(r[i], k) PROVE r[i].n < n
  <2>1. r[i] = q[i + 1] /\ i + 1 \in 1 .. Len(q)
    BY <1>0
  <2>2. QED
    BY <1>1, <2>1 DEF Below
<1>2. 1 \in 1 .. Len(q)
  BY <1>0
<1>3. QED
  BY <1>0, <1>1, <1>2 DEF Below, r

LEMMA InOrderPop ==
  ASSUME NEW q \in Seq(Sent), q # <<>>, NEW k, InOrder(q, k)
  PROVE  /\ InOrder(Tail(q), k)
         /\ IsFrame(Head(q), k) => \A i \in 1 .. Len(Tail(q)) :
              IsFrame(Tail(q)[i], k) => Head(q).n < Tail(q)[i].n
<1>. DEFINE r == Tail(q)
<1>0. /\ Len(q) \in Nat /\ Len(q) >= 1 /\ Len(r) = Len(q) - 1 /\ Head(q) = q[1]
      /\ \A i \in 1 .. Len(q) - 1 : r[i] = q[i + 1]
  BY Popped
<1>. HIDE DEF r
<1>1. \A i \in 1 .. Len(r) : r[i] = q[i + 1] /\ i + 1 \in 1 .. Len(q) /\ 1 < i + 1
  BY <1>0
<1>2. ASSUME NEW i \in 1 .. Len(r), NEW j \in 1 .. Len(r), i < j,
             IsFrame(r[i], k), IsFrame(r[j], k)
      PROVE  r[i].n < r[j].n
  <2>1. /\ r[i] = q[i + 1] /\ r[j] = q[j + 1] /\ i + 1 < j + 1
        /\ i + 1 \in 1 .. Len(q) /\ j + 1 \in 1 .. Len(q)
    BY <1>1, <1>2
  <2>2. QED
    BY <1>2, <2>1 DEF InOrder
<1>3. ASSUME NEW i \in 1 .. Len(r), IsFrame(q[1], k), IsFrame(r[i], k)
      PROVE  q[1].n < r[i].n
  <2>1. 1 \in 1 .. Len(q)
    BY <1>0
  <2>2. QED
    BY <1>1, <1>3, <2>1 DEF InOrder
<1>4. QED
  BY <1>0, <1>2, <1>3 DEF InOrder, r

(* Two stretches of the way are in order when each is and the second comes *)
(* after the first.                                                        *)
LEMMA Joined ==
  ASSUME NEW a \in Seq(Sent), NEW b \in Seq(Sent), NEW k, InOrder(a, k), InOrder(b, k),
         \A j \in 1 .. Len(b) : IsFrame(b[j], k) => Below(a, k, b[j].n)
  PROVE  /\ a \o b \in Seq(Sent) /\ InOrder(a \o b, k)
         /\ \A n : Below(a, k, n) /\ Below(b, k, n) => Below(a \o b, k, n)
<1>. DEFINE r == a \o b
<1>0. /\ r \in Seq(Sent) /\ Len(a) \in Nat /\ Len(b) \in Nat /\ Len(r) = Len(a) + Len(b)
      /\ \A i \in 1 .. Len(r) : r[i] = IF i <= Len(a) THEN a[i] ELSE b[i - Len(a)]
  <2>. HIDE DEF Sent
  <2>1. QED
    OBVIOUS
<1>. HIDE DEF r
<1>1. \A i \in 1 .. Len(r) : \/ i \in 1 .. Len(a) /\ r[i] = a[i]
                             \/ /\ i - Len(a) \in 1 .. Len(b) /\ r[i] = b[i - Len(a)]
                                /\ i > Len(a)
  BY <1>0
<1>2. ASSUME NEW i \in 1 .. Len(r), NEW j \in 1 .. Len(r), i < j,
             IsFrame(r[i], k), IsFrame(r[j], k)
      PROVE  r[i].n < r[j].n
  <2>1. CASE i \in 1 .. Len(a) /\ j \in 1 .. Len(a)
    BY <1>0, <1>2, <2>1 DEF InOrder
  <2>2. CASE i \in 1 .. Len(a) /\ j > Len(a)
    <3>1. r[i] = a[i] /\ j - Len(a) \in 1 .. Len(b) /\ r[j] = b[j - Len(a)]
      BY <1>0, <2>2
    <3>2. Below(a, k, b[j - Len(a)].n)
      BY <1>2, <3>1
    <3>3. QED
      BY <1>2, <2>2, <3>1, <3>2 DEF Below
  <2>3. CASE i > Len(a)
    <3>1. /\ i - Len(a) \in 1 .. Len(b) /\ r[i] = b[i - Len(a)]
          /\ j - Len(a) \in 1 .. Len(b) /\ r[j] = b[j - Len(a)]
          /\ i - Len(a) < j - Len(a)
      BY <1>0, <1>2, <2>3
    <3>2. QED
      BY <1>2, <3>1 DEF InOrder
  <2>4. QED
    BY <1>0, <1>2, <2>1, <2>2, <2>3
<1>3. ASSUME NEW n, Below(a, k, n), Below(b, k, n) PROVE Below(r, k, n)
  BY <1>1, <1>3 DEF Below
<1>4. QED
  BY <1>0, <1>2, <1>3 DEF InOrder, r

LEMMA FramesOfType ==
  ASSUME NEW k \in Subs, NEW ns \in Seq(0 .. MaxFrames)
  PROVE  /\ FramesOf(k, ns) \in Seq(Sent) /\ Len(FramesOf(k, ns)) = Len(ns)
         /\ \A i \in 1 .. Len(ns) : FramesOf(k, ns)[i].n = ns[i]
         /\ Sorted(ns) => InOrder(FramesOf(k, ns), k)
         /\ \A n : Below(FramesOf(k, ns), k, n) <=> \A i \in 1 .. Len(ns) : ns[i] < n
<1>1. \A i \in 1 .. Len(ns) : Message("frame", k, ns[i]) \in Sent
  <2>1. \A i \in 1 .. Len(ns) : ns[i] \in 0 .. MaxFrames
    BY GatewayAssumption
  <2>2. QED
    BY <2>1, IsSent
<1>2. Len(ns) \in Nat
  OBVIOUS
<1>3. FramesOf(k, ns) \in Seq(Sent) /\ Len(FramesOf(k, ns)) = Len(ns)
  <2>. HIDE DEF Sent
  <2>1. QED
    BY <1>1, <1>2 DEF FramesOf
<1>4. \A i \in 1 .. Len(ns) : /\ FramesOf(k, ns)[i].n = ns[i]
                              /\ IsFrame(FramesOf(k, ns)[i], k)
  BY DEF FramesOf, Message, IsFrame
<1>5. QED
  BY <1>3, <1>4 DEF Sorted, InOrder, Below

(* A queue of Lined that only others than the parser see move.             *)
LEMMA LinedSame ==
  ASSUME TypeInv, Lined, writeCh' = writeCh, last' = last, outVars' = outVars,
         \A k \in Subs : /\ sub'[k].client = sub[k].client \/ sub[k].client \notin Clients
                         /\ sub'[k].ch = sub[k].ch
  PROVE  Lined'
<1>0. \A k \in Subs : \A n : Waits(k, n)' <=> Waits(k, n)
  BY DEF Waits, outVars
<1>1. ASSUME NEW k \in Subs PROVE ChannelLined(k)'
  BY <1>0 DEF Lined, ChannelLined, outVars
<1>2. ASSUME NEW k \in Subs, NEW c \in Clients PROVE QueueLined(c, k)'
  BY DEF Lined, QueueLined, outVars
<1>3. QED
  BY <1>1, <1>2 DEF Lined, outVars

(* Another message of the attach that waits is put into a queue.           *)
LEMMA WaitsPut ==
  ASSUME TypeInv, NEW c \in Clients, NEW m \in Sent, Put(c, m), NEW k \in Subs, NEW n,
         last' = last, frame' = frame, Waits(k, n), IsFrame(m, k) => m.n < n
  PROVE  Waits(k, n)'
<1>0. /\ writeCh[c] \in Seq(Sent) /\ writeCh'[c] = Append(writeCh[c], m)
      /\ \A d \in Clients \ {c} : writeCh'[d] = writeCh[d]
  BY PutIn, Types
<1>1. Below(writeCh'[c], k, n)
  BY <1>0, BelowPut DEF Waits
<1>2. \A d \in Clients : Below(writeCh'[d], k, n)
  BY <1>0, <1>1 DEF Waits
<1>3. QED
  BY <1>2 DEF Waits

LEMMA QueuePut ==
  ASSUME TypeInv, Lined, NEW c \in Clients, NEW m \in Sent, Put(c, m), NEW k \in Subs,
         last' = last, frame' = frame, sub'[k].client = sub[k].client,
         IsFrame(m, k) => sub[k].client = c /\ Waits(k, m.n),
         NEW d \in Clients
  PROVE  QueueLined(d, k)'
<1>0. /\ writeCh[c] \in Seq(Sent) /\ writeCh'[c] = Append(writeCh[c], m)
      /\ \A e \in Clients \ {c} : writeCh'[e] = writeCh[e]
  BY PutIn, Types
<1>1. CASE d # c
  BY <1>0, <1>1 DEF Lined, QueueLined
<1>2. CASE d = c
  <2>1. QueueLined(c, k)
    BY DEF Lined
  <2>2. IsFrame(m, k) => Below(writeCh[c], k, m.n)
    BY DEF Waits
  <2>3. InOrder(writeCh'[c], k)
    BY <1>0, <2>1, <2>2, InOrderPut DEF QueueLined
  <2>4. ASSUME NEW i \in 1 .. Len(writeCh'[c]), IsFrame(writeCh'[c][i], k)
        PROVE  /\ sub'[k].client = c
               /\ last'[k] < writeCh'[c][i].n /\ writeCh'[c][i].n <= frame'
    <3>1. \/ i = Len(writeCh[c]) + 1 /\ writeCh'[c][i] = m
          \/ i \in 1 .. Len(writeCh[c]) /\ writeCh'[c][i] = writeCh[c][i]
      <4>. DEFINE r == writeCh'[c]
      <4>1. /\ Len(writeCh[c]) \in Nat /\ Len(r) = Len(writeCh[c]) + 1
            /\ r[Len(writeCh[c]) + 1] = m /\ \A j \in 1 .. Len(writeCh[c]) : r[j] = writeCh[c][j]
        BY <1>0, Appended
      <4>. HIDE DEF r
      <4>2. i \in 1 .. Len(r)
        BY DEF r
      <4>3. QED
        BY <4>1, <4>2 DEF r
    <3>2. CASE writeCh'[c][i] = m
      BY <2>4, <3>2 DEF Waits
    <3>3. CASE i \in 1 .. Len(writeCh[c]) /\ writeCh'[c][i] = writeCh[c][i]
      BY <2>1, <2>4, <3>3 DEF QueueLined
    <3>4. QED
      BY <3>1, <3>2, <3>3
  <2>5. QED
    BY <1>2, <2>3, <2>4 DEF QueueLined
<1>3. QED
  BY <1>1, <1>2

LEMMA LinedPut ==
  ASSUME TypeInv, Lined, NEW c \in Clients, NEW m \in Sent, Put(c, m), m.kind # "frame",
         last' = last, outVars' = outVars,
         \A k \in Subs : sub'[k].client = sub[k].client /\ sub'[k].ch = sub[k].ch
  PROVE  Lined'
<1>0. frame' = frame /\ emit' = emit
  BY DEF outVars
<1>1. ASSUME NEW k \in Subs PROVE ChannelLined(k)'
  <2>1. \A n : Waits(k, n) => Waits(k, n)'
    BY <1>0, WaitsPut DEF IsFrame
  <2>2. QED
    BY <1>0, <2>1 DEF Lined, ChannelLined
<1>2. ASSUME NEW k \in Subs, NEW d \in Clients PROVE QueueLined(d, k)'
  BY <1>0, QueuePut DEF IsFrame
<1>3. QED
  BY <1>0, <1>1, <1>2 DEF Lined

(* A frame moves from the channel of its attach into the queue, or is lost *)
(* there; either way the channel has one less.                             *)
LEMMA LinedStream ==
  ASSUME TypeInv, Lined, NEW k \in Subs, Stream(k)
  PROVE  Lined'
<1>. DEFINE c == sub[k].client
<1>. DEFINE q == sub[k].ch
<1>. DEFINE m == Message("frame", k, Head(q))
<1>0. /\ sub[k] \in SubType /\ q \in Seq(1 .. MaxFrames) /\ q # <<>>
      /\ c \in Clients /\ last' = last /\ emit' = emit /\ frame' = frame
  BY Types DEF Stream, TypeInv, Queues, SubType, hist, outVars
<1>1. \A j \in Subs \ {k} : sub'[j] = sub[j]
  BY Types DEF Stream
<1>2. \A j \in Subs : sub'[j].client = sub[j].client
  BY SameOwner DEF StreamStep
<1>3. sub'[k].ch = Tail(q)
  <2>1. sub'[k] = [sub[k] EXCEPT !.ch = Tail(q)]
    BY Types DEF Stream
  <2>2. QED
    BY <1>0, <2>1 DEF SubType
<1>4. /\ Len(q) \in Nat /\ Len(q) >= 1 /\ Len(Tail(q)) = Len(q) - 1 /\ Head(q) = q[1]
      /\ \A i \in 1 .. Len(q) - 1 : Tail(q)[i] = q[i + 1]
      /\ Head(q) \in 1 .. MaxFrames
  <2>. DEFINE S == 1 .. MaxFrames
  <2>. HIDE DEF S, q
  <2>1. q \in Seq(S) /\ q # <<>>
    BY <1>0 DEF S
  <2>2. Head(q) \in S
    BY <2>1
  <2>3. QED
    BY <2>1, <2>2 DEF S
<1>5. m \in Sent /\ IsFrame(m, k) /\ m.n = Head(q) /\ \A j \in Subs \ {k} : ~IsFrame(m, j)
  <2>1. Head(q) \in 0 .. MaxFrames
    BY <1>4, GatewayAssumption
  <2>2. QED
    BY <2>1, IsSent DEF Message, IsFrame
<1>6. ChannelLined(k)
  BY DEF Lined
<1>. HIDE DEF m, c, q
<1>7. \A i \in 1 .. Len(Tail(q)) : /\ i + 1 \in 1 .. Len(q) /\ Tail(q)[i] = q[i + 1]
                                   /\ 1 \in 1 .. Len(q) /\ 1 < i + 1
  BY <1>4
<1>8. Waits(k, Head(q)) /\ (k \in emit.to => Head(q) < emit.n)
      /\ \A i \in 1 .. Len(Tail(q)) : Head(q) < Tail(q)[i] /\ Waits(k, Tail(q)[i])
  <2>1. 1 \in 1 .. Len(q)
    BY <1>4
  <2>2. QED
    BY <1>4, <1>6, <1>7, <2>1 DEF ChannelLined, Sorted, q
<1>9. Sorted(Tail(q))
  <2>1. ASSUME NEW i \in 1 .. Len(Tail(q)), NEW j \in 1 .. Len(Tail(q)), i < j
        PROVE  Tail(q)[i] < Tail(q)[j]
    <3>1. i + 1 < j + 1
      BY <2>1, <1>4
    <3>2. QED
      BY <1>6, <1>7, <3>1 DEF ChannelLined, Sorted, q
  <2>2. QED
    BY <2>1 DEF Sorted
<1>10. \A j \in Subs : \A n : Waits(j, n) /\ (j = k => Head(q) < n) => Waits(j, n)'
  <2>1. CASE Put(c, m)
    BY <1>0, <1>5, <2>1, WaitsPut
  <2>2. CASE ~Put(c, m)
    <3>1. writeCh' = writeCh
      BY <2>2 DEF Stream, c, q, m
    <3>2. QED
      BY <1>0, <3>1 DEF Waits
  <2>3. QED
    BY <2>1, <2>2
<1>11. ASSUME NEW j \in Subs PROVE ChannelLined(j)'
  <2>1. CASE j = k
    <3>1. \A i \in 1 .. Len(Tail(q)) : i + 1 \in 1 .. Len(q) /\ Tail(q)[i] = q[i + 1]
      BY <1>7
    <3>2. k \in emit.to => Waits(k, emit.n) /\ \A i \in 1 .. Len(Tail(q)) : Tail(q)[i] < emit.n
      BY <1>6, <3>1 DEF ChannelLined, q
    <3>3. QED
      BY <1>0, <1>3, <1>8, <1>9, <1>10, <2>1, <3>2 DEF ChannelLined
  <2>2. CASE j # k
    BY <1>0, <1>1, <1>10, <2>2 DEF Lined, ChannelLined
  <2>3. QED
    BY <2>1, <2>2
<1>12. ASSUME NEW j \in Subs, NEW d \in Clients PROVE QueueLined(d, j)'
  <2>1. CASE Put(c, m)
    <3>1. IsFrame(m, j) => sub[j].client = c /\ Waits(j, m.n)
      BY <1>5, <1>8 DEF c
    <3>2. QED
      BY <1>0, <1>2, <1>5, <2>1, <3>1, QueuePut
  <2>2. CASE ~Put(c, m)
    <3>1. writeCh' = writeCh
      BY <2>2 DEF Stream, c, q, m
    <3>2. QED
      BY <1>0, <1>2, <3>1 DEF Lined, QueueLined
  <2>3. QED
    BY <2>1, <2>2
<1>13. QED
  BY <1>0, <1>11, <1>12 DEF Lined

(* The frame in hand comes after all there is of that attach.              *)
LEMMA LinedDeliver ==
  ASSUME TypeInv, Lined, NEW k \in Subs, Deliver(k)
  PROVE  Lined'
<1>. DEFINE q == sub[k].ch
<1>0. /\ sub[k] \in SubType /\ q \in Seq(1 .. MaxFrames) /\ k \in emit.to
      /\ last' = last /\ frame' = frame /\ writeCh' = writeCh
      /\ emit'.n = emit.n /\ k \notin emit'.to /\ emit'.to \subseteq emit.to
  BY Types DEF Deliver, SubType, hist
<1>1. \A j \in Subs \ {k} : sub'[j] = sub[j]
  BY Types DEF Deliver
<1>2. \A j \in Subs : sub'[j].client = sub[j].client
  BY SameOwner
<1>3. sub'[k].ch = q \/ sub'[k].ch = Append(q, emit.n)
  <2>1. sub'[k] = sub[k] \/ sub'[k] = [sub[k] EXCEPT !.ch = Append(q, emit.n)]
    BY Types DEF Deliver
  <2>2. QED
    BY <1>0, <2>1 DEF SubType
<1>4. ChannelLined(k) /\ emit.n \in 1 .. MaxFrames
  BY <1>0 DEF Lined, TypeInv, Queues
<1>. HIDE DEF q
<1>5. \A j \in Subs : \A n : Waits(j, n)' <=> Waits(j, n)
  BY <1>0 DEF Waits
<1>6. ChannelLined(k)'
  <2>1. CASE sub'[k].ch = q
    BY <1>0, <1>4, <1>5, <2>1 DEF ChannelLined, q
  <2>2. CASE sub'[k].ch = Append(q, emit.n)
    <3>. DEFINE r == Append(q, emit.n)
    <3>1. /\ Len(q) \in Nat /\ Len(r) = Len(q) + 1 /\ r[Len(q) + 1] = emit.n
          /\ \A i \in 1 .. Len(q) : r[i] = q[i]
      BY <1>0, <1>4
    <3>. HIDE DEF r
    <3>2. \A i \in 1 .. Len(r) : i \in 1 .. Len(q) \/ i = Len(q) + 1
      BY <3>1
    <3>3. \A i \in 1 .. Len(q) : q[i] < emit.n /\ Waits(k, q[i])
      BY <1>0, <1>4 DEF ChannelLined, q
    <3>4. \A i \in 1 .. Len(r) : Waits(k, r[i])
      BY <1>0, <1>4, <3>1, <3>2, <3>3 DEF ChannelLined
    <3>5. Sorted(r)
      <4>1. ASSUME NEW i \in 1 .. Len(r), NEW j \in 1 .. Len(r), i < j PROVE r[i] < r[j]
        <5>1. i \in 1 .. Len(q)
          BY <3>1, <4>1
        <5>2. CASE j = Len(q) + 1
          BY <3>1, <3>3, <5>1, <5>2
        <5>3. CASE j \in 1 .. Len(q)
          BY <1>4, <3>1, <4>1, <5>1, <5>3 DEF ChannelLined, Sorted, q
        <5>4. QED
          BY <3>2, <5>2, <5>3
      <4>2. QED
        BY <4>1 DEF Sorted
    <3>6. QED
      BY <1>0, <1>5, <2>2, <3>4, <3>5 DEF ChannelLined, r
  <2>3. QED
    BY <1>3, <2>1, <2>2
<1>7. \A j \in Subs : ChannelLined(j)'
  BY <1>0, <1>1, <1>5, <1>6 DEF Lined, ChannelLined
<1>8. \A j \in Subs, d \in Clients : QueueLined(d, j)'
  BY <1>0, <1>2 DEF Lined, QueueLined
<1>9. QED
  BY <1>0, <1>7, <1>8 DEF Lined

(* Output is numbered upwards, so a new frame waits for all others.        *)
LEMMA LinedEmit ==
  ASSUME TypeInv, Lined, NEW p \in Panes, Emit(p)
  PROVE  Lined'
<1>0. /\ frame' = frame + 1 /\ emit'.n = frame + 1 /\ emit.to = {} /\ last' = last
      /\ writeCh' = writeCh /\ sub' = sub
      /\ frame \in Nat /\ last \in [Subs -> 0 .. MaxFrames]
  BY GatewayAssumption DEF Emit, hist, TypeInv, TypeOK
<1>1. \A c \in Clients : \A i \in 1 .. Len(writeCh[c]) : writeCh[c][i].n \in Nat
  <2>1. ASSUME NEW c \in Clients, NEW i \in 1 .. Len(writeCh[c]) PROVE writeCh[c][i].n \in Nat
    <3>1. writeCh[c][i] \in Sent
      <4>. HIDE DEF Sent
      <4>1. QED
        BY Types
    <3>2. QED
      BY <3>1, GatewayAssumption DEF Sent, MessageType
  <2>2. QED
    BY <2>1
<1>2. \A k \in Subs : last[k] \in Nat /\ \A i \in 1 .. Len(sub[k].ch) : sub[k].ch[i] \in Nat
  <2>1. \A k \in Subs : sub[k].ch \in Seq(1 .. MaxFrames)
    BY Types DEF SubType
  <2>2. \A k \in Subs : \A i \in 1 .. Len(sub[k].ch) : sub[k].ch[i] \in 1 .. MaxFrames
    <3>. DEFINE S == 1 .. MaxFrames
    <3>1. \A k \in Subs : sub[k].ch \in Seq(S)
      BY <2>1
    <3>. HIDE DEF S
    <3>2. \A k \in Subs : \A i \in 1 .. Len(sub[k].ch) : sub[k].ch[i] \in S
      BY <3>1
    <3>3. QED
      BY <3>2 DEF S
  <2>3. QED
    BY <1>0, <2>2, GatewayAssumption
<1>3. \A k \in Subs, c \in Clients : QueueLined(c, k)'
  BY <1>0, <1>1 DEF Lined, QueueLined
<1>4. \A k \in Subs, n \in Nat : Waits(k, n) => Waits(k, n)'
  BY <1>0 DEF Waits
<1>5. ASSUME NEW k \in Subs PROVE Waits(k, emit.n)'
  <2>1. last[k] < frame + 1
    BY <1>0, <1>2 DEF Lined
  <2>2. \A c \in Clients : Below(writeCh[c], k, frame + 1)
    BY <1>0, <1>1 DEF Lined, QueueLined, Below
  <2>3. QED
    BY <1>0, <2>1, <2>2 DEF Waits
<1>6. ASSUME NEW k \in Subs PROVE ChannelLined(k)'
  <2>1. \A i \in 1 .. Len(sub[k].ch) : Waits(k, sub[k].ch[i])
    BY DEF Lined, ChannelLined
  <2>2. \A i \in 1 .. Len(sub[k].ch) : sub[k].ch[i] < frame + 1
    BY <1>0, <1>2, <2>1 DEF Waits
  <2>3. QED
    BY <1>0, <1>2, <1>4, <1>5, <2>1, <2>2 DEF Lined, ChannelLined
<1>7. \A k \in Subs : last'[k] <= frame'
  BY <1>0, <1>2 DEF Lined
<1>8. QED
  BY <1>0, <1>3, <1>6, <1>7 DEF Lined

(* The writer takes the head of its queue; a frame written is the least of *)
(* its attach that is left.                                                *)
LEMMA LinedPop ==
  ASSUME TypeInv, Lined, NEW c \in Clients, WriterSends(c) \/ WriterFails(c)
  PROVE  Lined'
<1>. DEFINE q == writeCh[c]
<1>. DEFINE m == Head(q)
<1>0. /\ q \in Seq(Sent) /\ q # <<>> /\ outVars' = outVars /\ sub' = sub
      /\ writeCh'[c] = Tail(q) /\ \A d \in Clients \ {c} : writeCh'[d] = writeCh[d]
      /\ last \in [Subs -> 0 .. MaxFrames]
      /\ last' = last \/ (m.kind = "frame" /\ last' = [last EXCEPT ![m.sub] = m.n])
  BY Types DEF WriterSends, WriterFails, hist, TypeInv, TypeOK
<1>1. Len(q) \in Nat /\ Len(q) >= 1 /\ m = q[1] /\ m \in Sent
  BY <1>0, Popped
<1>. HIDE DEF q
<1>2. ASSUME NEW k \in Subs
      PROVE  /\ last'[k] = last[k] \/ (IsFrame(m, k) /\ last'[k] = m.n)
             /\ IsFrame(m, k) => m.n <= frame
  <2>1. IsFrame(m, k) => m.n <= frame
    <3>1. 1 \in 1 .. Len(q)
      BY <1>1
    <3>2. QED
      BY <1>1, <3>1 DEF Lined, QueueLined, q
  <2>2. last'[k] = last[k] \/ (IsFrame(m, k) /\ last'[k] = m.n)
    <3>. HIDE DEF m
    <3>1. CASE last' = last
      BY <3>1
    <3>2. CASE m.kind = "frame" /\ last' = [last EXCEPT ![m.sub] = m.n] /\ k = m.sub
      BY <1>0, <3>2 DEF IsFrame
    <3>3. CASE m.kind = "frame" /\ last' = [last EXCEPT ![m.sub] = m.n] /\ k # m.sub
      BY <1>0, <3>3
    <3>4. QED
      BY <1>0, <3>1, <3>2, <3>3 DEF m
  <2>3. QED
    BY <2>1, <2>2
<1>3. ASSUME NEW k \in Subs, NEW n, Waits(k, n) PROVE Waits(k, n)'
  <2>1. Below(q, k, n) /\ last[k] < n /\ n <= frame
    BY <1>3 DEF Waits, q
  <2>2. Below(Tail(q), k, n) /\ (IsFrame(m, k) => m.n < n)
    BY <1>0, <2>1, BelowPop
  <2>3. \A d \in Clients : Below(writeCh'[d], k, n)
    BY <1>0, <1>3, <2>2 DEF Waits
  <2>4. QED
    BY <1>0, <1>2, <2>1, <2>2, <2>3 DEF Waits, outVars
<1>4. ASSUME NEW k \in Subs PROVE QueueLined(c, k)'
  <2>1. QueueLined(c, k)
    BY DEF Lined
  <2>2. /\ InOrder(Tail(q), k)
        /\ IsFrame(m, k) => \A i \in 1 .. Len(Tail(q)) :
             IsFrame(Tail(q)[i], k) => m.n < Tail(q)[i].n
    BY <1>0, <2>1, InOrderPop DEF QueueLined, q
  <2>3. ASSUME NEW i \in 1 .. Len(Tail(q)), IsFrame(Tail(q)[i], k)
        PROVE  sub[k].client = c /\ last'[k] < Tail(q)[i].n /\ Tail(q)[i].n <= frame
    <3>1. i + 1 \in 1 .. Len(q) /\ Tail(q)[i] = q[i + 1]
      BY <1>0, Popped
    <3>2. sub[k].client = c /\ last[k] < q[i + 1].n /\ q[i + 1].n <= frame
      BY <2>1, <2>3, <3>1 DEF QueueLined, q
    <3>3. QED
      BY <1>2, <2>2, <2>3, <3>1, <3>2
  <2>4. QED
    BY <1>0, <2>2, <2>3 DEF QueueLined, outVars
<1>5. ASSUME NEW k \in Subs, NEW d \in Clients \ {c} PROVE QueueLined(d, k)'
  <2>1. QueueLined(d, k) /\ QueueLined(c, k)
    BY DEF Lined
  <2>2. CASE last'[k] = last[k]
    BY <1>0, <2>1, <2>2 DEF QueueLined, outVars
  <2>3. CASE IsFrame(m, k)
    <3>1. sub[k].client = c
      <4>1. 1 \in 1 .. Len(q)
        BY <1>1
      <4>2. QED
        BY <1>1, <2>1, <2>3, <4>1 DEF QueueLined, q
    <3>2. \A i \in 1 .. Len(writeCh[d]) : ~IsFrame(writeCh[d][i], k)
      BY <2>1, <3>1 DEF QueueLined
    <3>3. QED
      BY <1>0, <3>2 DEF QueueLined, InOrder
  <2>4. QED
    BY <1>2, <2>2, <2>3
<1>6. ASSUME NEW k \in Subs PROVE ChannelLined(k)'
  BY <1>0, <1>3 DEF Lined, ChannelLined, outVars
<1>7. \A k \in Subs : last'[k] <= frame'
  BY <1>0, <1>2 DEF Lined, outVars
<1>8. QED
  BY <1>0, <1>4, <1>5, <1>6, <1>7 DEF Lined, outVars

LEMMA LinedSubscribe ==
  ASSUME TypeInv, Lined, NEW c \in Clients, NEW p \in Panes, NEW k \in Subs,
         Subscribe(c, p, k)
  PROVE  Lined'
<1>1. sub[k] = NoSub /\ sub'[k].ch = <<>> /\ \A j \in Subs \ {k} : sub'[j] = sub[j]
  BY Types DEF Subscribe, NoSub
<1>2. sub[k].client \notin Clients /\ sub[k].ch = <<>>
  BY <1>1, GatewayAssumption DEF NoSub
<1>3. QED
  BY <1>1, <1>2, LinedSame DEF Subscribe, hist

LEMMA LinedStep ==
  ASSUME TypeInv, Lined, [Next]_vars
  PROVE  Lined'
<1>. DEFINE Same == \A j \in Subs : sub'[j].client = sub[j].client /\ sub'[j].ch = sub[j].ch
<1>0. \A S \in SUBSET Subs : sub' = Unrouted(S) => Same
  BY UnroutedSubs, Types
<1>1. ASSUME NEW c \in Clients, ReaderStep(c) PROVE Lined'
  <2>1. CASE AcceptFails(c) \/ Connect(c) \/ SendCancelled(c) \/ ReadFails(c)
             \/ Leave(c) \/ Left(c)
    BY <2>1, LinedSame DEF AcceptFails, Connect, SendCancelled, ReadFails, Leave, Left, hist
  <2>2. CASE SendList(c)
    <3>1. Message("list", 0, 0).kind # "frame" /\ Message("list", 0, 0) \in Sent
      BY GatewayAssumption DEF Message, Sent, MessageType
    <3>2. QED
      BY <1>1, <2>2, <3>1, LinedPut DEF SendList, hist
  <2>3. ASSUME NEW k \in Subs, SendStart(c, k) \/ SendSnapshot(c, k) PROVE Lined'
    <3>1. PICK kind \in {"start", "snapshot"} : Put(c, Message(kind, k, 0))
      BY <2>3 DEF SendStart, SendSnapshot
    <3>2. Message(kind, k, 0) \in Sent /\ Message(kind, k, 0).kind # "frame"
      BY IsSent DEF Message
    <3>3. Same
      BY <2>3 DEF SendStart, SendSnapshot
    <3>4. QED
      BY <1>1, <2>3, <3>1, <3>2, <3>3, LinedPut DEF SendStart, SendSnapshot, hist
  <2>4. ASSUME NEW k \in Subs, SendEnd(c, k) PROVE Lined'
    <3>1. Message("end", k, 0) \in Sent /\ Message("end", k, 0).kind # "frame"
      BY IsSent DEF Message
    <3>2. Same
      BY <2>4, Types DEF SendEnd, SubType
    <3>3. QED
      BY <1>1, <2>4, <3>1, <3>2, LinedPut DEF SendEnd, hist
  <2>5. ASSUME NEW k \in Subs, AddSub(c, k) \/ NoSnapshot(c, k) \/ CancelSub(c, k)
        PROVE  Lined'
    <3>1. Existing(c, k) \in SUBSET Subs /\ {k} \in SUBSET Subs
      BY <1>1, Types DEF Existing
    <3>2. Same
      <4>1. sub' = Unrouted(Existing(c, k)) \/ sub' = sub \/ sub' = Unrouted({k})
        BY <2>5 DEF AddSub, NoSnapshot, CancelSub
      <4>2. QED
        BY <1>0, <3>1, <4>1
    <3>3. QED
      BY <2>5, <3>2, LinedSame DEF AddSub, NoSnapshot, CancelSub, hist
  <2>6. QED
    BY <1>1, <2>1, <2>2, <2>3, <2>4, <2>5 DEF ReaderStep
<1>2. ASSUME NEW c \in Clients, WriterStep(c) PROVE Lined'
  <2>1. CASE WriterSends(c) \/ WriterFails(c)
    BY <1>2, <2>1, LinedPop
  <2>2. CASE WriterCancelled(c)
    BY <2>2, LinedSame DEF WriterCancelled, hist
  <2>3. QED
    BY <1>2, <2>1, <2>2 DEF WriterStep
<1>3. ASSUME NEW c \in Clients, Client(c) PROVE Lined'
  <2>1. CASE AddClient(c) \/ Break(c)
    BY <2>1, LinedSame DEF AddClient, Break, hist
  <2>2. ASSUME NEW k \in Subs, Detach(c, k) PROVE Lined'
    <3>1. Same
      BY <1>0, <2>2 DEF Detach
    <3>2. QED
      BY <2>2, <3>1, LinedSame DEF Detach, hist
  <2>3. ASSUME NEW k \in Subs, NEW p \in Panes, Subscribe(c, p, k) PROVE Lined'
    BY <1>3, <2>3, LinedSubscribe
  <2>4. QED
    BY <1>3, <2>1, <2>2, <2>3 DEF Client
<1>4. ASSUME NEW k \in Subs, StreamStep(k) \/ Deliver(k) PROVE Lined'
  <2>1. CASE Stream(k)
    BY <2>1, LinedStream
  <2>2. CASE StreamEnds(k)
    <3>1. Same
      BY <2>2, Types DEF StreamEnds, SubType
    <3>2. QED
      BY <2>2, <3>1, LinedSame DEF StreamEnds, hist
  <2>3. CASE Deliver(k)
    BY <2>3, LinedDeliver
  <2>4. QED
    BY <1>4, <2>1, <2>2, <2>3 DEF StreamStep
<1>5. ASSUME NEW p \in Panes, Emit(p) PROVE Lined'
  BY <1>5, LinedEmit
<1>6. CASE Stop \/ UNCHANGED vars
  BY <1>6, LinedSame DEF Stop, vars, hist
<1>7. QED
  BY <1>1, <1>2, <1>3, <1>4, <1>5, <1>6 DEF Next

(* The places one after the other are the way of an attach.                *)
LEMMA WayInOrder ==
  ASSUME TypeInv, Lined, NEW k \in Subs
  PROVE  InOrder(Way(k), k)
<1>. DEFINE a == FramesOf(k, <<last[k]>>)
            q == IF sub[k].client = NoClient THEN <<>> ELSE writeCh[sub[k].client]
            b == FramesOf(k, sub[k].ch)
            hand == IF k \in emit.to THEN <<emit.n>> ELSE <<>>
            e == FramesOf(k, hand)
<1>0. /\ <<last[k]>> \in Seq(0 .. MaxFrames) /\ Len(<<last[k]>>) = 1 /\ <<last[k]>>[1] = last[k]
      /\ sub[k].ch \in Seq(0 .. MaxFrames)
      /\ hand \in Seq(0 .. MaxFrames) /\ Len(hand) <= 1 /\ Len(hand) \in Nat
      /\ \A i \in 1 .. Len(hand) : k \in emit.to /\ hand[i] = emit.n
  <2>1. last[k] \in 0 .. MaxFrames /\ emit.n \in 0 .. MaxFrames
    BY DEF TypeInv, TypeOK
  <2>2. sub[k].ch \in Seq(1 .. MaxFrames) /\ 1 .. MaxFrames \subseteq 0 .. MaxFrames
    BY Types, GatewayAssumption DEF SubType
  <2>. DEFINE S == 0 .. MaxFrames
              T == 1 .. MaxFrames
  <2>3. last[k] \in S /\ emit.n \in S /\ sub[k].ch \in Seq(T) /\ T \subseteq S
    BY <2>1, <2>2
  <2>. HIDE DEF S, T
  <2>4. /\ <<last[k]>> \in Seq(S) /\ Len(<<last[k]>>) = 1 /\ <<last[k]>>[1] = last[k]
        /\ <<emit.n>> \in Seq(S) /\ Len(<<emit.n>>) = 1 /\ <<emit.n>>[1] = emit.n
        /\ <<>> \in Seq(S) /\ Len(<<>>) = 0 /\ sub[k].ch \in Seq(S)
    BY <2>3
  <2>5. CASE k \in emit.to
    <3>1. hand = <<emit.n>> /\ 1 .. 1 = {1}
      BY <2>5
    <3>. HIDE DEF hand
    <3>2. QED
      BY <2>4, <2>5, <3>1 DEF S
  <2>6. CASE k \notin emit.to
    <3>1. hand = <<>> /\ 1 .. 0 = {}
      BY <2>6
    <3>. HIDE DEF hand
    <3>2. QED
      BY <2>4, <3>1 DEF S
  <2>7. QED
    BY <2>5, <2>6
<1>1. ChannelLined(k)
  BY DEF Lined
<1>2. /\ q \in Seq(Sent) /\ InOrder(q, k)
      /\ \A i \in 1 .. Len(q) : IsFrame(q[i], k) => last[k] < q[i].n
      /\ \A n : Waits(k, n) => Below(q, k, n)
  <2>1. CASE sub[k].client = NoClient
    <3>1. q = <<>> /\ q \in Seq(Sent) /\ Len(q) = 0
      BY <2>1
    <3>. HIDE DEF q
    <3>2. QED
      BY <3>1 DEF InOrder, Below
  <2>2. CASE sub[k].client # NoClient
    <3>1. sub[k].client \in Clients /\ q = writeCh[sub[k].client]
      BY <2>2, Types DEF SubType
    <3>2. QueueLined(sub[k].client, k)
      BY <3>1 DEF Lined
    <3>3. q \in Seq(Sent)
      BY <3>1, Types
    <3>. HIDE DEF q
    <3>4. QED
      BY <3>1, <3>2, <3>3 DEF QueueLined, Waits
  <2>3. QED
    BY <2>1, <2>2
<1>. HIDE DEF q, hand
<1>3. /\ a \in Seq(Sent) /\ InOrder(a, k)
      /\ \A n : Below(a, k, n) <=> last[k] < n
  <2>. DEFINE one == <<last[k]>>
  <2>1. one \in Seq(0 .. MaxFrames) /\ Len(one) = 1 /\ one[1] = last[k] /\ 1 .. 1 = {1}
    BY <1>0
  <2>. HIDE DEF one
  <2>2. Sorted(one)
    BY <2>1 DEF Sorted
  <2>3. \A n : (\A i \in 1 .. Len(one) : one[i] < n) <=> last[k] < n
    BY <2>1
  <2>4. QED
    BY <2>1, <2>2, <2>3, FramesOfType DEF one
<1>4. /\ b \in Seq(Sent) /\ InOrder(b, k) /\ Len(b) = Len(sub[k].ch)
      /\ \A i \in 1 .. Len(b) : b[i].n = sub[k].ch[i]
      /\ \A n : Below(b, k, n) <=> \A i \in 1 .. Len(sub[k].ch) : sub[k].ch[i] < n
  <2>. DEFINE ns == sub[k].ch
  <2>1. ns \in Seq(0 .. MaxFrames) /\ Sorted(ns)
    BY <1>0, <1>1 DEF ChannelLined
  <2>. HIDE DEF ns
  <2>2. /\ FramesOf(k, ns) \in Seq(Sent) /\ Len(FramesOf(k, ns)) = Len(ns)
        /\ \A i \in 1 .. Len(ns) : FramesOf(k, ns)[i].n = ns[i]
        /\ InOrder(FramesOf(k, ns), k)
        /\ \A n : Below(FramesOf(k, ns), k, n) <=> \A i \in 1 .. Len(ns) : ns[i] < n
    BY <2>1, FramesOfType
  <2>3. QED
    BY <2>2 DEF ns
<1>5. /\ e \in Seq(Sent) /\ InOrder(e, k)
      /\ \A i \in 1 .. Len(e) : k \in emit.to /\ e[i].n = emit.n
  <2>1. Sorted(hand)
    <3>1. ~(\E i, j \in 1 .. Len(hand) : i < j)
      BY <1>0
    <3>2. QED
      BY <3>1 DEF Sorted
  <2>2. QED
    BY <1>0, <2>1, FramesOfType
<1>. HIDE DEF a, b, e
<1>6. /\ a \o q \in Seq(Sent) /\ InOrder(a \o q, k)
      /\ \A n : Waits(k, n) => Below(a \o q, k, n)
  <2>1. \A j \in 1 .. Len(q) : IsFrame(q[j], k) => Below(a, k, q[j].n)
    BY <1>2, <1>3
  <2>2. QED
    BY <1>2, <1>3, <2>1, Joined DEF Waits
<1>7. /\ (a \o q) \o b \in Seq(Sent) /\ InOrder((a \o q) \o b, k)
      /\ k \in emit.to => Below((a \o q) \o b, k, emit.n)
  <2>1. \A j \in 1 .. Len(b) : Below(a \o q, k, b[j].n)
    BY <1>1, <1>4, <1>6 DEF ChannelLined
  <2>2. k \in emit.to => Below(a \o q, k, emit.n) /\ Below(b, k, emit.n)
    BY <1>1, <1>4, <1>6 DEF ChannelLined
  <2>3. QED
    BY <1>4, <1>6, <2>1, <2>2, Joined
<1>8. InOrder(((a \o q) \o b) \o e, k)
  <2>1. \A j \in 1 .. Len(e) : Below((a \o q) \o b, k, e[j].n)
    BY <1>5, <1>7
  <2>2. QED
    BY <1>5, <1>7, <2>1, Joined
<1>9. QED
  BY <1>8 DEF Way, a, q, b, e, hand

-----------------------------------------------------------------------------
(* Theorems.                                                               *)

LEMMA InvInit == Init => Inv
<1>. SUFFICES ASSUME Init PROVE Inv
  OBVIOUS
<1>1. TypeInv
  BY InitType
<1>2. SlotsAreAccountedFor
  BY DEF Init, SlotsAreAccountedFor
<1>3. SubscriptionsAreOwned
  BY DEF Init, SubscriptionsAreOwned, NoSub
<1>4. Announced /\ Following
  BY DEF Init, Announced, Following, NoSub
<1>5. Lined
  <2>1. /\ \A k \in Subs : sub[k].ch = <<>> /\ last[k] = 0
        /\ \A c \in Clients : writeCh[c] = <<>>
        /\ frame = 0 /\ emit.n = 0 /\ emit.to = {}
    BY DEF Init, NoSub
  <2>2. Len(<<>>) = 0 /\ 0 <= 0
    OBVIOUS
  <2>3. QED
    BY <2>1, <2>2 DEF Lined, ChannelLined, QueueLined, Sorted, InOrder
<1>6. QED
  BY <1>1, <1>2, <1>3, <1>4, <1>5 DEF Inv

LEMMA InvStep == Inv /\ [Next]_vars => Inv'
<1>. SUFFICES ASSUME Inv, [Next]_vars PROVE Inv'
  OBVIOUS
<1>1. TypeInv /\ TypeInv'
  BY StepType DEF Inv
<1>2. SlotsAreAccountedFor'
  BY <1>1, SlotsStep DEF Inv
<1>3. SubscriptionsAreOwned'
  BY <1>1, OwnedStep DEF Inv
<1>4. Order'
  BY <1>1, OrderStep DEF Inv, Order
<1>5. Lined'
  BY <1>1, LinedStep DEF Inv
<1>6. QED
  BY <1>1, <1>2, <1>3, <1>4, <1>5 DEF Inv, Order

(* The inductive invariant of the gateway holds throughout.                *)
THEOREM InvHolds == Spec => []Inv
<1>1. Init => Inv
  BY InvInit
<1>2. Inv /\ [Next]_vars => Inv'
  BY InvStep
<1>3. QED
  BY <1>1, <1>2, PTL DEF Spec

(* Registry, goroutines and queues are well typed; no queue outgrows its   *)
(* channel.                                                                *)
THEOREM TypeCorrect == Spec => []TypeOK
<1>1. Inv => TypeOK
  BY DEF Inv, TypeInv
<1>2. QED
  BY <1>1, InvHolds, PTL

(* A slot is taken exactly while its connection is served (ServeHTTP).     *)
THEOREM SlotsCounted == Spec => []SlotsAreAccountedFor
<1>1. Inv => SlotsAreAccountedFor
  BY DEF Inv
<1>2. QED
  BY <1>1, InvHolds, PTL

(* No routed channel is unknown to the registry of clients, and a client   *)
(* has one for each pane (handlePaneAttach, AddSub, RemoveClient).         *)
THEOREM NoneOrphaned == Spec => []SubscriptionsAreOwned
<1>1. Inv => SubscriptionsAreOwned
  BY DEF Inv
<1>2. QED
  BY <1>1, InvHolds, PTL

(* The live frames of an attach are written after its snapshot, although   *)
(* they are put into the queue by a goroutine of their own.                *)
THEOREM SnapshotComesFirst == Spec => []FramesFollowTheSnapshot
<1>1. Inv => FramesFollowTheSnapshot
  BY DEF Inv, Following, Follow, FramesFollowTheSnapshot
<1>2. QED
  BY <1>1, InvHolds, PTL

(* What is left of an attach arrives in the order of the output: from the  *)
(* socket back to the parser no frame overtakes another or comes twice     *)
(* (feed, startPaneStream, runWriter).                                     *)
THEOREM FramesOrdered == Spec => []FramesKeepTheirOrder
<1>1. Inv => FramesKeepTheirOrder
  BY WayInOrder DEF Inv, FramesKeepTheirOrder
<1>2. QED
  BY <1>1, InvHolds, PTL

-----------------------------------------------------------------------------
(* What reaches the socket, as PaneStream has it.                          *)

LEMMA ShownInit == Init => Shown!Init
BY DEF Init, Shown!Init

(* A frame is written after the end of its snapshot, later than all that   *)
(* was written for it before, and none that was not put out.               *)
LEMMA ShownSends ==
  ASSUME Inv, NEW c \in Clients, WriterSends(c)
  PROVE  [Shown!Next]_(Shown!vars)
<1>. DEFINE q == writeCh[c]
<1>. DEFINE m == Head(q)
<1>0. /\ q \in Seq(Sent) /\ q # <<>> /\ writer[c] = "running" /\ frame' = frame
      /\ ended' = IF m.kind = "end" THEN ended \cup {m.sub} ELSE ended
      /\ last' = IF m.kind = "frame" THEN [last EXCEPT ![m.sub] = m.n] ELSE last
  BY Types DEF WriterSends, Inv, outVars
<1>. HIDE DEF q
<1>1. 1 \in 1 .. Len(q) /\ m = q[1] /\ m \in Sent
  BY <1>0, Popped
<1>. HIDE DEF m
<1>2. CASE m.kind = "frame"
  <2>1. m.sub \in Subs /\ m.n \in 0 .. MaxFrames
    BY <1>1, <1>2 DEF Sent, MessageType
  <2>2. m.sub \in ended
    <3>1. Follow(q, ended)
      BY <1>0 DEF Inv, Following, q
    <3>2. ~(\E j \in 1 .. 1 - 1 : TRUE)
      OBVIOUS
    <3>3. QED
      BY <1>1, <1>2, <3>1, <3>2 DEF Follow
  <2>3. last[m.sub] < m.n /\ m.n <= frame
    <3>1. QueueLined(c, m.sub) /\ IsFrame(q[1], m.sub)
      BY <1>1, <1>2, <2>1 DEF Inv, Lined, IsFrame
    <3>2. QED
      BY <1>1, <3>1 DEF QueueLined, q
  <2>4. m.n \in 1 .. frame
    <3>1. last[m.sub] \in Nat /\ m.n \in Nat /\ frame \in Nat
      BY <2>1, GatewayAssumption DEF Inv, TypeInv, TypeOK
    <3>2. QED
      BY <2>3, <3>1
  <2>5. Shown!Paint(m.sub, m.n)
    BY <1>0, <1>2, <2>2, <2>3 DEF Shown!Paint
  <2>6. QED
    BY <2>1, <2>4, <2>5 DEF Shown!Next
<1>3. CASE m.kind = "end"
  <2>1. m.sub \in Subs
    BY <1>1, <1>3 DEF Sent
  <2>2. Shown!Show(m.sub)
    BY <1>0, <1>3 DEF Shown!Show
  <2>3. QED
    BY <2>1, <2>2 DEF Shown!Next
<1>4. CASE m.kind \notin {"frame", "end"}
  BY <1>0, <1>4 DEF Shown!vars
<1>5. QED
  BY <1>2, <1>3, <1>4

LEMMA ShownStep ==
  ASSUME Inv, [Next]_vars
  PROVE  [Shown!Next]_(Shown!vars)
<1>1. ASSUME NEW c \in Clients, ReaderStep(c) PROVE UNCHANGED <<frame, ended, last>>
  BY <1>1 DEF ReaderStep, AcceptFails, Connect, SendList, AddSub, SendStart, SendSnapshot,
     NoSnapshot, SendEnd, CancelSub, SendCancelled, ReadFails, Leave, Left, outVars, hist
<1>2. ASSUME NEW c \in Clients, WriterStep(c)
      PROVE  WriterSends(c) \/ UNCHANGED <<frame, ended, last>>
  BY <1>2 DEF WriterStep, WriterFails, WriterCancelled, outVars, hist
<1>3. ASSUME NEW c \in Clients, Client(c) PROVE UNCHANGED <<frame, ended, last>>
  BY <1>3 DEF Client, AddClient, Break, Detach, Subscribe, outVars, hist
<1>4. ASSUME NEW k \in Subs, StreamStep(k) \/ Deliver(k)
      PROVE  UNCHANGED <<frame, ended, last>>
  BY <1>4 DEF StreamStep, Stream, StreamEnds, Deliver, outVars, hist
<1>5. ASSUME NEW p \in Panes, Emit(p) PROVE Shown!Next
  <2>1. Shown!Emit
    BY <1>5 DEF Emit, Shown!Emit, hist
  <2>2. QED
    BY <2>1 DEF Shown!Next
<1>6. CASE Stop \/ UNCHANGED vars
  BY <1>6 DEF Stop, vars, outVars, hist, Shown!vars
<1>7. QED
  BY <1>1, <1>2, <1>3, <1>4, <1>5, <1>6, ShownSends DEF Next, Shown!vars

(* The socket of an attach carries what PaneStream promises its client.    *)
THEOREM StreamRefines == Spec => KeepsStream
BY ShownInit, ShownStep, InvHolds, PTL DEF Spec, KeepsStream, Shown!Spec
=============================================================================
