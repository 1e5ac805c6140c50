----------------------------- MODULE PaneGateway -----------------------------
(***************************************************************************)
(* The WebSocket gateway of bmux: clients that attach to panes, and the    *)
(* router that fans the output of tmux out to them.                        *)
(*                                                                         *)
(* A connection has a reader, which handles one message of the client at a *)
(* time, and a writer, the only goroutine that writes to the socket. They  *)
(* share a queue of bounded length. Each attach opens a channel at the     *)
(* router, sends the snapshot of the pane in brackets, and leaves behind a *)
(* goroutine that moves the live frames from the channel to the queue.     *)
(* The parser of the control bridge hands every frame to the channels that *)
(* were routed when it looked, and drops it where a channel is full.       *)
(*                                                                         *)
(* Keys, resizing and the contents of frames are left out, and so is the   *)
(* error of Subscribe, which the bridge that is wired in never returns.    *)
(***************************************************************************)
EXTENDS Naturals, Sequences, FiniteSets

CONSTANTS
    Clients,      \* connections: each gets an id of its own
    NoClient,
    Panes,
    MaxClients,   \* clients that may be registered at a time
    QueueCap,     \* writeChanBuf
    SubCap,       \* length of the channel of a subscription
    MaxSubs,      \* a bound on attaches
    MaxFrames     \* a bound on output

ASSUME GatewayAssumption ==
    /\ NoClient \notin Clients
    /\ MaxClients \in Nat \ {0}
    /\ QueueCap \in Nat \ {0}
    /\ SubCap \in Nat \ {0}
    /\ MaxSubs \in Nat
    /\ MaxFrames \in Nat

Subs == 1 .. MaxSubs

VARIABLES
    clients,     \* the registry of clients
    cancelSubs,  \* the subscriptions it knows of each
    reader,      \* where each reader is, and the attach it is at
    writer,      \* where each writer is
    writeCh,     \* its queue
    broken,      \* connections on which nothing can be written or read
    sub,         \* subscriptions: owner, pane, routed, channel, goroutine
    frame,       \* frames tmux has put out
    emit,        \* the parser: the frame in hand and who is to get it
    stopping,    \* Stop was called
    ended,       \* history: subscriptions whose snapshot-end was written
    last         \* history: the last frame written of each subscription

connVars == <<clients, cancelSubs, reader, broken>>
outVars == <<frame, emit>>
hist == <<ended, last>>
vars == <<connVars, writer, writeCh, sub, outVars, stopping, hist>>

NoSub == [client |-> NoClient, pane |-> NoClient, routed |-> FALSE,
          ch |-> <<>>, streaming |-> FALSE]

Message(kind, k, n) == [kind |-> kind, sub |-> k, n |-> n]

Init ==
    /\ clients = {}
    /\ cancelSubs = [c \in Clients |-> {}]
    /\ reader = [c \in Clients |-> [pc |-> "off", sub |-> 0]]
    /\ writer = [c \in Clients |-> "off"]
    /\ writeCh = [c \in Clients |-> <<>>]
    /\ broken = {}
    /\ sub = [k \in Subs |-> NoSub]
    /\ frame = 0
    /\ emit = [n |-> 0, to |-> {}]
    /\ stopping = FALSE
    /\ ended = {}
    /\ last = [k \in Subs |-> 0]

At(c, place) == reader[c].pc = place

Goes(c, place, k) == reader' = [reader EXCEPT ![c] = [pc |-> place, sub |-> k]]

HasRoom(c) == Len(writeCh[c]) < QueueCap

Put(c, m) == writeCh' = [writeCh EXCEPT ![c] = Append(writeCh[c], m)]

-----------------------------------------------------------------------------
(* A connection comes.                                                     *)

(* A client beyond the limit is turned away before anything is sent.       *)
AddClient(c) ==
    /\ At(c, "off")
    /\ ~stopping
    /\ Cardinality(clients) < MaxClients
    /\ clients' = clients \cup {c}
    /\ Goes(c, "accepting", 0)
    /\ UNCHANGED <<cancelSubs, broken, writer, writeCh, sub, outVars, stopping, hist>>

(* Mutant of AcceptFails: the slot is not given back.                      *)
AcceptFailsKeepsSlot(c) ==
    /\ At(c, "accepting")
    /\ Goes(c, "gone", 0)
    /\ UNCHANGED <<clients, cancelSubs, broken, writer, writeCh, sub, outVars,
                   stopping, hist>>

AcceptFails(c) ==
    /\ At(c, "accepting")
    /\ clients' = clients \ {c}
    /\ Goes(c, "gone", 0)
    /\ UNCHANGED <<cancelSubs, broken, writer, writeCh, sub, outVars, stopping, hist>>

Connect(c) ==
    /\ At(c, "accepting")
    /\ Goes(c, "list", 0)
    /\ writer' = [writer EXCEPT ![c] = "running"]
    /\ UNCHANGED <<clients, cancelSubs, broken, writeCh, sub, outVars, stopping, hist>>

(* The queue is empty here, so the list always finds room.                 *)
SendList(c) ==
    /\ At(c, "list")
    /\ Put(c, Message("list", 0, 0))
    /\ Goes(c, "reading", 0)
    /\ UNCHANGED <<clients, cancelSubs, broken, writer, sub, outVars, stopping, hist>>

-----------------------------------------------------------------------------
(* pane-attach and pane-detach.                                            *)

Subscribe(c, p, k) ==
    /\ At(c, "reading")
    /\ ~stopping
    /\ sub[k] = NoSub
    /\ \A j \in Subs : j < k => sub[j] # NoSub
    /\ sub' = [sub EXCEPT ![k] = [NoSub EXCEPT !.client = c, !.pane = p,
                                              !.routed = TRUE]]
    /\ Goes(c, "subscribed", k)
    /\ UNCHANGED <<clients, cancelSubs, broken, writer, writeCh, outVars,
                   stopping, hist>>

(* The subscriptions the registry has of the pane that k is about.         *)
Existing(c, k) == {j \in cancelSubs[c] : sub[j].pane = sub[k].pane}

Unrouted(S) ==
    [k \in Subs |-> IF k \in S THEN [sub[k] EXCEPT !.routed = FALSE] ELSE sub[k]]

(* Mutant of AddSub: the earlier attach is forgotten, not cancelled.       *)
AddSubForgetsOld(c, k) ==
    /\ At(c, "subscribed") /\ reader[c].sub = k
    /\ cancelSubs' = [cancelSubs EXCEPT ![c] =
                        (cancelSubs[c] \ Existing(c, k)) \cup {k}]
    /\ Goes(c, "start", k)
    /\ UNCHANGED <<clients, broken, writer, writeCh, sub, outVars, stopping, hist>>

(* An earlier attach to the pane is cancelled; the goroutine it left keeps *)
(* running, since cancelling does not close its channel.                   *)
AddSub(c, k) ==
    /\ At(c, "subscribed") /\ reader[c].sub = k
    /\ sub' = Unrouted(Existing(c, k))
    /\ cancelSubs' = [cancelSubs EXCEPT ![c] =
                        (cancelSubs[c] \ Existing(c, k)) \cup {k}]
    /\ Goes(c, "start", k)
    /\ UNCHANGED <<clients, broken, writer, writeCh, outVars, stopping, hist>>

(* The three sends of an attach block while the queue is full.             *)
SendStart(c, k) ==
    /\ At(c, "start") /\ reader[c].sub = k
    /\ HasRoom(c)
    /\ Put(c, Message("start", k, 0))
    /\ Goes(c, "snapshot", k)
    /\ UNCHANGED <<clients, cancelSubs, broken, writer, sub, outVars, stopping, hist>>

SendSnapshot(c, k) ==
    /\ At(c, "snapshot") /\ reader[c].sub = k
    /\ HasRoom(c)
    /\ Put(c, Message("snapshot", k, 0))
    /\ Goes(c, "end", k)
    /\ UNCHANGED <<clients, cancelSubs, broken, writer, sub, outVars, stopping, hist>>

(* The mirror has nothing or fails.                                        *)
NoSnapshot(c, k) ==
    /\ At(c, "snapshot") /\ reader[c].sub = k
    /\ Goes(c, "end", k)
    /\ UNCHANGED <<clients, cancelSubs, broken, writer, writeCh, sub, outVars,
                   stopping, hist>>

(* Mutant of SendEnd: it does not wait for room.                           *)
SendEndOrDrop(c, k) ==
    /\ At(c, "end") /\ reader[c].sub = k
    /\ IF HasRoom(c) THEN Put(c, Message("end", k, 0)) ELSE UNCHANGED writeCh
    /\ sub' = [sub EXCEPT ![k] = [sub[k] EXCEPT !.streaming = TRUE]]
    /\ Goes(c, "reading", 0)
    /\ UNCHANGED <<clients, cancelSubs, broken, writer, outVars, stopping, hist>>

SendEnd(c, k) ==
    /\ At(c, "end") /\ reader[c].sub = k
    /\ HasRoom(c)
    /\ Put(c, Message("end", k, 0))
    /\ sub' = [sub EXCEPT ![k] = [sub[k] EXCEPT !.streaming = TRUE]]
    /\ Goes(c, "reading", 0)
    /\ UNCHANGED <<clients, cancelSubs, broken, writer, outVars, stopping, hist>>

(* Mutant of SendCancelled: only the first send looks at the context.      *)
StartCancelled(c) ==
    /\ stopping
    /\ At(c, "start")
    /\ Goes(c, "reading", 0)
    /\ UNCHANGED <<clients, cancelSubs, broken, writer, writeCh, sub, outVars,
                   stopping, hist>>

(* The context these sends look at is that of the gateway.                 *)
SendCancelled(c) ==
    /\ stopping
    /\ reader[c].pc \in {"start", "snapshot", "end"}
    /\ Goes(c, "reading", 0)
    /\ UNCHANGED <<clients, cancelSubs, broken, writer, writeCh, sub, outVars,
                   stopping, hist>>

Detach(c, k) ==
    /\ At(c, "reading")
    /\ ~stopping
    /\ k \in cancelSubs[c]
    /\ cancelSubs' = [cancelSubs EXCEPT ![c] = cancelSubs[c] \ {k}]
    /\ sub' = Unrouted({k})
    /\ UNCHANGED <<clients, reader, broken, writer, writeCh, outVars, stopping, hist>>

-----------------------------------------------------------------------------
(* A connection goes.                                                      *)

Break(c) ==
    /\ c \notin broken
    /\ reader[c].pc \notin {"off", "accepting", "gone"}
    /\ broken' = broken \cup {c}
    /\ UNCHANGED <<clients, cancelSubs, reader, writer, writeCh, sub, outVars,
                   stopping, hist>>

ReadFails(c) ==
    /\ At(c, "reading")
    /\ c \in broken \/ stopping
    /\ Goes(c, "ending", 0)
    /\ UNCHANGED <<clients, cancelSubs, broken, writer, writeCh, sub, outVars,
                   stopping, hist>>

(* Once the writer is done the slot is given back.                         *)
Leave(c) ==
    /\ At(c, "ending")
    /\ writer[c] = "ended"
    /\ clients' = clients \ {c}
    /\ Goes(c, "leaving", 0)
    /\ UNCHANGED <<cancelSubs, broken, writer, writeCh, sub, outVars, stopping, hist>>

(* Then what the client was subscribed to, one by one.                     *)
CancelSub(c, k) ==
    /\ At(c, "leaving")
    /\ k \in cancelSubs[c]
    /\ cancelSubs' = [cancelSubs EXCEPT ![c] = cancelSubs[c] \ {k}]
    /\ sub' = Unrouted({k})
    /\ UNCHANGED <<clients, reader, broken, writer, writeCh, outVars, stopping, hist>>

Left(c) ==
    /\ At(c, "leaving")
    /\ cancelSubs[c] = {}
    /\ Goes(c, "gone", 0)
    /\ UNCHANGED <<clients, cancelSubs, broken, writer, writeCh, sub, outVars,
                   stopping, hist>>

Stop ==
    /\ ~stopping
    /\ stopping' = TRUE
    /\ UNCHANGED <<connVars, writer, writeCh, sub, outVars, hist>>

-----------------------------------------------------------------------------
(* The writer.                                                             *)

WriterSends(c) ==
    /\ writer[c] = "running"
    /\ c \notin broken
    /\ writeCh[c] # <<>>
    /\ writeCh' = [writeCh EXCEPT ![c] = Tail(writeCh[c])]
    /\ LET m == Head(writeCh[c])
       IN  /\ ended' = IF m.kind = "end" THEN ended \cup {m.sub} ELSE ended
           /\ last' = IF m.kind = "frame" THEN [last EXCEPT ![m.sub] = m.n]
                      ELSE last
    /\ UNCHANGED <<connVars, writer, sub, outVars, stopping>>

(* An error, or five seconds without progress, which closes the socket.    *)
WriterFails(c) ==
    /\ writer[c] = "running"
    /\ writeCh[c] # <<>>
    /\ writeCh' = [writeCh EXCEPT ![c] = Tail(writeCh[c])]
    /\ writer' = [writer EXCEPT ![c] = "ended"]
    /\ broken' = broken \cup {c}
    /\ UNCHANGED <<clients, cancelSubs, reader, sub, outVars, stopping, hist>>

WriterCancelled(c) ==
    /\ writer[c] = "running"
    /\ stopping \/ At(c, "ending")
    /\ writer' = [writer EXCEPT ![c] = "ended"]
    /\ UNCHANGED <<connVars, writeCh, sub, outVars, stopping, hist>>

-----------------------------------------------------------------------------
(* Frames.                                                                 *)

Emit(p) ==
    /\ emit.to = {}
    /\ frame < MaxFrames
    /\ frame' = frame + 1
    /\ emit' = [n |-> frame + 1,
                to |-> {k \in Subs : sub[k].routed /\ sub[k].pane = p}]
    /\ UNCHANGED <<connVars, writer, writeCh, sub, stopping, hist>>

(* A full channel loses the frame.                                         *)
Deliver(k) ==
    /\ k \in emit.to
    /\ emit' = [emit EXCEPT !.to = emit.to \ {k}]
    /\ sub' = IF Len(sub[k].ch) < SubCap
                THEN [sub EXCEPT ![k] =
                        [sub[k] EXCEPT !.ch = Append(sub[k].ch, emit.n)]]
                ELSE sub
    /\ UNCHANGED <<connVars, writer, writeCh, frame, stopping, hist>>

(* Mutant of Stream: the frame stays in the channel.                       *)
StreamKeepsFrame(k) ==
    /\ sub[k].streaming
    /\ sub[k].ch # <<>>
    /\ LET c == sub[k].client
       IN  IF HasRoom(c) THEN Put(c, Message("frame", k, Head(sub[k].ch)))
           ELSE UNCHANGED writeCh
    /\ UNCHANGED <<connVars, writer, sub, outVars, stopping, hist>>

(* The goroutine of an attach moves a frame on, or loses it.               *)
Stream(k) ==
    /\ sub[k].streaming
    /\ sub[k].ch # <<>>
    /\ sub' = [sub EXCEPT ![k] = [sub[k] EXCEPT !.ch = Tail(sub[k].ch)]]
    /\ LET c == sub[k].client
       IN  IF HasRoom(c) THEN Put(c, Message("frame", k, Head(sub[k].ch)))
           ELSE UNCHANGED writeCh
    /\ UNCHANGED <<connVars, writer, outVars, stopping, hist>>

StreamEnds(k) ==
    /\ sub[k].streaming
    /\ stopping
    /\ sub' = [sub EXCEPT ![k] = [sub[k] EXCEPT !.streaming = FALSE]]
    /\ UNCHANGED <<connVars, writer, writeCh, outVars, stopping, hist>>

-----------------------------------------------------------------------------
ReaderStep(c) ==
    \/ AcceptFails(c) \/ Connect(c) \/ SendList(c)
    \/ \E k \in Subs : \/ AddSub(c, k) \/ SendStart(c, k) \/ SendSnapshot(c, k)
                       \/ NoSnapshot(c, k) \/ SendEnd(c, k) \/ CancelSub(c, k)
    \/ SendCancelled(c) \/ ReadFails(c) \/ Leave(c) \/ Left(c)

WriterStep(c) == WriterSends(c) \/ WriterFails(c) \/ WriterCancelled(c)

StreamStep(k) == Stream(k) \/ StreamEnds(k)

Client(c) ==
    \/ AddClient(c) \/ Break(c)
    \/ \E k \in Subs : Detach(c, k) \/ \E p \in Panes : Subscribe(c, p, k)

Next ==
    \/ \E c \in Clients : ReaderStep(c) \/ WriterStep(c) \/ Client(c)
    \/ \E k \in Subs : StreamStep(k) \/ Deliver(k)
    \/ \E p \in Panes : Emit(p)
    \/ Stop

Spec == Init /\ [][Next]_vars

(* Goroutines run; a goroutine whose context is cancelled may go on for a  *)
(* while, as select chooses among what is ready, but not for ever.         *)
Fairness ==
    /\ \A c \in Clients : WF_vars(ReaderStep(c)) /\ WF_vars(WriterStep(c))
    /\ \A k \in Subs : WF_vars(StreamStep(k)) /\ WF_vars(Deliver(k))

FairSpec == Spec /\ Fairness

-----------------------------------------------------------------------------
(* Properties.                                                             *)

Places == {"off", "accepting", "list", "reading", "subscribed", "start",
           "snapshot", "end", "ending", "leaving", "gone"}

MessageType == [kind : {"list", "start", "snapshot", "end", "frame"},
                sub : Subs \cup {0}, n : 0 .. MaxFrames]

(* The registry, the goroutines and their queues are well typed, and a     *)
(* queue is never longer than its channel.                                 *)
TypeOK ==
    /\ clients \in SUBSET Clients
    /\ cancelSubs \in [Clients -> SUBSET Subs]
    /\ reader \in [Clients -> [pc : Places, sub : Subs \cup {0}]]
    /\ writer \in [Clients -> {"off", "running", "ended"}]
    /\ writeCh \in [Clients -> Seq(MessageType)]
    /\ \A c \in Clients : Len(writeCh[c]) <= QueueCap
    /\ broken \in SUBSET Clients
    /\ sub \in [Subs -> [client : Clients \cup {NoClient},
                         pane : Panes \cup {NoClient}, routed : BOOLEAN,
                         ch : Seq(1 .. MaxFrames), streaming : BOOLEAN]]
    /\ \A k \in Subs : Len(sub[k].ch) <= SubCap
    /\ frame \in 0 .. MaxFrames
    /\ emit \in [n : 0 .. MaxFrames, to : SUBSET Subs]
    /\ stopping \in BOOLEAN
    /\ ended \in SUBSET Subs
    /\ last \in [Subs -> 0 .. MaxFrames]

(* A slot is taken exactly while its connection is being served, so that   *)
(* the limit counts neither the turned away nor the departed.              *)
SlotsAreAccountedFor ==
    \A c \in Clients :
      c \in clients <=> reader[c].pc \notin {"off", "leaving", "gone"}

(* The router holds no channel that nobody will ever take out: whoever is  *)
(* routed is known to the registry under its client, or its reader is just *)
(* about to tell it; and there is one for each pane of a client.           *)
SubscriptionsAreOwned ==
    \A k \in Subs : sub[k].routed =>
      LET c == sub[k].client
      IN  \/ At(c, "subscribed") /\ reader[c].sub = k
          \/ /\ k \in cancelSubs[c] /\ ~At(c, "gone")
             /\ \A j \in cancelSubs[c] : sub[j].pane = sub[k].pane => j = k

IsFrame(m, k) == m.kind = "frame" /\ m.sub = k

FramesOf(k, ns) == [i \in 1 .. Len(ns) |-> Message("frame", k, ns[i])]

(* From the last frame written of k back to the parser: the queue of its   *)
(* client, the channel of k, the frame the parser has in hand.             *)
Way(k) ==
    FramesOf(k, <<last[k]>>)
    \o (IF sub[k].client = NoClient THEN <<>> ELSE writeCh[sub[k].client])
    \o FramesOf(k, sub[k].ch)
    \o FramesOf(k, IF k \in emit.to THEN <<emit.n>> ELSE <<>>)

(* The frames of k among the messages q are numbered upwards.              *)
InOrder(q, k) ==
    \A i, j \in 1 .. Len(q) :
      i < j /\ IsFrame(q[i], k) /\ IsFrame(q[j], k) => q[i].n < q[j].n

(* What is left of an attach arrives in the order of the output: frames    *)
(* may be lost at either queue, but none overtakes another or comes twice. *)
FramesKeepTheirOrder == \A k \in Subs : InOrder(Way(k), k)

(* The live frames of an attach come after the snapshot of that attach, so *)
(* that the client paints them on top of it. (A writer that has ended will *)
(* write nothing more, whatever still comes into its queue.)               *)
FramesFollowTheSnapshot ==
    \A c \in Clients : \A i \in 1 .. Len(writeCh[c]) :
      writer[c] = "running" /\ writeCh[c][i].kind = "frame" =>
        \/ writeCh[c][i].sub \in ended
        \/ \E j \in 1 .. i - 1 : writeCh[c][j].kind = "end"
                                /\ writeCh[c][j].sub = writeCh[c][i].sub

(* What an attach promises its client: see PaneStream.                     *)
Shown == INSTANCE PaneStream WITH output <- frame, shown <- ended

(* What is written to a socket is what the client of an attach may see:    *)
(* output after the snapshot only, each later than the one before, and     *)
(* none the terminal has not put out.                                      *)
KeepsStream == Shown!Spec

Over(c) == reader[c].pc \in {"off", "gone"} /\ writer[c] # "running"

(* Stop ends every connection and the goroutines of every attach, those of *)
(* clients that left long ago included.                                    *)
StopEndsEverything ==
    <>[](stopping => /\ \A c \in Clients : Over(c)
                     /\ \A k \in Subs : ~sub[k].streaming)

(* "Client disconnect -> all F1 subscriptions cleaned up."                 *)
DisconnectCleansUp ==
    \A c \in Clients : c \in broken ~> \A k \in Subs :
                          sub[k].client = c => ~sub[k].routed
=============================================================================
