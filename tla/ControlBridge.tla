----------------------------- MODULE ControlBridge -----------------------------
(***************************************************************************)
(* The control-mode bridge of the bmux gateway: concurrent Send calls, the *)
(* FIFO that matches answers to them, the parser goroutine, and Stop.      *)
(*                                                                         *)
(* A call of Send appends its channel to the queue under the lock, writes  *)
(* its command without the lock, and waits for an answer, for two seconds, *)
(* for CancelAll or for its context.  tmux answers the commands of the     *)
(* pty in the order they were written, with a block that ends in %end or,  *)
(* if the command fails, in %error.  A Detach is the line Stop writes, for *)
(* which nothing is queued.                                                *)
(***************************************************************************)
EXTENDS Naturals, Sequences

CONSTANTS Calls,    \* calls of Send, each made once
          Detach,   \* the detach-client line that Stop writes
          None      \* no answer

ASSUME DetachAssumption == Detach \notin Calls
ASSUME NoneAssumption == None \notin Calls \cup {Detach}

VARIABLES pc,         \* where each call of Send is
          respCh,     \* what has been put into its channel, of capacity one
          queue,      \* the channels that wait for an answer
          cancelled,  \* CancelAll has run
          wire,       \* lines in the pty whose answer has not been parsed
          collecting, \* the parser is inside a block
          exited,     \* the tmux subprocess is gone
          done,       \* the parser goroutine has ended
          stop,       \* where Stop is
          closed,     \* the events channel is closed
          panicked,   \* the parser has sent on the closed channel
          skewed      \* history: queue and pty may be out of step

senderVars == <<pc, respCh, queue, cancelled>>
streamVars == <<wire, collecting, exited, done>>
stopVars == <<stop, closed, panicked>>
vars == <<senderVars, streamVars, stopVars, skewed>>

Returned == {"answered", "failed", "timedOut", "cancelled"}
Places == {"idle", "queued", "waiting"} \cup Returned
StopPlaces == {"running", "cancelled", "detached", "stopped"}

Init ==
    /\ pc = [c \in Calls |-> "idle"]
    /\ respCh = [c \in Calls |-> None]
    /\ queue = <<>>
    /\ cancelled = FALSE
    /\ wire = <<>>
    /\ collecting = FALSE
    /\ exited = FALSE
    /\ done = FALSE
    /\ stop = "running"
    /\ closed = FALSE
    /\ panicked = FALSE
    /\ skewed = FALSE

-----------------------------------------------------------------------------
(* Send *)

(* Under the lock: refuse after CancelAll, otherwise join the queue.       *)
Enqueue(c) ==
    /\ pc[c] = "idle"
    /\ IF cancelled
         THEN /\ pc' = [pc EXCEPT ![c] = "cancelled"]
              /\ UNCHANGED queue
         ELSE /\ pc' = [pc EXCEPT ![c] = "queued"]
              /\ queue' = Append(queue, c)
    /\ UNCHANGED <<respCh, cancelled, streamVars, stopVars, skewed>>

(* An entry ahead of c belongs to a command that is not written yet.       *)
OutOfTurn(c) ==
    \E i, j \in 1..Len(queue) :
      i < j /\ queue[j] = c /\ pc[queue[i]] = "queued"

(* The command goes to the pty, without the lock; then the select, which   *)
(* returns at once if the channel already holds an answer.                 *)
Write(c) ==
    /\ pc[c] = "queued"
    /\ ~exited
    /\ wire' = Append(wire, c)
    /\ pc' = [pc EXCEPT ![c] =
                IF respCh[c] = None THEN "waiting" ELSE "answered"]
    /\ skewed' = (skewed \/ OutOfTurn(c))
    /\ UNCHANGED <<respCh, queue, cancelled, collecting, exited, done, stopVars>>

(* A failed write takes its own entry out of the queue, wherever it is.    *)
Without(c) ==
    LET at == CHOOSE i \in 1..Len(queue) : queue[i] = c
    IN  IF \E i \in 1..Len(queue) : queue[i] = c
          THEN SubSeq(queue, 1, at - 1) \o SubSeq(queue, at + 1, Len(queue))
          ELSE queue

WriteFails(c) ==
    /\ pc[c] = "queued"
    /\ exited
    /\ queue' = Without(c)
    /\ pc' = [pc EXCEPT ![c] = "failed"]
    /\ UNCHANGED <<respCh, cancelled, streamVars, stopVars, skewed>>

(* Mutant of GiveUp: the entry is taken out, as after a failed write.      *)
GiveUpAndLeave(c, place) ==
    /\ pc[c] = "waiting"
    /\ pc' = [pc EXCEPT ![c] = place]
    /\ queue' = Without(c)
    /\ UNCHANGED <<respCh, cancelled, streamVars, stopVars, skewed>>

(* The timer and the context leave the entry in the queue: the answer may  *)
(* still come and must then not go to the next call.                       *)
GiveUp(c, place) ==
    /\ pc[c] = "waiting"
    /\ pc' = [pc EXCEPT ![c] = place]
    /\ UNCHANGED <<respCh, queue, cancelled, streamVars, stopVars, skewed>>

(* Mutant of Timeout: after CancelAll the timer is not waited for.         *)
TimeoutUnlessCancelled(c) == ~cancelled /\ GiveUp(c, "timedOut")

Timeout(c) == GiveUp(c, "timedOut")
ContextDone(c) == GiveUp(c, "cancelled")

-----------------------------------------------------------------------------
(* The parser *)

(* Mutant of DeliverResponse: the head stays in the queue.                 *)
DeliverWithoutPop(lines) ==
    /\ UNCHANGED queue
    /\ \/ queue = <<>> /\ UNCHANGED <<pc, respCh>>
       \/ /\ queue # <<>>
          /\ respCh' = [respCh EXCEPT ![Head(queue)] = lines]
          /\ pc' = [pc EXCEPT ![Head(queue)] =
                      IF @ = "waiting" THEN "answered" ELSE @]

(* Pop the head of the queue and offer it the lines; a call that waits     *)
(* takes them at once, one that is still writing finds them afterwards,    *)
(* one that has returned never looks.                                      *)
DeliverResponse(lines) ==
    \/ /\ queue = <<>>
       /\ UNCHANGED <<pc, respCh, queue>>
    \/ /\ queue # <<>>
       /\ queue' = Tail(queue)
       /\ respCh' = [respCh EXCEPT ![Head(queue)] = lines]
       /\ pc' = [pc EXCEPT ![Head(queue)] =
                   IF @ = "waiting" THEN "answered" ELSE @]

(* A block that ends in %end.  One left open before it is thrown away.     *)
ParseEnd ==
    /\ ~done
    /\ wire # <<>>
    /\ Head(wire) # Detach
    /\ DeliverResponse(Head(wire))
    /\ wire' = Tail(wire)
    /\ collecting' = FALSE
    /\ UNCHANGED <<cancelled, exited, done, stopVars, skewed>>

(* A block that ends in %error, which the parser takes for one more line:  *)
(* nothing is popped and the block stays open.                             *)
ParseError ==
    /\ ~done
    /\ wire # <<>>
    /\ Head(wire) # Detach
    /\ wire' = Tail(wire)
    /\ collecting' = TRUE
    /\ skewed' = TRUE
    /\ UNCHANGED <<senderVars, exited, done, stopVars>>

(* tmux acknowledges detach-client and reads no further line.              *)
ParseDetach ==
    /\ ~done
    /\ wire # <<>>
    /\ Head(wire) = Detach
    /\ DeliverResponse(Detach)
    /\ wire' = <<>>
    /\ collecting' = FALSE
    /\ exited' = TRUE
    /\ UNCHANGED <<cancelled, done, stopVars, skewed>>

(* A notification outside a block goes to the events channel, which drops  *)
(* it when full and panics when closed; inside an open block it is a line. *)
ParseEvent ==
    /\ ~done
    /\ ~collecting
    /\ closed
    /\ panicked' = TRUE
    /\ UNCHANGED <<senderVars, streamVars, stop, closed, skewed>>

(* Mutant of ParserEnds: closing the channel is left to Stop.              *)
ParserEndsQuietly ==
    /\ exited
    /\ ~done
    /\ done' = TRUE
    /\ closed' = (closed \/ stop # "running")
    /\ UNCHANGED <<senderVars, wire, collecting, exited, stop, panicked, skewed>>

(* End of file: the parser goroutine closes the events channel, once.      *)
ParserEnds ==
    /\ exited
    /\ ~done
    /\ done' = TRUE
    /\ closed' = TRUE
    /\ UNCHANGED <<senderVars, wire, collecting, exited, stop, panicked, skewed>>

-----------------------------------------------------------------------------
(* tmux and Stop *)

(* The subprocess dies, or Stop kills it two seconds after the detach.     *)
TmuxExits ==
    /\ ~exited
    /\ exited' = TRUE
    /\ UNCHANGED <<senderVars, wire, collecting, done, stopVars, skewed>>

(* CancelAll wakes the calls that are in their select; the channel has no  *)
(* buffer, so a call that is still writing misses it.                      *)
CancelAll ==
    /\ cancelled' = TRUE
    /\ pc' = [c \in Calls |-> IF pc[c] = "waiting" THEN "cancelled" ELSE pc[c]]

StopCancels ==
    /\ stop = "running"
    /\ stop' = "cancelled"
    /\ CancelAll
    /\ UNCHANGED <<respCh, queue, streamVars, closed, panicked, skewed>>

StopDetaches ==
    /\ stop = "cancelled"
    /\ stop' = "detached"
    /\ IF exited
         THEN UNCHANGED <<wire, skewed>>
         ELSE /\ wire' = Append(wire, Detach)
              /\ skewed' = TRUE
    /\ UNCHANGED <<senderVars, collecting, exited, done, closed, panicked>>

(* After the exit Stop closes the pty and the events channel, whether or   *)
(* not the parser has finished with what it had already read.              *)
StopCloses ==
    /\ stop = "detached"
    /\ exited
    /\ stop' = "stopped"
    /\ closed' = TRUE
    /\ UNCHANGED <<senderVars, streamVars, panicked, skewed>>

-----------------------------------------------------------------------------
SendStep(c) ==
    Enqueue(c) \/ Write(c) \/ WriteFails(c) \/ Timeout(c) \/ ContextDone(c)

ParserStep ==
    ParseEnd \/ ParseError \/ ParseDetach \/ ParseEvent \/ ParserEnds

Next ==
    /\ ~panicked
    /\ \/ \E c \in Calls : SendStep(c)
       \/ ParserStep
       \/ TmuxExits
       \/ StopCancels
       \/ StopDetaches
       \/ StopCloses

Spec == Init /\ [][Next]_vars

(* A write to the pty returns and the timer fires; the parser goroutine    *)
(* sees the end of its input.  tmux may never answer and nobody need call  *)
(* Stop; once called it goes on, and its kill ends the subprocess.         *)
Fairness ==
    /\ \A c \in Calls :
         /\ WF_vars(~panicked /\ (Write(c) \/ WriteFails(c)))
         /\ WF_vars(~panicked /\ Timeout(c))
    /\ WF_vars(~panicked /\ ParserEnds)
    /\ WF_vars(~panicked /\ StopDetaches)
    /\ WF_vars(~panicked /\ stop = "detached" /\ TmuxExits)
    /\ WF_vars(~panicked /\ StopCloses)

FairSpec == Spec /\ Fairness

-----------------------------------------------------------------------------
(* Every variable has its type.                                            *)
TypeOK ==
    /\ pc \in [Calls -> Places]
    /\ respCh \in [Calls -> Calls \cup {Detach, None}]
    /\ queue \in Seq(Calls)
    /\ cancelled \in BOOLEAN
    /\ wire \in Seq(Calls \cup {Detach})
    /\ collecting \in BOOLEAN
    /\ exited \in BOOLEAN
    /\ done \in BOOLEAN
    /\ stop \in StopPlaces
    /\ closed \in BOOLEAN
    /\ panicked \in BOOLEAN
    /\ skewed \in BOOLEAN

(* As long as the commands were written in the order of the queue and none *)
(* has failed, every answer goes to the call whose command it answers:     *)
(* calls that time out, are cancelled or fail to write shift nothing.      *)
AnswersMatch ==
    ~skewed => \A c \in Calls : respCh[c] \in {c, None}

(* Under the same condition no answer is thrown away: each line in the pty *)
(* has its entry in the queue, at the same place.                          *)
QueueFollowsPty ==
    ~skewed => /\ Len(wire) <= Len(queue)
               /\ \A i \in 1..Len(wire) : queue[i] = wire[i]

(* A call of Send as its caller sees it.                                   *)
Stage ==
    [c \in Calls |-> IF pc[c] = "idle" THEN "idle"
                     ELSE IF pc[c] \in Returned THEN "closed" ELSE "open"]

Line == INSTANCE Exchange WITH
          Replies <- Calls \cup {Detach},
          stage <- Stage, reply <- respCh, trusted <- ~skewed

(* The bridge is an exchange: even when queue and pty are out of step, a   *)
(* channel is offered one answer at most, so that DeliverResponse never    *)
(* drops one at a full channel, and none before its call has asked.        *)
KeepsExchange == Line!Spec

(* Every Send returns, whether tmux answers, fails, dies or says nothing,  *)
(* and although it may have missed CancelAll.                              *)
EverySendReturns ==
    \A c \in Calls :
      pc[c] = "queued" ~> (pc[c] \in Returned \/ panicked)

(* When tmux goes away the events channel is closed, which is how its      *)
(* readers learn of it.                                                    *)
DisconnectIsSeen == exited ~> (closed \/ panicked)
=============================================================================
