--------------------------- MODULE SessionRegistry ---------------------------
(***************************************************************************)
(* The session registry of bmux, the chain of channels that feeds it, and  *)
(* the manager that starts and stops both.                                 *)
(*                                                                         *)
(* tmux reports a session that begins or ends on the control connection;   *)
(* the parser of the bridge puts the report into a bounded channel, among  *)
(* the output of every pane; a pump takes the topology events out of it    *)
(* and puts them into the bounded channel of the registry; the goroutine   *)
(* of the registry applies them. Both channels drop what finds no room.    *)
(* The registry starts from a list of the sessions, which it asks for      *)
(* while events are already coming in: the list may be newer than them.    *)
(*                                                                         *)
(* A tmux that only says that its sessions changed, without a name, leaves *)
(* the registry uninformed: the parser knows that report and the pump      *)
(* drops it like every other one that is not by name.                      *)
(*                                                                         *)
(* Panes are left out: the events about windows and panes do not carry the *)
(* name of a session in this program, so that the registry ignores them.   *)
(* So is the fan-out to subscribers, of which the program has none.        *)
(***************************************************************************)
EXTENDS Naturals, Sequences

CONSTANTS
    Names,       \* of sessions
    NoName,
    StreamCap,   \* room in the channel of the bridge
    EventCap,    \* room in the channel of the registry
    MaxChanges   \* a bound on what tmux reports

ASSUME RegistryAssumption ==
    /\ NoName \notin Names
    /\ StreamCap \in Nat \ {0}
    /\ EventCap \in Nat \ {0}
    /\ MaxChanges \in Nat

VARIABLES
    live,          \* the sessions of tmux
    changes,       \* reports so far
    stream,        \* eventsCh of the bridge
    streamClosed,
    eventCh,       \* the channel of the registry
    eventClosed,
    sessions,      \* the map of the registry
    listed,        \* what ListSessions returned
    at,            \* the registry: starting, running, stale, ended
    stack,         \* the gateway's manager
    lost           \* history: the registry was not told of a change

tmuxVars == <<live, changes>>
streamVars == <<stream, streamClosed>>
eventVars == <<eventCh, eventClosed>>
registryVars == <<sessions, listed, at>>
vars == <<tmuxVars, streamVars, eventVars, registryVars, stack, lost>>

Event == [kind : {"created", "closed"}, name : Names]
         \cup [kind : {"other"}, name : {NoName}]

Init ==
    /\ live \in SUBSET Names
    /\ changes = 0
    /\ stream = <<>> /\ streamClosed = FALSE
    /\ eventCh = <<>> /\ eventClosed = FALSE
    /\ sessions = {} /\ listed = {}
    /\ at = "off"
    /\ stack = "off"
    /\ lost = FALSE

-----------------------------------------------------------------------------
(* tmux and the parser.                                                    *)

Attached == stack # "off" /\ ~streamClosed

(* What the parser reads goes into the channel, if there is room.          *)
Report(kind, name) ==
    IF Len(stream) < StreamCap
      THEN /\ stream' = Append(stream, [kind |-> kind, name |-> name])
           /\ UNCHANGED lost
      ELSE /\ lost' = (lost \/ kind # "other")
           /\ UNCHANGED stream

Change(kind, name) ==
    /\ changes < MaxChanges
    /\ changes' = changes + 1
    /\ IF Attached THEN Report(kind, name) ELSE UNCHANGED <<stream, lost>>
    /\ UNCHANGED <<streamClosed, eventVars, registryVars, stack>>

Created(s) == s \notin live /\ live' = live \cup {s} /\ Change("created", s)

Closed(s) == s \in live /\ live' = live \ {s} /\ Change("closed", s)

(* A session begins or ends, and tmux only says that something changed.    *)
Unnamed(s) ==
    /\ Attached
    /\ changes < MaxChanges
    /\ changes' = changes + 1
    /\ live' = IF s \in live THEN live \ {s} ELSE live \cup {s}
    /\ stream' = IF Len(stream) < StreamCap
                   THEN Append(stream, [kind |-> "other", name |-> NoName])
                   ELSE stream
    /\ lost' = TRUE
    /\ UNCHANGED <<streamClosed, eventVars, registryVars, stack>>

(* Output of a pane, and events that concern no session.                   *)
Other == Attached /\ UNCHANGED live /\ Change("other", NoName)

(* The control connection ends and with it the parser.                     *)
Disconnect ==
    /\ Attached
    /\ streamClosed' = TRUE
    /\ UNCHANGED <<tmuxVars, stream, eventVars, registryVars, stack, lost>>

-----------------------------------------------------------------------------
(* The pump.                                                               *)

Pump ==
    /\ stream # <<>>
    /\ stream' = Tail(stream)
    /\ LET ev == Head(stream)
       IN  IF ev.kind # "other" /\ Len(eventCh) < EventCap
             THEN /\ eventCh' = Append(eventCh, ev)
                  /\ UNCHANGED lost
             ELSE /\ lost' = (lost \/ ev.kind # "other")
                  /\ UNCHANGED eventCh
    /\ UNCHANGED <<tmuxVars, streamClosed, eventClosed, registryVars, stack>>

PumpEnds ==
    /\ stream = <<>> /\ streamClosed
    /\ ~eventClosed
    /\ eventClosed' = TRUE
    /\ UNCHANGED <<tmuxVars, streamVars, eventCh, registryVars, stack, lost>>

-----------------------------------------------------------------------------
(* The start of the stack: bridge, registry, WebSocket gateway.            *)

BridgeStart ==
    /\ stack = "off"
    /\ stack' = "starting"
    /\ at' = "listing"
    /\ UNCHANGED <<tmuxVars, streamVars, eventVars, sessions, listed, lost>>

ListSessions ==
    /\ at = "listing" /\ ~streamClosed
    /\ listed' = live
    /\ at' = "listed"
    /\ UNCHANGED <<tmuxVars, streamVars, eventVars, sessions, stack, lost>>

(* Mutant of Populate: what came in so far is thrown away, as when the      *)
(* channel is asked for after the list.                                    *)
PopulateThenListen ==
    /\ at = "listed"
    /\ sessions' = listed
    /\ at' = "running"
    /\ stream' = <<>> /\ eventCh' = <<>>
    /\ UNCHANGED <<tmuxVars, streamClosed, eventClosed, listed, stack, lost>>

(* The panes of every session have been asked for; the map is replaced.    *)
Populate ==
    /\ at = "listed"
    /\ sessions' = listed
    /\ at' = "running"
    /\ UNCHANGED <<tmuxVars, streamVars, eventVars, listed, stack, lost>>

(* A command fails or times out: the manager stops the bridge again.       *)
PopulateFails ==
    /\ at \in {"listing", "listed"}
    /\ at' = "off"
    /\ stack' = "failed"
    /\ streamClosed' = TRUE
    /\ UNCHANGED <<tmuxVars, stream, eventVars, sessions, listed, lost>>

GatewayStarts ==
    /\ stack = "starting" /\ at \notin {"listing", "listed"}
    /\ stack' = "up"
    /\ UNCHANGED <<tmuxVars, streamVars, eventVars, registryVars, lost>>

(* The WebSocket gateway does not start, or the manager is told to stop:   *)
(* either way the goroutine of the registry is told to end.                *)
Stop ==
    /\ stack \in {"starting", "up"} /\ at \notin {"listing", "listed"}
    /\ stack' = "stopping"
    /\ UNCHANGED <<tmuxVars, streamVars, eventVars, registryVars, lost>>

(* It has ended, and the bridge is stopped.                                *)
Stopped ==
    /\ stack = "stopping" /\ at = "ended"
    /\ stack' = "stopped"
    /\ streamClosed' = TRUE
    /\ UNCHANGED <<tmuxVars, stream, eventVars, registryVars, lost>>

-----------------------------------------------------------------------------
(* The goroutine of the registry.                                          *)

Applied(ev) ==
    IF ev.kind = "created" THEN sessions \cup {ev.name}
    ELSE sessions \ {ev.name}

(* Mutant of Apply: an event waits for the next one.                       *)
ApplyAllButOne ==
    /\ at = "running"
    /\ Len(eventCh) > 1
    /\ sessions' = Applied(Head(eventCh))
    /\ eventCh' = Tail(eventCh)
    /\ UNCHANGED <<tmuxVars, streamVars, eventClosed, listed, at, stack, lost>>

Apply ==
    /\ at = "running"
    /\ eventCh # <<>>
    /\ sessions' = Applied(Head(eventCh))
    /\ eventCh' = Tail(eventCh)
    /\ UNCHANGED <<tmuxVars, streamVars, eventClosed, listed, at, stack, lost>>

SeeStop ==
    /\ at = "running"
    /\ stack = "stopping"
    /\ at' = "ended"
    /\ UNCHANGED <<tmuxVars, streamVars, eventVars, sessions, listed, stack, lost>>

(* The channel is closed and drained. The list is asked for again.         *)
SeeClosed ==
    /\ at = "running"
    /\ eventCh = <<>> /\ eventClosed
    /\ at' = "stale"
    /\ UNCHANGED <<tmuxVars, streamVars, eventVars, sessions, listed, stack, lost>>

(* Mutant of RelistFails: whether to stop is left to the select.           *)
RelistGoesOn ==
    /\ at = "stale"
    /\ at' = "running"
    /\ UNCHANGED <<tmuxVars, streamVars, eventVars, sessions, listed, stack, lost>>

(* Nobody reads answers any more, so that the list fails or times out, and *)
(* the bridge hands out the closed channel once more.                      *)
RelistFails ==
    /\ at = "stale"
    /\ at' = IF stack = "stopping" THEN "ended" ELSE "running"
    /\ UNCHANGED <<tmuxVars, streamVars, eventVars, sessions, listed, stack, lost>>

-----------------------------------------------------------------------------
PumpStep == Pump \/ PumpEnds

RunStep == Apply \/ SeeStop \/ SeeClosed \/ RelistFails

StackStep == ListSessions \/ Populate \/ PopulateFails \/ Stopped

Next ==
    \/ \E s \in Names : Created(s) \/ Closed(s) \/ Unnamed(s)
    \/ Other \/ Disconnect
    \/ BridgeStart \/ GatewayStarts \/ Stop
    \/ PumpStep \/ RunStep \/ StackStep

Spec == Init /\ [][Next]_vars

(* Every goroutine goes on while it can; commands return or time out.      *)
Fairness == WF_vars(PumpStep) /\ WF_vars(RunStep) /\ WF_vars(StackStep)

FairSpec == Spec /\ Fairness

-----------------------------------------------------------------------------
(* Properties.                                                             *)

(* Channels keep within their room, and the registry only holds sessions.  *)
TypeOK ==
    /\ live \in SUBSET Names
    /\ changes \in 0 .. MaxChanges
    /\ stream \in Seq(Event) /\ Len(stream) <= StreamCap
    /\ streamClosed \in BOOLEAN
    /\ eventCh \in Seq(Event) /\ Len(eventCh) <= EventCap
    /\ eventClosed \in BOOLEAN
    /\ sessions \in SUBSET Names
    /\ listed \in SUBSET Names
    /\ at \in {"off", "listing", "listed", "running", "stale", "ended"}
    /\ stack \in {"off", "starting", "up", "stopping", "stopped", "failed"}
    /\ lost \in BOOLEAN

(* The reports that are still on their way, oldest first.                  *)
OnTheWay == eventCh \o stream

(* The last report about s on the way tells whether it lives; without one  *)
(* the map (or the list that will become the map) does.                    *)
Told(s, map) ==
    \/ \E i \in 1 .. Len(OnTheWay) :
         /\ OnTheWay[i].name = s
         /\ \A j \in i + 1 .. Len(OnTheWay) : OnTheWay[j].name # s
         /\ OnTheWay[i].kind = "created" <=> s \in live
    \/ /\ \A i \in 1 .. Len(OnTheWay) : OnTheWay[i].name # s
       /\ s \in map <=> s \in live

(* As long as the connection is up and every change was reported by name   *)
(* and found room, the registry and what is under way together say exactly *)
(* which sessions there are, although the list the registry started from   *)
(* was newer than the first events.                                        *)
RegistryFollowsTmux ==
    streamClosed \/ lost
      \/ \A s \in Names : /\ at = "listed" => Told(s, listed)
                          /\ at = "running" => Told(s, sessions)

(* Left alone, the registry ends up with the sessions of tmux.             *)
RegistryConverges ==
    <>[](at = "running" /\ ~lost /\ ~streamClosed => sessions = live)

(* Stopping the stack comes to an end, also after the connection was lost, *)
(* when the closed channel keeps the registry busy.                        *)
StopReturns == <>[](stack # "stopping")
=============================================================================
