---------------------------------- MODULE Hub ----------------------------------
(***************************************************************************)
(* Wake-on-update: comms.hub and the event stream of handleCommsSubscribe. *)
(* A client opens a stream with its cursor; the handler registers a filter *)
(* with the hub, then looks for messages the client has missed, then       *)
(* forwards nudges. A nudge says only that there is something to read; the *)
(* client answers it by reading everything after its cursor.               *)
(*                                                                         *)
(* A post tells the hub after it has released Store.mu, so posts reach the *)
(* hub late and in any order. Each step below is one critical section of   *)
(* Store.mu or of hub.mu, or one step of the handler or the client.        *)
(***************************************************************************)
EXTENDS Bus

CONSTANTS
  Clients,
  Filter           \* client -> [tenant, target, areas]

ASSUME HubAssumption ==
  Filter \in [Clients -> [tenant : Tenants, target : Labels \cup {NoLabel},
                          areas : SUBSET Areas]]

VARIABLES
  stage,    \* of each client's stream: off, connected, registered, streaming
  chan,     \* a nudge is in the one-place channel of its subscription
  wire,     \* a nudge is on its way to the client
  cursor    \* the client has read everything up to here

hubVars == <<stage, chan, wire, cursor>>

-------------------------------------------------------------------------------
\* Filter.matches.
Matches(c, m) ==
  /\ m.tenant = Filter[c].tenant
  /\ \/ Filter[c].target # NoLabel /\ m.target = Filter[c].target
     \/ m.area \in Filter[c].areas

\* What a read by c would bring.
Unread(c) == {s \in live : s > cursor[c] /\ Matches(c, log[s])}

\* The hub holds a subscription of c.
Registered(c) == stage[c] \in {"registered", "streaming"}

HubInit ==
  /\ stage = [c \in Clients |-> "off"]
  /\ chan = [c \in Clients |-> FALSE]
  /\ wire = [c \in Clients |-> FALSE]
  /\ cursor = [c \in Clients |-> 0]

-------------------------------------------------------------------------------
\* hub.publish: a non-blocking send to every subscription that matches; a channel
\* that is full keeps what it has.
Publish(s) ==
  /\ s \in unpublished
  /\ unpublished' = unpublished \ {s}
  /\ chan' = [c \in Clients |-> chan[c] \/ (Registered(c) /\ Matches(c, log[s]))]
  /\ UNCHANGED <<log, live, faults, stage, wire, cursor>>

\* The client opens a stream, with its cursor.
Connect(c) ==
  /\ stage[c] = "off"
  /\ stage' = [stage EXCEPT ![c] = "connected"]
  /\ UNCHANGED <<busVars, chan, wire, cursor>>

\* Store.Subscribe.
Register(c) ==
  /\ stage[c] = "connected"
  /\ stage' = [stage EXCEPT ![c] = "registered"]
  /\ chan' = [chan EXCEPT ![c] = FALSE]
  /\ UNCHANGED <<busVars, wire, cursor>>

\* No catch-up: the hub is trusted to have told the client.
CatchUp_none(c) ==
  /\ stage[c] = "registered"
  /\ stage' = [stage EXCEPT ![c] = "streaming"]
  /\ UNCHANGED <<busVars, wire, chan, cursor>>

\* Store.MatchingSince, and one nudge if it finds anything.
CatchUp(c) ==
  /\ stage[c] = "registered"
  /\ stage' = [stage EXCEPT ![c] = "streaming"]
  /\ wire' = [wire EXCEPT ![c] = @ \/ Unread(c) # {}]
  /\ UNCHANGED <<busVars, chan, cursor>>

\* The handler's loop.
Forward(c) ==
  /\ stage[c] = "streaming" /\ chan[c]
  /\ chan' = [chan EXCEPT ![c] = FALSE]
  /\ wire' = [wire EXCEPT ![c] = TRUE]
  /\ UNCHANGED <<busVars, stage, cursor>>

\* The client has got a nudge and reads.
ClientReads(c) ==
  /\ stage[c] # "off" /\ wire[c]
  /\ wire' = [wire EXCEPT ![c] = FALSE]
  /\ \/ Unread(c) = {} /\ UNCHANGED cursor
     \/ \E s \in Unread(c) : Newest(s, Unread(c)) /\ cursor' = [cursor EXCEPT ![c] = s]
  /\ UNCHANGED <<busVars, stage, chan>>

\* The stream breaks, with the nudge on it; the handler cancels its subscription.
Disconnect(c) ==
  /\ stage[c] # "off" /\ Fault
  /\ stage' = [stage EXCEPT ![c] = "off"]
  /\ chan' = [chan EXCEPT ![c] = FALSE]
  /\ wire' = [wire EXCEPT ![c] = FALSE]
  /\ UNCHANGED <<log, live, unpublished, cursor>>

\* The server dies: all streams break, and posts that had not told the hub never
\* will. The index is rebuilt from the journal.
ServerRestart ==
  /\ Fault
  /\ stage' = [c \in Clients |-> "off"]
  /\ chan' = [c \in Clients |-> FALSE]
  /\ wire' = [c \in Clients |-> FALSE]
  /\ unpublished' = {}
  /\ UNCHANGED <<log, live, cursor>>

HubNext ==
  \/ \E s \in unpublished : Publish(s)
  \/ \E c \in Clients : \/ Connect(c) \/ Register(c) \/ CatchUp(c)
                        \/ Forward(c) \/ ClientReads(c) \/ Disconnect(c)
  \/ ServerRestart

\* Goroutines and clients that can go on do; a client that lost its stream opens
\* another one.
HubFairness ==
  /\ \A s \in 1 .. MaxPosts : WF_<<busVars, hubVars>>(Publish(s))
  /\ \A c \in Clients :
       /\ WF_<<busVars, hubVars>>(Connect(c)) /\ WF_<<busVars, hubVars>>(Register(c))
       /\ WF_<<busVars, hubVars>>(CatchUp(c)) /\ WF_<<busVars, hubVars>>(Forward(c))
       /\ WF_<<busVars, hubVars>>(ClientReads(c))

-------------------------------------------------------------------------------
\* No gap between catch-up and registration ("Subscribe FIRST so no message can
\* fall into the gap"): a streaming client that has not read everything has a nudge
\* in its channel or on the wire, or all it has not read has yet to be published.
NothingMissed ==
  \A c \in Clients :
    stage[c] = "streaming" => wire[c] \/ chan[c] \/ Unread(c) \subseteq unpublished

\* Every message a client is interested in, it reads in the end, unless it is
\* removed first: coalesced and lost nudges, broken streams and restarts included.
ReadInTheEnd ==
  \A c \in Clients, s \in 1 .. MaxPosts :
    (s \in live /\ Matches(c, log[s])) ~> (s \notin live \/ cursor[c] >= s)

===============================================================================
