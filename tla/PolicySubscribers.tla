-------------------------- MODULE PolicySubscribers --------------------------
(***************************************************************************)
(* The policy streams of the APOLLO gRPC server (pkg/grpc/server.go). Each *)
(* call of SubscribePolicies runs in a handler with a buffered channel,    *)
(* registered in a map under the subscriber's id; a broadcast offers its   *)
(* policy to every channel of the map without waiting. The map is guarded  *)
(* by a read-write lock, which a broadcast holds for reading throughout.   *)
(* Nothing in the repository broadcasts yet: the callers are external.     *)
(***************************************************************************)
EXTENDS Naturals, Sequences

CONSTANTS
    Handlers,     \* calls of SubscribePolicies
    Ids,          \* subscriber ids, chosen by the clients
    None,
    Capacity,     \* of a channel: 100
    MaxPolicies   \* bound: policies broadcast

ASSUME SubscribersAssumption ==
    None \notin Handlers /\ Capacity \in Nat \ {0} /\ MaxPolicies \in Nat

VARIABLES
    at,           \* where a handler is
    id,           \* the subscriber id it was called with
    chan,         \* the policies in its channel
    subscribers,  \* policySubscribers: the handler registered under an id
    casts,        \* the ids that a broadcast has still to visit
    started,      \* broadcasts begun
    server        \* "running", "stopping" or "stopped"

vars == <<at, id, chan, subscribers, casts, started, server>>

-----------------------------------------------------------------------------
Policies == 1..MaxPolicies
Places   == {"idle", "entered", "serving", "sending", "leaving", "gone"}
Waiting  == {"serving", "sending", "leaving"}

TypeOK ==
    /\ at \in [Handlers -> Places]
    /\ id \in [Handlers -> Ids]
    /\ chan \in [Handlers -> Seq(Policies)]
    /\ \A h \in Handlers : Len(chan[h]) <= Capacity
    /\ subscribers \in [Ids -> Handlers \cup {None}]
    /\ casts \in [Policies -> SUBSET Ids]
    /\ started \in 0..MaxPolicies
    /\ server \in {"running", "stopping", "stopped"}

Init ==
    /\ at = [h \in Handlers |-> "idle"]
    /\ id \in [Handlers -> Ids]
    /\ chan = [h \in Handlers |-> <<>>]
    /\ subscribers = [i \in Ids |-> None]
    /\ casts = [p \in Policies |-> {}]
    /\ started = 0
    /\ server = "running"

\* A broadcast holds subscriberMu for reading; a handler needs it for writing.
Unlocked == \A p \in Policies : casts[p] = {}

-----------------------------------------------------------------------------
(* SubscribePolicies                                                       *)

\* The call arrives, and its channel is made.
Subscribe(h) ==
    /\ server = "running" /\ at[h] = "idle"
    /\ at' = [at EXCEPT ![h] = "entered"]
    /\ UNCHANGED <<id, chan, subscribers, casts, started, server>>

\* Registered under its id; whoever was registered under it is so no longer.
Register(h) ==
    /\ at[h] = "entered" /\ Unlocked
    /\ at' = [at EXCEPT ![h] = "serving"]
    /\ subscribers' = [subscribers EXCEPT ![id[h]] = h]
    /\ UNCHANGED <<id, chan, casts, started, server>>

\* for policy := range policyChan: the handler waits until there is one.
Receive(h) ==
    /\ at[h] = "serving" /\ chan[h] # <<>>
    /\ at' = [at EXCEPT ![h] = "sending"]
    /\ chan' = [chan EXCEPT ![h] = Tail(@)]
    /\ UNCHANGED <<id, subscribers, casts, started, server>>

\* stream.Send returns when the client takes the policy, or has gone.
Send(h) ==
    /\ at[h] = "sending"
    /\ \E next \in {"serving", "leaving"} : at' = [at EXCEPT ![h] = next]
    /\ UNCHANGED <<id, chan, subscribers, casts, started, server>>

\* Mutant: the channel is closed without the lock.
Leave_Unlocked(h) ==
    /\ at[h] = "leaving"
    /\ at' = [at EXCEPT ![h] = "gone"]
    /\ chan' = [chan EXCEPT ![h] = <<>>]
    /\ subscribers' = [subscribers EXCEPT ![id[h]] = None]
    /\ UNCHANGED <<id, casts, started, server>>

\* Mutant: the map is made anew.
Leave_Resets(h) ==
    /\ at[h] = "leaving" /\ Unlocked
    /\ at' = [at EXCEPT ![h] = "gone"]
    /\ chan' = [chan EXCEPT ![h] = <<>>]
    /\ subscribers' = [i \in Ids |-> None]
    /\ UNCHANGED <<id, casts, started, server>>

\* The deferred function: whatever is registered under the id is removed, also when it
\* is the handler of a later call; the channel is closed.
Leave(h) ==
    /\ at[h] = "leaving" /\ Unlocked
    /\ at' = [at EXCEPT ![h] = "gone"]
    /\ chan' = [chan EXCEPT ![h] = <<>>]
    /\ subscribers' = [subscribers EXCEPT ![id[h]] = None]
    /\ UNCHANGED <<id, casts, started, server>>

-----------------------------------------------------------------------------
(* BroadcastOrchestrationPolicy; several may run at a time.                *)

Broadcast ==
    /\ started < MaxPolicies
    /\ started' = started + 1
    /\ casts' = [casts EXCEPT ![started + 1] = {i \in Ids : subscribers[i] # None}]
    /\ UNCHANGED <<at, id, chan, subscribers, server>>

\* Mutant: the broadcast waits until there is room.
Offer_Waits(p, i) ==
    /\ i \in casts[p] /\ Len(chan[subscribers[i]]) < Capacity
    /\ casts' = [casts EXCEPT ![p] = @ \ {i}]
    /\ chan' = [chan EXCEPT ![subscribers[i]] = Append(@, p)]
    /\ UNCHANGED <<at, id, subscribers, started, server>>

\* The channel of the id takes the policy; a full one is passed over.
Offer(p, i) ==
    /\ i \in casts[p]
    /\ casts' = [casts EXCEPT ![p] = @ \ {i}]
    /\ chan' = IF Len(chan[subscribers[i]]) >= Capacity THEN chan
               ELSE [chan EXCEPT ![subscribers[i]] = Append(@, p)]
    /\ UNCHANGED <<at, id, subscribers, started, server>>

-----------------------------------------------------------------------------
(* Shutdown: GracefulStop takes no more calls and waits for those there    *)
(* are, however long: main's timeout of 30 s bounds only the shutdown of   *)
(* the HTTP server, which comes after it.                                  *)

Shutdown ==
    /\ server = "running" /\ server' = "stopping"
    /\ UNCHANGED <<at, id, chan, subscribers, casts, started>>

Stopped ==
    /\ server = "stopping" /\ \A h \in Handlers : at[h] \in {"idle", "gone"}
    /\ server' = "stopped"
    /\ UNCHANGED <<at, id, chan, subscribers, casts, started>>

-----------------------------------------------------------------------------
Handle(h) == Register(h) \/ Receive(h) \/ Leave(h)
Cast(p)   == \E i \in Ids : Offer(p, i)

Next ==
    \/ \E h \in Handlers : Subscribe(h) \/ Handle(h) \/ Send(h)
    \/ \E p \in Policies : Cast(p)
    \/ Broadcast \/ Shutdown \/ Stopped

Spec == Init /\ [][Next]_vars

\* The goroutines of the server run on. When a client takes what is sent to it, and
\* whether it does, is its own affair.
FairSpec ==
    /\ Spec
    /\ \A h \in Handlers : WF_vars(Handle(h))
    /\ \A p \in Policies : WF_vars(Cast(p))
    /\ WF_vars(Stopped)

-----------------------------------------------------------------------------
(* Properties                                                              *)

\* A broadcast never sends on a closed channel, which would end the process, whatever
\* ids the clients share and however subscriptions, departures and broadcasts overlap.
OffersReachOpenChannels ==
    \A i \in Ids :
        /\ subscribers[i] # None => at[subscribers[i]] \in Waiting
        /\ \A p \in Policies : i \in casts[p] => subscribers[i] # None

\* A handler that serves and is not registered, and so hears of no policy, shares its id
\* with another call: a subscriber with an id of its own is reached by every broadcast.
OnlySharedIdsAreSilent ==
    \A h \in Handlers :
        at[h] \in {"serving", "sending"} /\ subscribers[id[h]] # h
            => \E g \in Handlers \ {h} : id[g] = id[h] /\ at[g] \notin {"idle", "entered"}

\* A broadcast returns, however slow a subscriber is and whatever it has not taken yet.
BroadcastReturns == \A p \in Policies : casts[p] # {} ~> casts[p] = {}

\* No broadcast keeps a handler from leaving, and no handler that leaves a broadcast from
\* its end: once every handler has left or is about to, the server stops.
Departed == \A h \in Handlers : at[h] \in {"idle", "leaving", "gone"}

ShutdownEnds == server = "stopping" /\ Departed ~> server = "stopped"
=============================================================================
