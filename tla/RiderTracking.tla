---------------------------- MODULE RiderTracking ----------------------------
(***************************************************************************)
(* The location history of one rider (internal/modules/telemetry): pings of *)
(* the rider's app, the end of a shift, and the retention job.              *)
(*                                                                         *)
(* Of a stream only the age of its newest point matters: the job asks       *)
(* whether there is a point newer than some age. Ages count steps of        *)
(* staleStreamAfter and stop at the retention.                              *)
(***************************************************************************)
EXTENDS Naturals, FiniteSetsExt

CONSTANTS
    Pings,      \* requests that can be in flight together
    Streams,    \* bound: streams at a time
    Retention,  \* the days of history kept, in steps
    MaxStops    \* bound: runs of the job that stop half way

VARIABLES
    streams,    \* the rider's rows
    ping,       \* what each request has found
    prune,      \* the statement of the retention job that is next, 0 when none runs
    stops       \* runs that stopped

vars == <<streams, ping, prune, stops>>

-----------------------------------------------------------------------------
(* State *)

Age == 0 .. Retention + 1

\* Old enough to be dropped, whatever the exact age.
Oldest == Retention + 1

\* age: since started_at. last: of the newest captured_at, Oldest when no point is left.
Stream == [status : {"active", "ended"}, age : Age, last : Age]

NoStream == [status |-> "none", age |-> 0, last |-> Oldest]

NewStream == [status |-> "active", age |-> 0, last |-> Oldest]

\* What a request is about to do, and the stream it found.
Ping == {<<"idle">>, <<"create">>} \cup {<<"save", s>> : s \in Streams}

Idle == <<"idle">>

TypeOK ==
    /\ streams \in [Streams -> Stream \cup {NoStream}]
    /\ ping \in [Pings -> Ping]
    /\ prune \in 0 .. 3
    /\ stops \in 0 .. MaxStops

Init ==
    /\ streams = [s \in Streams |-> NoStream]
    /\ ping = [p \in Pings |-> Idle]
    /\ prune = 0
    /\ stops = 0

Active == {s \in Streams : streams[s].status = "active"}

-----------------------------------------------------------------------------
(* Pings *)

Newest == {s \in Active : \A t \in Active : streams[s].age <= streams[t].age}

\* activeStream looks for the newest active stream.
Find(p) ==
    /\ ping[p] = Idle
    /\ \/ \E s \in Newest : ping' = [ping EXCEPT ![p] = <<"save", s>>]
       \/ Active = {} /\ ping' = [ping EXCEPT ![p] = <<"create">>]
    /\ UNCHANGED <<streams, prune, stops>>

\* Two first pings at once open two.
Open(p) ==
    /\ ping[p] = <<"create">>
    /\ \E s \in Streams :
          /\ streams[s] = NoStream
          /\ \A q \in Pings : ping[q] # <<"save", s>>
          /\ streams' = [streams EXCEPT ![s] = NewStream]
          /\ ping' = [ping EXCEPT ![p] = <<"save", s>>]
    /\ UNCHANGED <<prune, stops>>

\* IngestLocation saves the point, which the app may have taken a while ago, unless
\* its stream was dropped.
SavePoint(p, taken) ==
    /\ ping[p][1] = "save"
    /\ LET s == ping[p][2] IN
       streams' = IF streams[s] = NoStream THEN streams
                  ELSE [streams EXCEPT ![s].last = Min({@, taken})]
    /\ ping' = [ping EXCEPT ![p] = Idle]
    /\ UNCHANGED <<prune, stops>>

\* An error, or the process stops.
Fail(p) ==
    /\ ping[p] # Idle
    /\ ping' = [ping EXCEPT ![p] = Idle]
    /\ UNCHANGED <<streams, prune, stops>>

\* EndStream ends every active stream of the rider.
EndStream ==
    /\ Active # {}
    /\ streams' = [s \in Streams |->
          IF s \in Active THEN [streams[s] EXCEPT !.status = "ended"] ELSE streams[s]]
    /\ UNCHANGED <<ping, prune, stops>>

-----------------------------------------------------------------------------
(* Retention: one replica a day *)

StartPrune ==
    /\ prune = 0
    /\ prune' = 1
    /\ UNCHANGED <<streams, ping, stops>>

\* The points that are too old go, unless the delete fails.
DropPoints ==
    /\ prune = 1
    /\ \/ streams' = [s \in Streams |->
             IF streams[s].last >= Retention THEN [streams[s] EXCEPT !.last = Oldest]
             ELSE streams[s]]
       \/ UNCHANGED streams
    /\ prune' = 2
    /\ UNCHANGED <<ping, stops>>

\* Fault: the points are joined, so that a stream without any does not show.
JoinedWithPoints(s) == streams[s].age >= 1 /\ streams[s].last \in 1 .. Retention

\* Started more than staleStreamAfter ago, and no point since.
Stale(s) == streams[s].age >= 1 /\ streams[s].last >= 1

EndStale ==
    /\ prune = 2
    /\ streams' = [s \in Streams |->
          IF s \in Active /\ Stale(s) THEN [streams[s] EXCEPT !.status = "ended"]
          ELSE streams[s]]
    /\ prune' = 3
    /\ UNCHANGED <<ping, stops>>

Forgotten(s) ==
    /\ streams[s].status = "ended"
    /\ streams[s].age >= Retention
    /\ streams[s].last = Oldest

DropStreams ==
    /\ prune = 3
    /\ streams' = [s \in Streams |-> IF Forgotten(s) THEN NoStream ELSE streams[s]]
    /\ prune' = 0
    /\ UNCHANGED <<ping, stops>>

StopPrune ==
    /\ prune # 0
    /\ stops < MaxStops
    /\ prune' = 0
    /\ stops' = stops + 1
    /\ UNCHANGED <<streams, ping>>

Older(age) == IF age = Oldest THEN Oldest ELSE age + 1

Tick ==
    /\ \E s \in Streams : streams[s] # NoStream /\ {streams[s].age, streams[s].last} # {Oldest}
    /\ streams' = [s \in Streams |->
          IF streams[s] = NoStream THEN NoStream
          ELSE [streams[s] EXCEPT !.age = Older(@), !.last = Older(@)]]
    /\ UNCHANGED <<ping, prune, stops>>

-----------------------------------------------------------------------------
(* Specification *)

Retain == StartPrune \/ DropPoints \/ EndStale \/ DropStreams

Next ==
    \/ \E p \in Pings :
          \/ Find(p)
          \/ Open(p)
          \/ \E taken \in Age : SavePoint(p, taken)
          \/ Fail(p)
    \/ EndStream
    \/ Retain
    \/ StopPrune
    \/ Tick

\* Time passes, and the job runs every day.
Fairness == WF_vars(Tick) /\ WF_vars(Retain)

Spec == Init /\ [][Next]_vars /\ Fairness

-----------------------------------------------------------------------------
(* Properties *)

\* A rider whose app is silent has in the end no active stream, even if two first
\* pings opened two, the request that opened one failed before its first point, or a
\* ping took so long that its stream was ended and dropped meanwhile (activeStream,
\* prune: "a rider who closed the app without ending the stream leaves it active
\* forever").
Silent == \A p \in Pings : ping[p] = Idle

StreamsEnd == []<>(Silent => Active = {})

=============================================================================
