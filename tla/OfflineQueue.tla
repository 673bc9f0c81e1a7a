---------------------------- MODULE OfflineQueue ----------------------------
(***************************************************************************)
(* net::OfflineQueue (src/net/offline.cpp): the connectivity state and the *)
(* requests kept while the provider cannot be reached.                     *)
(*                                                                         *)
(* The callback that sends a request pumps the event loop.  Handlers that  *)
(* run meanwhile may use the queue too, so the sends that have not         *)
(* returned form a stack of which only the top can go on.                  *)
(***************************************************************************)
EXTENDS Integers, Sequences, Functions

CONSTANTS
    MaxQueue,             \* max_queue
    MaxRequests, MaxDepth \* bounds: requests, nested sends

QueueAssumption == MaxQueue \in Nat \ {0}
BoundsAssumption == MaxRequests \in Nat /\ MaxDepth \in Nat

VARIABLES
    state,     \* "online", "offline", "recovering"
    queue,     \* queue_
    sends,     \* the sends that have not returned: [by, req]
    requests,  \* number of requests so far: they are 1 .. requests
    replayed,  \* the requests drain has sent, in order
    sent,      \* the requests sent without being queued
    refused,   \* the requests whose caller was told of an error
    cleared,   \* the requests removed by clear
    nested     \* enqueue or drain has been called while a send was in progress

vars == <<state, queue, sends, requests, replayed, sent, refused, cleared, nested>>
outcome == <<replayed, sent, refused, cleared>>

Init ==
    /\ state = "online" /\ queue = << >> /\ sends = << >> /\ requests = 0
    /\ replayed = << >> /\ sent = {} /\ refused = {} /\ cleared = {}
    /\ nested = FALSE

\* A call of enqueue or drain, by the host or by a handler.
Enters == nested' = (nested \/ sends # << >>)

\* check: the probe's outcome moves the state.
Check(ok) ==
    /\ state' = IF ~ok THEN "offline"
                ELSE IF state = "offline" THEN "recovering"
                ELSE IF state = "recovering" /\ queue = << >> THEN "online" ELSE state
    /\ UNCHANGED <<queue, sends, requests, outcome, nested>>

HasRoom == Len(queue) < MaxQueue

New == requests < MaxRequests /\ requests' = requests + 1

\* enqueue, called by submit or by itself.
enqueue(r) ==
    IF HasRoom THEN queue' = Append(queue, r) /\ UNCHANGED refused
               ELSE refused' = refused \cup {r} /\ UNCHANGED queue

Enqueue ==
    /\ Enters /\ New /\ enqueue(requests + 1)
    /\ UNCHANGED <<state, sends, replayed, sent, cleared>>

SubmitQueues ==
    /\ Enters /\ New /\ state # "online" /\ enqueue(requests + 1)
    /\ UNCHANGED <<state, sends, replayed, sent, cleared>>

SubmitSends ==
    /\ New /\ state = "online" /\ Len(sends) < MaxDepth
    /\ sends' = Append(sends, [by |-> "submit", req |-> requests + 1])
    /\ UNCHANGED <<state, queue, outcome, nested>>

\* One turn of drain's loop, with q what is queued and s the other sends.
Turn(q, s) ==
    IF q = << >> THEN queue' = q /\ sends' = s /\ state' = "online"
    ELSE /\ queue' = Tail(q) /\ sends' = Append(s, [by |-> "drain", req |-> Head(q)])
         /\ UNCHANGED state

Drain ==
    /\ Enters /\ Len(sends) < MaxDepth /\ Turn(queue, sends)
    /\ UNCHANGED <<requests, outcome>>

Top == sends[Len(sends)]
Below == SubSeq(sends, 1, Len(sends) - 1)

\* The callback returns ok: drain goes on with the next one.
SendOk ==
    /\ sends # << >>
    /\ \/ /\ Top.by = "submit" /\ sent' = sent \cup {Top.req} /\ sends' = Below
          /\ UNCHANGED <<state, queue, replayed>>
       \/ /\ Top.by = "drain" /\ replayed' = Append(replayed, Top.req)
          /\ Turn(queue, Below) /\ UNCHANGED sent
    /\ UNCHANGED <<requests, refused, cleared, nested>>

\* Mutant: the request is not put back.
Requeue_Not(r) == UNCHANGED queue
Requeue(r) == queue' = <<r>> \o queue

\* The callback fails: drain puts the request back and stops, submit passes the
\* error on.
SendFails ==
    /\ sends # << >> /\ sends' = Below
    /\ \/ /\ Top.by = "submit" /\ refused' = refused \cup {Top.req}
          /\ UNCHANGED <<state, queue>>
       \/ /\ Top.by = "drain" /\ Requeue(Top.req) /\ state' = "offline"
          /\ UNCHANGED refused
    /\ UNCHANGED <<requests, replayed, sent, cleared, nested>>

Clear ==
    /\ queue # << >> /\ queue' = << >> /\ cleared' = cleared \cup Range(queue)
    /\ UNCHANGED <<state, sends, requests, replayed, sent, refused, nested>>

Next ==
    \/ \E ok \in BOOLEAN : Check(ok)
    \/ Enqueue \/ SubmitQueues \/ SubmitSends \/ Drain \/ SendOk \/ SendFails \/ Clear

Spec == Init /\ [][Next]_vars

\* The network and the host as one hopes for: probes and drains are repeated, and
\* a send that is tried again and again succeeds.
Fairness ==
    /\ WF_vars(Drain) /\ WF_vars(SendOk \/ SendFails)
    /\ \A r \in 1 .. MaxRequests : SF_vars(SendOk /\ sends # << >> /\ Top.req = r)

FairSpec == Spec /\ Fairness

-----------------------------------------------------------------------------
Sending == {sends[i].req : i \in DOMAIN sends}

\* Shapes; nested drains can put back one request each over the capacity.
TypeOK ==
    /\ state \in {"online", "offline", "recovering"}
    /\ requests \in 0 .. MaxRequests
    /\ sends \in Seq([by : {"submit", "drain"}, req : 1 .. requests])
    /\ queue \in Seq(1 .. requests) /\ Len(queue) <= MaxQueue + MaxDepth
    /\ replayed \in Seq(1 .. requests)
    /\ sent \cup refused \cup cleared \subseteq 1 .. requests /\ nested \in BOOLEAN

\* Every request is in exactly one place: queued, being sent, sent once, given
\* back to its caller with an error, or cleared.  None is lost or sent twice,
\* however the calls nest.
NoneLostNoneTwice ==
    /\ Range(queue) \cup Sending \cup Range(replayed) \cup sent \cup refused \cup cleared
       = 1 .. requests
    /\ IsInjective(queue) /\ IsInjective(replayed)
    /\ \A i, j \in DOMAIN sends : sends[i].req = sends[j].req => i = j
    /\ Range(queue) \cap (Sending \cup Range(replayed) \cup sent \cup refused \cup cleared) = {}
    /\ Sending \cap (Range(replayed) \cup sent \cup refused \cup cleared) = {}
    /\ Range(replayed) \cap (sent \cup refused \cup cleared) = {}
    /\ sent \cap (refused \cup cleared) = {} /\ refused \cap cleared = {}

Increasing(s) == \A i, j \in DOMAIN s : i < j => s[i] < s[j]

\* drain replays the requests in the order in which they were made, failures
\* and new requests in between notwithstanding, unless handlers use the queue
\* while a request is being sent.
ReplayIsFifo == ~nested => Increasing(replayed \o queue)

\* The queue is bounded by its capacity, unless handlers use it while a request
\* is being sent.
QueueIsBounded == ~nested => Len(queue) <= MaxQueue

\* ONLINE is reached from OFFLINE only after a probe has succeeded.
OnlineAfterProbe == [][state = "offline" => state' # "online"]_vars

\* Requests are never dropped: one that cannot be sent is kept, unless the queue
\* has no room for it.
SubmitKeeps == [][refused' # refused => ~HasRoom]_vars

\* A queued request is eventually sent, unless it is cleared.
QueuedIsSent ==
    \A r \in 1 .. MaxRequests : r \in Range(queue) ~> r \in Range(replayed) \cup cleared

=============================================================================
