-------------------------------- MODULE Pool --------------------------------
(***************************************************************************)
(* net::Pool (src/net/pool.cpp), the keep-alive connections per host.      *)
(*                                                                         *)
(* acquire blocks by pumping the event loop, both while it waits for a     *)
(* slot and while the opener connects.  Handlers that the loop runs        *)
(* meanwhile may use the pool too, so the calls of acquire that have not   *)
(* returned form a stack, of which only the top can go on.                 *)
(***************************************************************************)
EXTENDS Integers, Sequences, FiniteSets

CONSTANTS
    Keys,                  \* (host, port, tls)
    MaxIdle, MaxInFlight,  \* max_idle_per_host, max_in_flight_per_host
    MaxOpen, MaxDepth, MaxShutdown  \* bounds: transports, stack, shutdowns

PoolAssumption ==
    MaxIdle \in Nat /\ MaxInFlight \in Nat \ {0}
BoundsAssumption == MaxOpen \in Nat /\ MaxDepth \in Nat /\ MaxShutdown \in Nat

VARIABLES
    idle,      \* idle_: sequence of [t |-> transport, key |-> key], oldest first
    inflight,  \* inflight_, 0 where it has no entry
    known,     \* the keys that inflight_ has an entry for
    held,      \* the transports the callers own, with their keys
    closed,    \* the transports the pool has closed
    opened,    \* number of transports opened: they are 1 .. opened
    stack,     \* the acquires that have not returned: [key, pc]
    shutdowns,
    nested     \* acquire or release has been called while an acquire was in progress

vars == <<idle, inflight, known, held, closed, opened, stack, shutdowns, nested>>

Init ==
    /\ idle = << >> /\ inflight = [k \in Keys |-> 0] /\ known = {}
    /\ held = {} /\ closed = {} /\ opened = 0 /\ stack = << >> /\ shutdowns = 0
    /\ nested = FALSE

Transports(s) == {s[i].t : i \in DOMAIN s}
\* The transports of one host; they are distinct, so their number is the count of
\* the host's entries.
Of(s, k) == {s[i].t : i \in {j \in DOMAIN s : s[j].key = k}}
Without(s, i) == SubSeq(s, 1, i - 1) \o SubSeq(s, i + 1, Len(s))
HeldTransports == {h.t : h \in held}
HeldFor(k) == {h \in held : h.key = k}

\* add_inflight: a decrement of a key without an entry is ignored.
add_inflight(k, delta) ==
    IF k \in known \/ delta > 0
    THEN inflight' = [inflight EXCEPT ![k] = @ + delta] /\ known' = known \cup {k}
    ELSE UNCHANGED <<inflight, known>>

\* A call of acquire or release, by the host or by a handler.
Enters == nested' = (nested \/ stack # << >>)

\* The freshest idle transport for the host, if there is one.
Freshest(s, k) == {i \in DOMAIN s : s[i].key = k /\ \A j \in DOMAIN s : s[j].key = k => j <= i}

\* acquire finds an idle transport, once those that are too old, the first n,
\* are reaped.
Reuse(k, n) ==
    LET kept == SubSeq(idle, n + 1, Len(idle)) IN
    /\ Enters
    /\ \E i \in Freshest(kept, k) :
           /\ idle' = Without(kept, i)
           /\ held' = held \cup {[t |-> kept[i].t, key |-> k]}
    /\ closed' = closed \cup Transports(SubSeq(idle, 1, n))
    /\ add_inflight(k, 1)
    /\ UNCHANGED <<opened, stack, shutdowns>>

\* acquire finds none: it waits for a slot.
Acquire(k, n) ==
    LET kept == SubSeq(idle, n + 1, Len(idle)) IN
    /\ Enters /\ Len(stack) < MaxDepth /\ Of(kept, k) = {}
    /\ idle' = kept /\ closed' = closed \cup Transports(SubSeq(idle, 1, n))
    /\ stack' = Append(stack, [key |-> k, pc |-> "wait"])
    /\ UNCHANGED <<inflight, known, held, opened, shutdowns>>

Top == stack[Len(stack)]
Returns == stack' = SubSeq(stack, 1, Len(stack) - 1)

HasSlot(k) == inflight[k] < MaxInFlight

\* There is a slot: the opener is called.
Proceed ==
    /\ stack # << >> /\ Top.pc = "wait" /\ HasSlot(Top.key)
    /\ stack' = [stack EXCEPT ![Len(stack)].pc = "open"]
    /\ UNCHANGED <<idle, inflight, known, held, closed, opened, shutdowns, nested>>

\* acquire_wait_ms are over: e_net_timeout.
WaitTimesOut ==
    /\ stack # << >> /\ Top.pc = "wait" /\ ~HasSlot(Top.key) /\ Returns
    /\ UNCHANGED <<idle, inflight, known, held, closed, opened, shutdowns, nested>>

Open ==
    /\ stack # << >> /\ Top.pc = "open" /\ opened < MaxOpen /\ Returns
    /\ opened' = opened + 1
    /\ held' = held \cup {[t |-> opened + 1, key |-> Top.key]}
    /\ add_inflight(Top.key, 1)
    /\ UNCHANGED <<idle, closed, shutdowns, nested>>

\* The connection or the TLS handshake fails.
OpenFails ==
    /\ stack # << >> /\ Top.pc = "open" /\ Returns
    /\ UNCHANGED <<idle, inflight, known, held, closed, opened, shutdowns, nested>>

\* The host has more than max_idle_per_host.
Crowded(s, k) == Cardinality(Of(s, k)) > MaxIdle

Oldest(s, k) == {i \in DOMAIN s : s[i].key = k /\ \A j \in DOMAIN s : s[j].key = k => i <= j}

Unhealthy(h) ==
    closed' = closed \cup {h.t} /\ UNCHANGED idle

\* push_idle.  The loop that closes the oldest of the host has at most one to
\* close, by IdleIsBounded.
Park(h) ==
    LET s == Append(idle, h) IN
    IF Crowded(s, h.key)
    THEN \E i \in Oldest(s, h.key) : idle' = Without(s, i) /\ closed' = closed \cup {s[i].t}
    ELSE idle' = s /\ UNCHANGED closed

\* Mutant: the slot of a broken transport is not given back.
Release_Leaks(h, healthy) ==
    /\ Enters /\ h \in held /\ held' = held \ {h}
    /\ IF healthy THEN add_inflight(h.key, -1) /\ Park(h)
                  ELSE UNCHANGED <<inflight, known>> /\ Unhealthy(h)
    /\ UNCHANGED <<opened, stack, shutdowns>>

\* release, with a healthy and connected transport or not.
Release(h, healthy) ==
    /\ Enters /\ h \in held /\ held' = held \ {h}
    /\ add_inflight(h.key, -1)
    /\ IF healthy THEN Park(h) ELSE Unhealthy(h)
    /\ UNCHANGED <<opened, stack, shutdowns>>

drop_idle == closed' = closed \cup Transports(idle) /\ idle' = << >>

DropIdle ==
    /\ idle # << >> /\ drop_idle
    /\ UNCHANGED <<inflight, known, held, opened, stack, shutdowns, nested>>

Shutdown ==
    /\ shutdowns < MaxShutdown /\ shutdowns' = shutdowns + 1
    /\ drop_idle /\ inflight' = [k \in Keys |-> 0] /\ known' = {}
    /\ UNCHANGED <<held, opened, stack, nested>>

Next ==
    \/ \E k \in Keys, n \in 0 .. Len(idle) : Reuse(k, n) \/ Acquire(k, n)
    \/ Proceed \/ WaitTimesOut \/ Open \/ OpenFails
    \/ \E h \in held, healthy \in BOOLEAN : Release(h, healthy)
    \/ DropIdle \/ Shutdown

Spec == Init /\ [][Next]_vars

-----------------------------------------------------------------------------
Entries == [t : 1 .. MaxOpen, key : Keys]

\* Shapes of the pool; no count is larger than what was ever opened.
TypeOK ==
    /\ idle \in Seq(Entries) /\ held \subseteq Entries /\ closed \subseteq 1 .. opened
    /\ inflight \in [Keys -> -opened .. opened] /\ known \subseteq Keys /\ opened \in 0 .. MaxOpen
    /\ stack \in Seq([key : Keys, pc : {"wait", "open"}]) /\ shutdowns \in 0 .. MaxShutdown
    /\ nested \in BOOLEAN

\* Every transport has one owner: a caller, the idle list, or nobody once it is
\* closed.  In particular a corrupt stream is never handed out again, and no
\* open connection is forgotten.
OneOwner ==
    /\ \A i, j \in DOMAIN idle : idle[i].t = idle[j].t => i = j
    /\ \A g, h \in held : g.t = h.t => g = h
    /\ Transports(idle) \cup HeldTransports \cup closed = 1 .. opened
    /\ Transports(idle) \cap HeldTransports = {}
    /\ Transports(idle) \cap closed = {} /\ HeldTransports \cap closed = {}

\* No slot is lost or counted twice: a host's count is the number of transports
\* its callers hold, and after a shutdown, which forgets them, never more.
CountIsExact ==
    \A k \in Keys : /\ inflight[k] <= Cardinality(HeldFor(k))
                    /\ shutdowns = 0 => inflight[k] = Cardinality(HeldFor(k))

\* No more than max_idle_per_host connections of a host are kept open unused,
\* and none for a host they do not belong to.
IdleIsBounded == \A k \in Keys : Cardinality(Of(idle, k)) <= MaxIdle

\* The calls come one after the other, and shutdown, which forgets the
\* transports in use, has forgotten those of at most one round: a second one
\* lets what was open before the first come back beside what was opened since.
Sequential == ~nested /\ shutdowns <= 1

\* In-flight capacity per host is bounded (max_in_flight_per_host), unless
\* handlers acquire or release while an acquire is in progress: of two acquires
\* that connect at once each sees the last slot free, and a slot that is given
\* back to a waiting acquire leaves an idle transport that is reused unchecked.
CapacityIsBounded == Sequential => \A k \in Keys : inflight[k] <= MaxInFlight

\* With calls one after the other, the idle transports fit into the capacity
\* too, which is why a reused one needs no check.
IdleFits == Sequential => \A k \in Keys : inflight[k] + Cardinality(Of(idle, k)) <= MaxInFlight

=============================================================================
