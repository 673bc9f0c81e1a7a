---------------------------- MODULE MCResources ----------------------------
(***************************************************************************)
(* The components that hand things over and must neither lose nor          *)
(* duplicate them, checked side by side: a behaviour belongs to one of     *)
(* them, chosen at the start, while the state of the others stays as it    *)
(* was.  The channel's module is extended, the others are instances.       *)
(***************************************************************************)
EXTENDS Channel

CONSTANTS Keys, MaxIdle, MaxInFlight, MaxOpen, MaxDepth, MaxShutdown,
          MaxQueue, MaxRequests, MaxSends,
          Fds, WakeFd, None, MaxRefused,
          Socks, MaxAddrs, MaxCalls,
          FirstChunk, DefaultChunk, MaxChunk, MinAlign, MaxAlign, Sizes, Aligns,
          MaxBlocks, MaxAllocs, MaxNextCap

VARIABLES
    part,
    idle, inflight, known, held, pclosed, opened, stack, shutdowns, pnested,
    state, waiting, sends, requests, replayed, sent, orefused, cleared, onested,
    slots, free_slots, fd_slot, frefused, called,
    fd, connected, open, reg, calls, made,
    blocks, cur, next_cap, used, live

poolVars    == <<idle, inflight, known, held, pclosed, opened, stack, shutdowns, pnested>>
offlineVars == <<state, waiting, sends, requests, replayed, sent, orefused, cleared, onested>>
fdVars      == <<slots, free_slots, fd_slot, frefused, called>>
socketVars  == <<fd, connected, open, reg, calls, made>>
arenaVars   == <<blocks, cur, next_cap, used, live>>

PL == INSTANCE Pool WITH closed <- pclosed, nested <- pnested
OQ == INSTANCE OfflineQueue WITH
          queue <- waiting, refused <- orefused, nested <- onested, MaxDepth <- MaxSends
FD == INSTANCE FdRegistry WITH refused <- frefused
SK == INSTANCE Socket WITH NoFd <- None
AR == INSTANCE Arena

ASSUME Consts ==
    /\ PL!PoolAssumption /\ PL!BoundsAssumption
    /\ OQ!QueueAssumption /\ OQ!BoundsAssumption
    /\ FD!FdsAssumption /\ FD!MaxRefusedAssumption
    /\ SK!FdAssumption /\ SK!MaxAddrsAssumption /\ AR!ArenaAssumption

MCInit ==
    /\ part \in {"channel", "pool", "offline", "fds", "socket", "arena"}
    /\ Init /\ PL!Init /\ OQ!Init /\ FD!Init /\ SK!Init /\ AR!Init
    /\ part # "channel" => ring[0] = CHOOSE m \in Msgs : TRUE

MCNext ==
    \/ part = "channel" /\ Next
       /\ UNCHANGED <<part, poolVars, offlineVars, fdVars, socketVars, arenaVars>>
    \/ part = "pool" /\ PL!Next
       /\ UNCHANGED <<part, vars, offlineVars, fdVars, socketVars, arenaVars>>
    \/ part = "offline" /\ OQ!Next
       /\ UNCHANGED <<part, vars, poolVars, fdVars, socketVars, arenaVars>>
    \/ part = "fds" /\ FD!Next
       /\ UNCHANGED <<part, vars, poolVars, offlineVars, socketVars, arenaVars>>
    \/ part = "socket" /\ SK!Next
       /\ UNCHANGED <<part, vars, poolVars, offlineVars, fdVars, arenaVars>>
    \/ part = "arena" /\ AR!Next
       /\ UNCHANGED <<part, vars, poolVars, offlineVars, fdVars, socketVars>>

\* The fairness of Channel, of OfflineQueue and of Socket, each for its own behaviours.
MCFairness ==
    /\ WF_vars(part = "channel" /\ Consume)
    /\ \A p \in Producers : WF_vars(part = "channel" /\ Wake(p))
    /\ WF_offlineVars(part = "offline" /\ OQ!Drain)
    /\ WF_offlineVars(part = "offline" /\ (OQ!SendOk \/ OQ!SendFails))
    /\ \A r \in 1 .. MaxRequests :
           SF_offlineVars(part = "offline" /\ sends # << >> /\ OQ!Top.req = r /\ OQ!SendOk)
    /\ WF_socketVars(part = "socket" /\ SK!Step)
    /\ \A i \in 1 .. MaxDepth :
           WF_socketVars(part = "socket" /\ i \in DOMAIN calls /\ SK!Expire(i))

MCSpec ==
    /\ MCInit
    /\ [][MCNext]_<<part, vars, poolVars, offlineVars, fdVars, socketVars, arenaVars>>
    /\ MCFairness

-----------------------------------------------------------------------------
\* Every transport has one owner, a caller, the idle list or nobody, and the
\* count of a host is the number its callers hold, however acquire and release
\* nest and wherever a connect fails.   No more than max_idle_per_host connections
\* of a host are kept unused, and without nested calls the pool keeps to
\* max_in_flight_per_host, idle transports included (ConnectionPool).
PoolIsExact ==
    PL!OneOwner /\ PL!CountIsExact /\ PL!IdleIsBounded /\ PL!CapacityIsBounded /\ PL!IdleFits

\* Every request is queued, being sent, sent once, refused or cleared; without
\* nested calls drain replays in order and the queue keeps to its capacity
\* (OfflineQueue).
RequestsAreKept == OQ!NoneLostNoneTwice /\ OQ!ReplayIsFifo /\ OQ!QueueIsBounded

\* What has been accepted is delivered: a message of the channel is popped or
\* dropped, and a queued request is sent unless it is cleared.
AcceptedIsDelivered == Delivered /\ OQ!QueuedIsSent

\* The event loop's slots and its index agree in both directions.
SlotsAgree == FD!SlotsAgree

\* Every open fd belongs to one socket or to the connect that tries it, and the
\* loop holds no Waiter of a call that has returned (TcpSocket).
FdsAreOwned == SK!FdsAreOwned /\ SK!WaitersAreOnStack

\* A socket call with a deadline returns, whatever the peer does.
TimedCallsReturn == SK!TimedCallsReturn

\* The arena's allocations are disjoint, aligned and inside their blocks.
AllocsAreDisjoint == AR!AllocsAreDisjoint
=============================================================================
