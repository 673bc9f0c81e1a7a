-------------------------- MODULE ResourcesProofs --------------------------
(***************************************************************************)
(* What the proofs of the components say of the composition of             *)
(* MCResources.  A proof module is instantiated with the constants and     *)
(* variables the composition gives the component; its definitions and the  *)
(* ones the composition uses are the same formulas under two names, which  *)
(* is all that the lemmas have to show.  Every step of the composition is  *)
(* a step of the component or leaves it alone, so its theorems apply.      *)
(***************************************************************************)
EXTENDS MCResources, TLAPS

mcVars == <<part, vars, poolVars, offlineVars, fdVars, socketVars, arenaVars>>

-----------------------------------------------------------------------------
PLP == INSTANCE PoolProofs WITH closed <- pclosed, nested <- pnested

\* The two counts of the pool.
LEMMA PoolCounts == \A S : PL!Cardinality(S) = PLP!Cardinality(S)
  BY DEF PL!Cardinality, PLP!Cardinality

LEMMA PoolCrowded == \A s, k : PL!Crowded(s, k) = PLP!Crowded(s, k)
  BY PoolCounts DEF PL!Crowded, PLP!Crowded, PL!Of, PLP!Of

\* A step of the pool.
LEMMA PoolStep == PL!Next => PLP!Next
<1>1. \A k, n : PL!Reuse(k, n) => PLP!Reuse(k, n)
  BY Zenon DEF PL!Reuse, PL!Enters, PL!Transports, PL!add_inflight, PL!Freshest,
     PL!Without, PLP!Reuse, PLP!Enters, PLP!Transports, PLP!add_inflight,
     PLP!Freshest, PLP!Without
<1>2. \A k, n : PL!Acquire(k, n) => PLP!Acquire(k, n)
  BY Zenon DEF PL!Acquire, PL!Enters, PL!Transports, PL!Of, PLP!Acquire, PLP!Enters,
     PLP!Transports, PLP!Of
<1>3. PL!Proceed => PLP!Proceed
  BY DEF PL!Proceed, PL!Top, PL!HasSlot, PLP!Proceed, PLP!Top, PLP!HasSlot
<1>4. PL!WaitTimesOut => PLP!WaitTimesOut
  BY DEF PL!WaitTimesOut, PL!Top, PL!HasSlot, PL!Returns, PLP!WaitTimesOut,
     PLP!Top, PLP!HasSlot, PLP!Returns
<1>5. PL!Open => PLP!Open
  BY DEF PL!Open, PL!Top, PL!Returns, PL!add_inflight, PLP!Open, PLP!Top,
     PLP!Returns, PLP!add_inflight
<1>6. PL!OpenFails => PLP!OpenFails
  BY DEF PL!OpenFails, PL!Top, PL!Returns, PLP!OpenFails, PLP!Top, PLP!Returns
<1>7. \A h : PL!Park(h) => PLP!Park(h)
  BY Zenon, PoolCrowded DEF PL!Park, PL!Oldest, PL!Without, PLP!Park, PLP!Oldest,
     PLP!Without
<1>8. \A h, healthy : PL!Release(h, healthy) => PLP!Release(h, healthy)
  BY <1>7 DEF PL!Release, PL!Enters, PL!add_inflight, PL!Unhealthy,
     PLP!Release, PLP!Enters, PLP!add_inflight, PLP!Unhealthy
<1>9. PL!DropIdle => PLP!DropIdle
  BY DEF PL!DropIdle, PL!drop_idle, PL!Transports, PLP!DropIdle,
     PLP!drop_idle, PLP!Transports
<1>10. PL!Shutdown => PLP!Shutdown
  BY DEF PL!Shutdown, PL!drop_idle, PL!Transports, PLP!Shutdown,
     PLP!drop_idle, PLP!Transports
<1> QED
  BY <1>1, <1>2, <1>3, <1>4, <1>5, <1>6, <1>8, <1>9, <1>10 DEF PL!Next,
     PLP!Next

\* Every transport has one owner, the counts are exact and the limits of the
\* pool are kept (ConnectionPool), for every set of hosts and all limits.
THEOREM PoolStaysExact == MCSpec => []PoolIsExact
<1>1. MCInit => PLP!Init
  BY DEF MCInit, PL!Init, PLP!Init
<1>2. [MCNext]_mcVars => [PLP!Next]_(PLP!vars)
  BY PoolStep DEF MCNext, mcVars, poolVars, PLP!vars
<1>3. PLP!PoolAssumption
  BY Consts DEF PL!PoolAssumption, PLP!PoolAssumption
<1>4. PLP!Spec => [](PLP!OneOwner /\ PLP!CountIsExact /\ PLP!IdleIsBounded /\ PLP!CapacityIsBounded /\ PLP!IdleFits)
  BY <1>3, PLP!ConnectionsHaveOneOwner, PLP!CountsAreExact, PLP!PoolIsBounded,
     PTL
<1>5. PLP!OneOwner /\ PLP!CountIsExact /\ PLP!IdleIsBounded /\ PLP!CapacityIsBounded /\ PLP!IdleFits => PoolIsExact
  BY Zenon, PoolCounts DEF PoolIsExact, PL!OneOwner, PL!CountIsExact,
     PL!IdleIsBounded, PL!CapacityIsBounded, PL!IdleFits, PL!HeldFor,
     PL!HeldTransports, PL!Transports, PL!Of, PL!Sequential, PLP!OneOwner,
     PLP!CountIsExact, PLP!IdleIsBounded, PLP!CapacityIsBounded, PLP!IdleFits,
     PLP!HeldFor, PLP!HeldTransports, PLP!Transports, PLP!Of, PLP!Sequential
<1> QED
  BY <1>1, <1>2, <1>4, <1>5, PTL DEF MCSpec, PLP!Spec, mcVars

-----------------------------------------------------------------------------
NP == INSTANCE NetProofs WITH
          NoFd <- None, queue <- waiting, refused <- orefused, nested <- onested

\* A step of the offline queue.
LEMMA OfflineStep == OQ!Next => NP!OQ!Next
  BY DEF OQ!outcome, OQ!Enters, OQ!Check, OQ!HasRoom, OQ!New, OQ!enqueue,
     OQ!Enqueue, OQ!SubmitQueues, OQ!SubmitSends, OQ!Turn, OQ!Drain, OQ!Top,
     OQ!Below, OQ!SendOk, OQ!Requeue, OQ!SendFails, OQ!Clear, OQ!Next,
     OQ!Range, NP!OQ!outcome, NP!OQ!Enters, NP!OQ!Check, NP!OQ!HasRoom,
     NP!OQ!New, NP!OQ!enqueue, NP!OQ!Enqueue, NP!OQ!SubmitQueues,
     NP!OQ!SubmitSends, NP!OQ!Turn, NP!OQ!Drain, NP!OQ!Top, NP!OQ!Below,
     NP!OQ!SendOk, NP!OQ!Requeue, NP!OQ!SendFails, NP!OQ!Clear, NP!OQ!Next,
     NP!OQ!Range

\* No request is lost or sent twice, the replay is in order and the queue keeps
\* to its capacity (OfflineQueue), for every capacity.
THEOREM OfflineRequestsAreKept == MCSpec => []RequestsAreKept
<1>1. MCInit => NP!OQ!Init
  BY DEF MCInit, OQ!Init, NP!OQ!Init
<1>2. [MCNext]_mcVars => [NP!OQ!Next]_(NP!OQ!vars)
  BY OfflineStep DEF MCNext, mcVars, offlineVars, NP!OQ!vars
<1>3. NP!OQ!QueueAssumption
  BY Consts DEF OQ!QueueAssumption, NP!OQ!QueueAssumption
<1>4. NP!OQ!Spec => [](NP!OQ!NoneLostNoneTwice /\ NP!OQ!ReplayIsFifo /\ NP!OQ!QueueIsBounded)
  BY <1>3, NP!NothingIsLost, NP!ReplaysInOrder, NP!QueueStaysBounded, PTL
<1>5. NP!OQ!NoneLostNoneTwice /\ NP!OQ!ReplayIsFifo /\ NP!OQ!QueueIsBounded => RequestsAreKept
  BY Zenon DEF RequestsAreKept, OQ!NoneLostNoneTwice, OQ!ReplayIsFifo,
     OQ!QueueIsBounded, OQ!Sending, OQ!Increasing, OQ!Range, OQ!IsInjective,
     NP!OQ!NoneLostNoneTwice, NP!OQ!ReplayIsFifo, NP!OQ!QueueIsBounded,
     NP!OQ!Sending, NP!OQ!Increasing, NP!OQ!Range, NP!OQ!IsInjective
<1> QED
  BY <1>1, <1>2, <1>4, <1>5, PTL DEF MCSpec, NP!OQ!Spec, mcVars

-----------------------------------------------------------------------------
\* A step of the sockets.
LEMMA SocketStep == SK!Next => NP!Next
  BY ZenonT(30) DEF SK!Top, SK!Below, SK!In, SK!Late, SK!Goes, SK!Returns, SK!InUse,
     SK!Pumping, SK!Free, SK!Call, SK!Enter, SK!close, SK!Close, SK!Open,
     SK!Connect, SK!NoMore, SK!Trying, SK!AddressFails, SK!Connected,
     SK!AtOnce, SK!InProgress, SK!NotAdded, SK!Pumped, SK!Forget, SK!Abandon,
     SK!Finish, SK!Transfer, SK!IoReturns, SK!IoWaits, SK!IoWaited, SK!Event,
     SK!Expire, SK!Step, SK!Next, NP!Top, NP!Below, NP!In, NP!Late, NP!Goes,
     NP!Returns, NP!InUse, NP!Pumping, NP!Free, NP!Call, NP!Enter, NP!close,
     NP!Close, NP!Open, NP!Connect, NP!NoMore, NP!Trying, NP!AddressFails,
     NP!Connected, NP!AtOnce, NP!InProgress, NP!NotAdded, NP!Pumped,
     NP!Forget, NP!Abandon, NP!Finish, NP!Transfer, NP!IoReturns, NP!IoWaits,
     NP!IoWaited, NP!Event, NP!Expire, NP!Step, NP!Next

\* No fd is owned twice or left open, and no Waiter outlives its call (TcpSocket).
THEOREM SocketFdsAreOwned == MCSpec => []FdsAreOwned
<1>1. MCInit => NP!Init
  BY DEF MCInit, SK!Init, NP!Init
<1>2. [MCNext]_mcVars => [NP!Next]_(NP!vars)
  BY SocketStep DEF MCNext, mcVars, socketVars, NP!vars
<1>3. NP!FdAssumption /\ NP!MaxAddrsAssumption
  BY Consts DEF SK!FdAssumption, SK!MaxAddrsAssumption, NP!FdAssumption,
     NP!MaxAddrsAssumption
<1>4. NP!Spec => [](NP!FdsAreOwned /\ NP!WaitersAreOnStack)
  BY <1>3, NP!FdsHaveOneOwner, NP!WaitersStayOnStack, PTL
<1>5. NP!FdsAreOwned /\ NP!WaitersAreOnStack => FdsAreOwned
  BY Zenon DEF FdsAreOwned, SK!FdsAreOwned, SK!WaitersAreOnStack, NP!FdsAreOwned,
     NP!WaitersAreOnStack
<1> QED
  BY <1>1, <1>2, <1>4, <1>5, PTL DEF MCSpec, NP!Spec, mcVars

-----------------------------------------------------------------------------
CP == INSTANCE CoreProofs

\* A step of the event loop's registry.
LEMMA FdStep == FD!Next => CP!FD!Next
  BY DEF FD!Slot, FD!TakeSlot, FD!Put, FD!Add, FD!AddRefused, FD!Remove,
     FD!Next, CP!FD!Slot, CP!FD!TakeSlot, CP!FD!Put, CP!FD!Add,
     CP!FD!AddRefused, CP!FD!Remove, CP!FD!Next

\* The event loop's slots and its index agree (EventLoop::add, del).
THEOREM RegistrySlotsAgree == MCSpec => []SlotsAgree
<1>1. MCInit => CP!FD!Init
  BY DEF MCInit, FD!Init, CP!FD!Init
<1>2. [MCNext]_mcVars => [CP!FD!Next]_(CP!FD!vars)
  BY FdStep DEF MCNext, mcVars, fdVars, CP!FD!vars
<1>3. CP!FD!FdsAssumption /\ CP!FD!MaxRefusedAssumption
  BY Consts DEF FD!FdsAssumption, FD!MaxRefusedAssumption,
     CP!FD!FdsAssumption, CP!FD!MaxRefusedAssumption
<1>4. CP!FD!Spec => []CP!FD!SlotsAgree
  BY <1>3, CP!RegistryAgrees, CapAssumption, MaxPushAssumption
<1>5. CP!FD!SlotsAgree => SlotsAgree
  BY DEF SlotsAgree, FD!SlotsAgree, CP!FD!SlotsAgree
<1> QED
  BY <1>1, <1>2, <1>4, <1>5, PTL DEF MCSpec, CP!FD!Spec, mcVars

\* The two counts of the arena.
LEMMA ArenaCounts == \A S : AR!Cardinality(S) = CP!AR!Cardinality(S)
  BY DEF AR!Cardinality, CP!AR!Cardinality

\* A step of the arena.
LEMMA ArenaStep == AR!Next => CP!AR!Next
<1>1. ASSUME NEW n, NEW a PROVE AR!Bump(n, a) => CP!AR!Bump(n, a)
  BY ZenonT(30) DEF AR!Bump, AR!Fitting, AR!Taken, AR!Placed, AR!align_up, CP!AR!Bump,
     CP!AR!Fitting, CP!AR!Taken, CP!AR!Placed, CP!AR!align_up
<1>2. ASSUME NEW n, NEW a PROVE AR!Grow(n, a) => CP!AR!Grow(n, a)
  BY DEF AR!Grow, AR!Fitting, AR!Placed, AR!align_up, AR!Doubled, CP!AR!Grow,
     CP!AR!Fitting, CP!AR!Placed, CP!AR!align_up, CP!AR!Doubled
<1>3. ASSUME NEW n, NEW a PROVE AR!GrowFails(n, a) => CP!AR!GrowFails(n, a)
  BY DEF AR!GrowFails, AR!Fitting, AR!align_up, AR!Doubled, CP!AR!GrowFails,
     CP!AR!Fitting, CP!AR!align_up, CP!AR!Doubled
<1>4. ASSUME NEW n, NEW a, AR!Alloc(n, a) PROVE CP!AR!Alloc(n, a)
  BY <1>1, <1>2, <1>3, <1>4, ArenaCounts
  DEF AR!Alloc, AR!AtLeastOne, AR!Clamp, CP!AR!Alloc, CP!AR!AtLeastOne,
      CP!AR!Clamp
<1>5. (AR!reset => CP!AR!reset) /\ (AR!clear => CP!AR!clear)
  BY DEF AR!reset, AR!clear, AR!Emptied, CP!AR!reset, CP!AR!clear, CP!AR!Emptied
<1>6. ASSUME NEW b, AR!MovedFrom(b) PROVE CP!AR!MovedFrom(b)
  BY <1>6 DEF AR!MovedFrom, AR!Emptied, CP!AR!MovedFrom, CP!AR!Emptied
<1> QED
  BY <1>4, <1>5, <1>6 DEF AR!Next, CP!AR!Next

\* Allocations are disjoint, aligned and inside their blocks, and used_ counts
\* their bytes (Arena), for all sizes and alignments.
THEOREM ArenaIsDisjoint == MCSpec => []AllocsAreDisjoint
<1>1. MCInit => CP!AR!Init
  BY DEF MCInit, AR!Init, CP!AR!Init
<1>2. [MCNext]_mcVars => [CP!AR!Next]_(CP!AR!vars)
  BY ArenaStep DEF MCNext, mcVars, arenaVars, CP!AR!vars
<1>3. CP!AR!ArenaAssumption
  BY Consts DEF AR!ArenaAssumption, CP!AR!ArenaAssumption
<1>4. CP!AR!Spec => []CP!AR!AllocsAreDisjoint
  BY <1>3, CP!AllocationsAreDisjoint, CapAssumption, MaxPushAssumption
<1>5. CP!AR!AllocsAreDisjoint => AllocsAreDisjoint
  BY ArenaCounts DEF AllocsAreDisjoint, AR!AllocsAreDisjoint, AR!HandedOut,
     CP!AR!AllocsAreDisjoint, CP!AR!HandedOut
<1> QED
  BY <1>1, <1>2, <1>4, <1>5, PTL DEF MCSpec, CP!AR!Spec, mcVars
=============================================================================
