------------------------------- MODULE Socket -------------------------------
(***************************************************************************)
(* net::Socket (src/net/socket.cpp): connect, recv, send and close over    *)
(* the event loop.                                                         *)
(*                                                                         *)
(* A call that has to wait registers its fd with a Waiter on its own stack *)
(* and pumps the loop.  Handlers that run meanwhile may use other sockets, *)
(* so the calls that have not returned form a stack, of which only the top *)
(* goes on, while the fds of all of them may become ready and all their    *)
(* deadlines may pass.  What the kernel answers is a choice; which error a *)
(* call returns is left out.                                               *)
(***************************************************************************)
EXTENDS Integers, Sequences, FiniteSets

CONSTANTS
    Socks, Fds, NoFd,
    MaxAddrs,           \* bound on the addresses of a host
    MaxCalls, MaxDepth  \* bounds: calls made, calls in progress

FdAssumption == NoFd \notin Fds
MaxAddrsAssumption == MaxAddrs \in Nat

VARIABLES
    fd,         \* fd_ of every socket, or NoFd
    connected,  \* connected_
    open,       \* the fds the process has open
    reg,        \* the loop's registrations
    calls,      \* the calls in progress, the innermost last
    made        \* calls made so far

vars == <<fd, connected, open, reg, calls, made>>

Init ==
    /\ fd = [s \in Socks |-> NoFd] /\ connected = [s \in Socks |-> FALSE]
    /\ open = {} /\ reg = {} /\ calls = << >> /\ made = 0

Top == calls[Len(calls)]
Below == SubSeq(calls, 1, Len(calls) - 1)
In(pc) == calls # << >> /\ Top.pc = pc
Late == Top.timed /\ Top.over
Goes(c) == calls' = Append(Below, c)
Returns == calls' = Below
InUse == {calls[i].s : i \in DOMAIN calls}

\* Handlers run while the innermost call pumps the loop; other code runs when
\* no call is in progress.
Pumping == In("connecting") \/ In("waiting")
Free(s) == s \notin InUse /\ (calls = << >> \/ Pumping)

\* A call on a socket that no other call is busy with, with a deadline or not.
Call(op, s, timed, pc, left) ==
    [op |-> op, s |-> s, timed |-> timed, over |-> FALSE, pc |-> pc, left |-> left,
     on |-> NoFd, ready |-> FALSE]
Enter(s) ==
    /\ Free(s) /\ Len(calls) < MaxDepth /\ made < MaxCalls
    /\ made' = made + 1

\* Socket::close.
close(s) ==
    /\ open' = open \ {fd[s]}
    /\ fd' = [fd EXCEPT ![s] = NoFd] /\ connected' = [connected EXCEPT ![s] = FALSE]

Close(s) ==
    /\ Free(s) /\ fd[s] # NoFd /\ close(s)
    /\ UNCHANGED <<reg, calls, made>>

\* Socket::open replaces the fd by a new one, if there is one.
Open(s, f) ==
    /\ Free(s) /\ f \notin open \ {fd[s]}
    /\ IF f = NoFd THEN close(s)
       ELSE /\ open' = (open \ {fd[s]}) \cup {f}
            /\ fd' = [fd EXCEPT ![s] = f] /\ connected' = [connected EXCEPT ![s] = FALSE]
    /\ UNCHANGED <<reg, calls, made>>

\* connect closes the socket and resolves the name, to n addresses or to none.
Connect(s, timed, n) ==
    /\ Enter(s) /\ close(s)
    /\ calls' = IF n = 0 THEN calls ELSE Append(calls, Call("connect", s, timed, "next", n))
    /\ UNCHANGED reg

\* The next address: none is left, or the deadline has passed.
NoMore ==
    /\ In("next") /\ (Top.left = 0 \/ Late) /\ Returns
    /\ UNCHANGED <<fd, connected, open, reg, made>>

\* There is an address to try.
Trying == In("next") /\ Top.left > 0 /\ ~Late

\* No fd for it, or connect() refuses at once and the fd is closed again.
AddressFails ==
    /\ Trying /\ Goes([Top EXCEPT !.left = @ - 1])
    /\ UNCHANGED <<fd, connected, open, reg, made>>

\* The connection is made: on success the socket owns the fd.
Connected(f) ==
    /\ fd' = [fd EXCEPT ![Top.s] = f] /\ connected' = [connected EXCEPT ![Top.s] = TRUE]
    /\ Returns

AtOnce(f) ==
    /\ Trying /\ f \notin open /\ open' = open \cup {f} /\ Connected(f)
    /\ UNCHANGED <<reg, made>>

\* EINPROGRESS: wait for it on the loop.
InProgress(f) ==
    /\ Trying /\ f \notin open /\ f \notin reg
    /\ open' = open \cup {f} /\ reg' = reg \cup {f}
    /\ Goes([Top EXCEPT !.left = @ - 1, !.pc = "connecting", !.on = f, !.ready = FALSE])
    /\ UNCHANGED <<fd, connected, made>>

\* The loop does not take the fd.
NotAdded ==
    /\ Trying /\ Returns
    /\ UNCHANGED <<fd, connected, open, reg, made>>

\* A mutant: a wait has no end but the event.
Pumped_WhenReady == Top.ready

\* pump_until is over: the fd is ready or the time is.
Pumped == Top.ready \/ Late

Forget == reg' = reg \ {Top.on}

\* A mutant: the fd of a failed attempt is left open.
Abandon_Open == UNCHANGED open

Abandon == open' = open \ {Top.on}

\* The wait of connect ends and SO_ERROR is read.
Finish(soerr) ==
    /\ In("connecting") /\ Pumped /\ Forget
    /\ IF ~soerr /\ Top.ready
       THEN Connected(Top.on) /\ UNCHANGED open
       ELSE /\ Abandon
            /\ Goes([Top EXCEPT !.pc = "next", !.on = NoFd, !.ready = FALSE])
            /\ UNCHANGED <<fd, connected>>
    /\ UNCHANGED made

\* recv and send.
Transfer(op, s, timed) ==
    /\ Enter(s)
    /\ calls' = IF fd[s] = NoFd THEN calls ELSE Append(calls, Call(op, s, timed, "io", 0))
    /\ UNCHANGED <<fd, connected, open, reg>>

\* One turn of their loop: the deadline, bytes, the end, an error, an fd
\* that the loop does not take ...
IoReturns ==
    /\ In("io") /\ Returns
    /\ UNCHANGED <<fd, connected, open, reg, made>>

\* ... or nothing yet: wait_fd_readable, wait_fd_writable.
IoWaits ==
    /\ In("io") /\ ~Late
    /\ reg' = reg \cup {fd[Top.s]}
    /\ Goes([Top EXCEPT !.pc = "waiting", !.on = fd[Top.s], !.ready = FALSE])
    /\ UNCHANGED <<fd, connected, open, made>>

IoWaited ==
    /\ In("waiting") /\ Pumped /\ Forget
    /\ IF Top.ready THEN Goes([Top EXCEPT !.pc = "io", !.on = NoFd, !.ready = FALSE]) ELSE Returns
    /\ UNCHANGED <<fd, connected, open, made>>

\* The loop calls on_fd for a registered fd: its Waiter is ready.
Event(i) ==
    /\ Pumping /\ calls[i].on \in reg /\ calls' = [calls EXCEPT ![i].ready = TRUE]
    /\ UNCHANGED <<fd, connected, open, reg, made>>

\* Time passes.
Expire(i) ==
    /\ calls[i].timed /\ calls' = [calls EXCEPT ![i].over = TRUE]
    /\ UNCHANGED <<fd, connected, open, reg, made>>

Step ==
    \/ NoMore \/ AddressFails \/ NotAdded \/ IoReturns \/ IoWaits \/ IoWaited
    \/ \E soerr \in BOOLEAN : Finish(soerr)
    \/ \E f \in Fds : AtOnce(f) \/ InProgress(f)

Next ==
    \/ Step
    \/ \E s \in Socks : Close(s) \/ \E f \in Fds \cup {NoFd} : Open(s, f)
    \/ \E s \in Socks, timed \in BOOLEAN :
          \/ \E n \in 0..MaxAddrs : Connect(s, timed, n)
          \/ \E op \in {"recv", "send"} : Transfer(op, s, timed)
    \/ \E i \in DOMAIN calls : Event(i) \/ Expire(i)

Spec == Init /\ [][Next]_vars

\* The caller runs and time passes; the peer owes nothing.
Fairness ==
    WF_vars(Step) /\ \A i \in 1..MaxDepth : WF_vars(i \in DOMAIN calls /\ Expire(i))
FairSpec == Spec /\ Fairness

-----------------------------------------------------------------------------
\* Every open fd has exactly one owner, a socket or the connect that tries it:
\* no failed, timed out or superseded attempt leaves one behind.
FdsAreOwned ==
    LET trying == {i \in DOMAIN calls : calls[i].pc = "connecting"} IN
    /\ open = {fd[s] : s \in {s \in Socks : fd[s] # NoFd}} \cup {calls[i].on : i \in trying}
    /\ \A s, t \in Socks : fd[s] # NoFd /\ fd[s] = fd[t] => s = t
    /\ \A i \in trying : \A s \in Socks : fd[s] # calls[i].on

\* What the loop has registered belongs to a call that still waits: the Waiter
\* an event writes to is on the stack of a call in progress, never of one that
\* has returned.
WaitersAreOnStack ==
    /\ reg \subseteq {calls[i].on : i \in DOMAIN calls}
    /\ \A i, j \in DOMAIN calls : calls[i].on # NoFd /\ calls[i].on = calls[j].on => i = j

\* A call with a deadline returns, if those nested in it have one: no wait
\* depends on the peer.
TimedCallsReturn ==
    \A d \in 1..MaxDepth :
        Len(calls) >= d /\ (\A i \in d..Len(calls) : calls[i].timed)
          ~> Len(calls) < d \/ \E i \in d..Len(calls) : ~calls[i].timed
=============================================================================
