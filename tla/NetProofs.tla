----------------------------- MODULE NetProofs -----------------------------
(***************************************************************************)
(* Proofs about the parts of src/net that call back into themselves: the   *)
(* sockets (Socket, extended) and the queue of requests made while the     *)
(* provider cannot be reached (OfflineQueue, OQ).                          *)
(*                                                                         *)
(* No fd is leaked or shared and no registration outlives its call, for    *)
(* every set of sockets and fds and however calls nest.  The invariant     *)
(* says what a call owns at each point of its code: an fd that it tries    *)
(* belongs to it alone, one that it waits on is its socket's own, and no   *)
(* two calls are on one socket.  It is stated of any F, O, R and C in the  *)
(* places of fd, open, reg and calls, as several actions do two of the     *)
(* elementary changes that it survives.                                    *)
(*                                                                         *)
(* No request of the offline queue is lost or sent twice, however calls    *)
(* nest, and without nested calls the queue is bounded and replayed in     *)
(* order, for every capacity and every number of requests.  The order      *)
(* needs a strengthening: the request that drain has in its hands stands   *)
(* between those replayed and those queued, and leaves room for its own    *)
(* return to the queue.                                                    *)
(***************************************************************************)
EXTENDS Socket, SequenceTheorems, TLAPS

\* The innermost of a stack, and the others.
Last(s) == s[Len(s)]
Front(s) == SubSeq(s, 1, Len(s) - 1)

CallSet ==
    [op : {"connect", "recv", "send"}, s : Socks, timed : BOOLEAN, over : BOOLEAN,
     pc : {"next", "connecting", "io", "waiting"}, left : Int, on : Fds \cup {NoFd}, ready : BOOLEAN]

Types(F, O, R, C) ==
    /\ F \in [Socks -> Fds \cup {NoFd}]
    /\ O \subseteq Fds /\ R \subseteq Fds /\ C \in Seq(CallSet)

\* What a call and its socket hold, by where the call is.
Holds(F, c) ==
    /\ c.pc = "next" => c.on = NoFd /\ F[c.s] = NoFd
    /\ c.pc = "connecting" => c.on \in Fds /\ F[c.s] = NoFd /\ \A s \in Socks : F[s] # c.on
    /\ c.pc = "io" => c.on = NoFd /\ F[c.s] \in Fds
    /\ c.pc = "waiting" => c.on \in Fds /\ F[c.s] = c.on

Tries(C, f) == \E i \in 1 .. Len(C) : C[i].pc = "connecting" /\ C[i].on = f

Alone(F, C) ==
    /\ \A i \in 1 .. Len(C) : Holds(F, C[i])
    /\ \A i, j \in 1 .. Len(C) : C[i].s = C[j].s => i = j
    /\ \A i, j \in 1 .. Len(C) : C[i].on # NoFd /\ C[i].on = C[j].on => i = j
    /\ \A s, t \in Socks : F[s] # NoFd /\ F[s] = F[t] => s = t

Accounted(F, O, R, C) ==
    /\ \A f \in Fds : f \in O <=> (\E s \in Socks : F[s] = f) \/ Tries(C, f)
    /\ \A f \in R : \E i \in 1 .. Len(C) : C[i].on = f

Sound(F, O, R, C) == Types(F, O, R, C) /\ Alone(F, C) /\ Accounted(F, O, R, C)

IInv == connected \in [Socks -> BOOLEAN] /\ Sound(fd, open, reg, calls)

-----------------------------------------------------------------------------
\* The invariant is what the two properties say, and more.
LEMMA Implied ==
    ASSUME FdAssumption, IInv
    PROVE  FdsAreOwned /\ WaitersAreOnStack
<1>1. DOMAIN calls = 1 .. Len(calls) /\ \A i \in 1 .. Len(calls) : calls[i] \in CallSet
  BY DEF IInv, Sound, Types
<1>2. ASSUME NEW i \in 1 .. Len(calls), calls[i].pc = "connecting"
      PROVE  calls[i].on \in Fds /\ \A s \in Socks : fd[s] # calls[i].on
  BY <1>2 DEF IInv, Sound, Alone, Holds
<1>3. WaitersAreOnStack
  BY <1>1 DEF WaitersAreOnStack, IInv, Sound, Alone, Accounted
<1>4. \A f \in open : (\E s \in {s \in Socks : fd[s] # NoFd} : fd[s] = f)
                        \/ \E i \in {i \in DOMAIN calls : calls[i].pc = "connecting"} : calls[i].on = f
  <2> SUFFICES ASSUME NEW f \in open
               PROVE  (\E s \in {s \in Socks : fd[s] # NoFd} : fd[s] = f)
                        \/ \E i \in {i \in DOMAIN calls : calls[i].pc = "connecting"} : calls[i].on = f
    OBVIOUS
  <2>1. f \in Fds /\ f # NoFd
    BY DEF IInv, Sound, Types, FdAssumption
  <2> QED
    BY <1>1, <2>1 DEF IInv, Sound, Accounted, Tries
<1>5. \A s \in Socks : fd[s] # NoFd => fd[s] \in open
  BY DEF IInv, Sound, Types, Accounted
<1>6. \A i \in 1 .. Len(calls) : calls[i].pc = "connecting" => calls[i].on \in open
  BY <1>2 DEF IInv, Sound, Accounted, Tries
<1>7. open = {fd[s] : s \in {s \in Socks : fd[s] # NoFd}}
               \cup {calls[i].on : i \in {i \in DOMAIN calls : calls[i].pc = "connecting"}}
  BY <1>1, <1>4, <1>5, <1>6
<1> QED
  BY <1>1, <1>2, <1>3, <1>7 DEF FdsAreOwned, IInv, Sound, Alone

-----------------------------------------------------------------------------
(* The stack of calls *)

\* Without the innermost call the others are where they were.
LEMMA FrontIs ==
    ASSUME NEW C \in Seq(CallSet), C # << >>
    PROVE  /\ Front(C) \in Seq(CallSet) /\ Len(C) \in Nat \ {0} /\ Len(Front(C)) = Len(C) - 1
           /\ Last(C) = C[Len(C)] /\ Last(C) \in CallSet
           /\ \A i \in 1 .. Len(C) - 1 : Front(C)[i] = C[i] /\ C[i] \in CallSet
<1> DEFINE n == Len(C)
<1>1. n \in Nat /\ n > 0
  OBVIOUS
<1>2. \A i \in 1 .. n : C[i] \in CallSet
  BY <1>1, ElementOfSeq
<1>3. Front(C) = SubSeq(C, 1, n - 1)
  BY DEF Front
<1>4. 1 \in Int /\ n - 1 \in Int /\ \A i \in 1 .. n - 1 : C[i] \in CallSet
  BY <1>1, <1>2
<1>5. Last(C) = C[n] /\ n \in 1 .. n
  BY <1>1 DEF Last
<1> HIDE DEF n
<1>6. /\ SubSeq(C, 1, n - 1) \in Seq(CallSet)
      /\ Len(SubSeq(C, 1, n - 1)) = IF 1 <= n - 1 THEN (n - 1) - 1 + 1 ELSE 0
      /\ \A i \in 1 .. (n - 1) - 1 + 1 : SubSeq(C, 1, n - 1)[i] = C[1 + i - 1]
  BY <1>4, SubSeqProperties
<1>7. Len(Front(C)) = n - 1 /\ \A i \in 1 .. n - 1 : Front(C)[i] = C[i]
  BY <1>1, <1>3, <1>6
<1> QED
  BY <1>1, <1>2, <1>3, <1>4, <1>5, <1>6, <1>7 DEF n

\* A call on top of the others.
LEMMA AppendIs ==
    ASSUME NEW C \in Seq(CallSet), NEW c \in CallSet
    PROVE  /\ Append(C, c) \in Seq(CallSet) /\ Append(C, c) # << >> /\ Len(C) \in Nat
           /\ Len(Append(C, c)) = Len(C) + 1 /\ Append(C, c)[Len(C) + 1] = c
           /\ \A i \in 1 .. Len(C) : Append(C, c)[i] = C[i] /\ C[i] \in CallSet
           /\ Last(Append(C, c)) = c /\ Front(Append(C, c)) = C
<1> DEFINE A == Append(C, c)
<1>1. Len(C) \in Nat /\ \A i \in 1 .. Len(C) : C[i] \in CallSet
  BY ElementOfSeq
<1>2. /\ A \in Seq(CallSet) /\ A # << >> /\ Len(A) = Len(C) + 1
      /\ \A i \in 1 .. Len(C) : A[i] = C[i]
      /\ A[Len(C) + 1] = c
  BY AppendProperties
<1> HIDE DEF A
<1>3. Last(A) = c
  BY <1>1, <1>2 DEF Last
<1>4. /\ Front(A) \in Seq(CallSet) /\ Len(Front(A)) = Len(A) - 1
      /\ \A i \in 1 .. Len(A) - 1 : Front(A)[i] = A[i]
  BY Zenon, <1>2, FrontIs
<1>5. Len(Front(A)) = Len(C) /\ \A i \in 1 .. Len(C) : Front(A)[i] = C[i]
  BY <1>1, <1>2, <1>4
<1>6. Front(A) = C
  BY <1>4, <1>5, SeqEqual
<1> QED
  BY <1>1, <1>2, <1>3, <1>6 DEF A

\* The innermost call goes on as c.
Replaced(C, c) == Append(Front(C), c)

\* Only the innermost call changes.
LEMMA ReplacedIs ==
    ASSUME NEW C \in Seq(CallSet), C # << >>, NEW c \in CallSet
    PROVE  /\ Replaced(C, c) \in Seq(CallSet) /\ Replaced(C, c) # << >>
           /\ Len(C) \in Nat \ {0} /\ Len(Replaced(C, c)) = Len(C) /\ Replaced(C, c)[Len(C)] = c
           /\ \A i \in 1 .. Len(C) - 1 : Replaced(C, c)[i] = C[i] /\ C[i] \in CallSet
           /\ Last(C) = C[Len(C)] /\ Last(C) \in CallSet
           /\ Last(Replaced(C, c)) = c /\ Front(Replaced(C, c)) = Front(C)
<1> DEFINE B == Front(C)
<1>1. /\ B \in Seq(CallSet) /\ Len(C) \in Nat \ {0} /\ Len(B) = Len(C) - 1
      /\ Last(C) = C[Len(C)] /\ Last(C) \in CallSet
      /\ \A i \in 1 .. Len(C) - 1 : B[i] = C[i] /\ C[i] \in CallSet
  BY FrontIs
<1> HIDE DEF B
<1>2. /\ Append(B, c) \in Seq(CallSet) /\ Append(B, c) # << >>
      /\ Len(Append(B, c)) = Len(B) + 1 /\ Append(B, c)[Len(B) + 1] = c
      /\ \A i \in 1 .. Len(B) : Append(B, c)[i] = B[i]
      /\ Last(Append(B, c)) = c /\ Front(Append(B, c)) = B
  BY <1>1, AppendIs
<1>3. Len(Append(B, c)) = Len(C) /\ Append(B, c)[Len(C)] = c
      /\ \A i \in 1 .. Len(C) - 1 : Append(B, c)[i] = C[i]
  BY <1>1, <1>2
<1> QED
  BY <1>1, <1>2, <1>3 DEF Replaced, B
-----------------------------------------------------------------------------
(* The elementary changes *)

\* A socket that no call is busy with gives up its fd and takes g.
LEMMA SetFd ==
    ASSUME FdAssumption, NEW F, NEW O, NEW R, NEW C, Sound(F, O, R, C),
           NEW s \in Socks, \A i \in 1 .. Len(C) : C[i].s # s,
           NEW g \in Fds \cup {NoFd}, g \notin O \ {F[s]}
    PROVE  Sound([F EXCEPT ![s] = g], (O \ {F[s]}) \cup ({g} \ {NoFd}), R, C)
<1> DEFINE G == [F EXCEPT ![s] = g]
           P == (O \ {F[s]}) \cup ({g} \ {NoFd})
<1>1. Types(F, O, R, C) /\ Alone(F, C) /\ Accounted(F, O, R, C)
  BY DEF Sound
<1>2. /\ G \in [Socks -> Fds \cup {NoFd}] /\ G[s] = g
      /\ \A t \in Socks : t # s => G[t] = F[t]
  BY <1>1 DEF Types
<1>3. \A i \in 1 .. Len(C) : C[i].s \in Socks
  <2>1. \A i \in 1 .. Len(C) : C[i] \in CallSet
    BY <1>1, ElementOfSeq DEF Types
  <2> QED
    BY <2>1 DEF CallSet
<1>4. \A t \in Socks : t # s /\ F[t] # NoFd => F[t] \in O \ {F[s]}
  BY <1>1 DEF Types, Alone, Accounted
<1>5. \A i \in 1 .. Len(C) : C[i].pc = "connecting" => C[i].on \in O \ {F[s]}
  <2> SUFFICES ASSUME NEW i \in 1 .. Len(C), C[i].pc = "connecting"
               PROVE  C[i].on \in O \ {F[s]}
    OBVIOUS
  <2>1. C[i].on \in Fds /\ F[s] # C[i].on
    BY <1>1 DEF Alone, Holds
  <2>2. Tries(C, C[i].on)
    BY DEF Tries
  <2> QED
    BY <1>1, <2>1, <2>2 DEF Accounted
<1>6. P \subseteq Fds
  BY <1>1 DEF Types
<1> HIDE DEF G
<1>7. ASSUME NEW i \in 1 .. Len(C)
      PROVE  Holds(G, C[i])
  <2>1. Holds(F, C[i]) /\ G[C[i].s] = F[C[i].s]
    BY <1>1, <1>2, <1>3 DEF Alone
  <2>2. C[i].pc = "connecting" => \A t \in Socks : G[t] # C[i].on
    BY <1>2, <1>5, <2>1 DEF Holds
  <2> QED
    BY <2>1, <2>2 DEF Holds
<1>8. \A t, u \in Socks : G[t] # NoFd /\ G[t] = G[u] => t = u
  BY <1>1, <1>2, <1>4 DEF Alone
<1>9. Alone(G, C)
  BY <1>1, <1>7, <1>8 DEF Alone
<1>10. \A f \in Fds : f \in P <=> (\E t \in Socks : G[t] = f) \/ Tries(C, f)
  <2> SUFFICES ASSUME NEW f \in Fds
               PROVE  f \in P <=> (\E t \in Socks : G[t] = f) \/ Tries(C, f)
    OBVIOUS
  <2>1. f # NoFd
    BY DEF FdAssumption
  <2>2. f \in O <=> (\E t \in Socks : F[t] = f) \/ Tries(C, f)
    BY <1>1 DEF Accounted
  <2>3. Tries(C, f) => f \in P
    BY <1>5 DEF Tries
  <2>4. ASSUME NEW t \in Socks, G[t] = f PROVE f \in P
    BY <1>2, <1>4, <2>1, <2>4
  <2>5. ASSUME f \in P PROVE (\E t \in Socks : G[t] = f) \/ Tries(C, f)
    BY <1>2, <2>2, <2>5
  <2> QED
    BY <2>3, <2>4, <2>5
<1> QED
  BY <1>1, <1>2, <1>6, <1>9, <1>10 DEF Sound, Types, Accounted, G

\* A call enters on a socket that no other is busy with.
LEMMA Push ==
    ASSUME FdAssumption, NEW F, NEW O, NEW R, NEW C, Sound(F, O, R, C),
           NEW c \in CallSet, \A i \in 1 .. Len(C) : C[i].s # c.s,
           Holds(F, c), c.pc \in {"next", "io"}
    PROVE  Sound(F, O, R, Append(C, c))
<1> DEFINE D == Append(C, c)
<1>1. Types(F, O, R, C) /\ Alone(F, C) /\ Accounted(F, O, R, C) /\ C \in Seq(CallSet)
  BY DEF Sound, Types
<1>2. /\ D \in Seq(CallSet) /\ Len(C) \in Nat /\ Len(D) = Len(C) + 1 /\ D[Len(C) + 1] = c
      /\ \A i \in 1 .. Len(C) : D[i] = C[i]
  BY <1>1, AppendIs
<1> HIDE DEF D
<1>3. c.on = NoFd /\ c.pc # "connecting"
  BY DEF Holds
<1>4. \A i \in 1 .. Len(D) : i \in 1 .. Len(C) \/ i = Len(C) + 1
  BY <1>2
<1>5. Alone(F, D)
  BY <1>1, <1>2, <1>3, <1>4 DEF Alone
<1>6. \A f \in Fds : Tries(D, f) <=> Tries(C, f)
  BY <1>2, <1>3, <1>4 DEF Tries
<1>7. \A f \in R : \E i \in 1 .. Len(D) : D[i].on = f
  BY <1>1, <1>2 DEF Accounted
<1> QED
  BY <1>1, <1>2, <1>5, <1>6, <1>7 DEF Sound, Types, Accounted, D

\* A call that waits for nothing returns.
LEMMA Pop ==
    ASSUME FdAssumption, NEW F, NEW O, NEW R, NEW C, Sound(F, O, R, C),
           C # << >>, Last(C).pc \in {"next", "io"}
    PROVE  /\ Sound(F, O, R, Front(C))
           /\ \A i \in 1 .. Len(Front(C)) : Front(C)[i].s # Last(C).s
           /\ Last(C).pc = "next" => F[Last(C).s] = NoFd
<1> DEFINE D == Front(C)
<1>1. Types(F, O, R, C) /\ Alone(F, C) /\ Accounted(F, O, R, C) /\ C \in Seq(CallSet)
  BY DEF Sound, Types
<1>2. /\ D \in Seq(CallSet) /\ Len(C) \in Nat \ {0} /\ Len(D) = Len(C) - 1
      /\ Last(C) = C[Len(C)]
      /\ \A i \in 1 .. Len(C) - 1 : D[i] = C[i]
  BY <1>1, FrontIs
<1> HIDE DEF D
<1>3. Holds(F, C[Len(C)])
  BY <1>1, <1>2 DEF Alone
<1>4. C[Len(C)].on = NoFd /\ C[Len(C)].pc # "connecting"
  BY <1>2, <1>3 DEF Holds
<1>5. \A i \in 1 .. Len(C) : i \in 1 .. Len(D) \/ i = Len(C)
  BY <1>2
<1>6. \A i \in 1 .. Len(D) : i \in 1 .. Len(C) /\ i # Len(C) /\ D[i] = C[i]
  BY <1>2
<1>7. Alone(F, D)
  BY <1>1, <1>6 DEF Alone
<1>8. \A f \in Fds : Tries(D, f) <=> Tries(C, f)
  BY <1>2, <1>4, <1>5, <1>6 DEF Tries
<1>9. \A f \in R : \E i \in 1 .. Len(D) : D[i].on = f
  <2> SUFFICES ASSUME NEW f \in R PROVE \E i \in 1 .. Len(D) : D[i].on = f
    OBVIOUS
  <2>1. f # NoFd
    BY <1>1 DEF Types, FdAssumption
  <2>2. PICK i \in 1 .. Len(C) : C[i].on = f
    BY <1>1 DEF Accounted
  <2> QED
    BY <1>4, <1>5, <1>6, <2>1, <2>2
<1>10. Sound(F, O, R, D)
  BY <1>1, <1>2, <1>7, <1>8, <1>9 DEF Sound, Types, Accounted
<1>11. \A i \in 1 .. Len(D) : D[i].s # Last(C).s
  BY <1>1, <1>2, <1>6 DEF Alone
<1> QED
  BY <1>2, <1>3, <1>10, <1>11 DEF Holds, D

\* The innermost call goes on with the same to hold.
LEMMA Go ==
    ASSUME FdAssumption, NEW F, NEW O, NEW R, NEW C, Sound(F, O, R, C), C # << >>,
           NEW c \in CallSet, c.s = Last(C).s, c.pc = Last(C).pc, c.on = Last(C).on
    PROVE  Sound(F, O, R, Replaced(C, c))
<1> DEFINE D == Replaced(C, c)
<1>1. Types(F, O, R, C) /\ Alone(F, C) /\ Accounted(F, O, R, C) /\ C \in Seq(CallSet)
  BY DEF Sound, Types
<1>2. /\ D \in Seq(CallSet) /\ Len(C) \in Nat \ {0} /\ Len(D) = Len(C) /\ D[Len(C)] = c
      /\ Last(C) = C[Len(C)]
      /\ \A i \in 1 .. Len(C) - 1 : D[i] = C[i]
  BY <1>1, ReplacedIs
<1> HIDE DEF D
<1>3. \A i \in 1 .. Len(C) : D[i].s = C[i].s /\ D[i].pc = C[i].pc /\ D[i].on = C[i].on
  BY <1>2
<1>4. Alone(F, D)
  BY <1>1, <1>2, <1>3 DEF Alone, Holds
<1>5. \A f \in Fds : Tries(D, f) <=> Tries(C, f)
  BY <1>2, <1>3 DEF Tries
<1>6. Types(F, O, R, D) /\ Accounted(F, O, R, D)
  BY <1>1, <1>2, <1>3, <1>5 DEF Types, Accounted
<1>7. Sound(F, O, R, D)
  BY <1>4, <1>6 DEF Sound
<1> QED
  BY <1>7 DEF D

\* The innermost call starts to wait for f: a new fd for connect, its
\* socket's own for recv and send.
LEMMA Waits ==
    ASSUME FdAssumption, NEW F, NEW O, NEW R, NEW C, Sound(F, O, R, C), C # << >>,
           NEW c \in CallSet, c.s = Last(C).s, NEW f \in Fds, c.on = f,
           \/ Last(C).pc = "next" /\ c.pc = "connecting" /\ f \notin O
           \/ Last(C).pc = "io" /\ c.pc = "waiting" /\ f = F[c.s]
    PROVE  Sound(F, O \cup {f}, R \cup {f}, Replaced(C, c))
<1> DEFINE D == Replaced(C, c)
<1>1. Types(F, O, R, C) /\ Alone(F, C) /\ Accounted(F, O, R, C) /\ C \in Seq(CallSet)
  BY DEF Sound, Types
<1>2. /\ D \in Seq(CallSet) /\ Len(C) \in Nat \ {0} /\ Len(D) = Len(C) /\ D[Len(C)] = c
      /\ Last(C) = C[Len(C)] /\ Last(C) \in CallSet
      /\ \A i \in 1 .. Len(C) - 1 : D[i] = C[i]
  BY <1>1, ReplacedIs
<1> HIDE DEF D
<1>3. \A i \in 1 .. Len(C) : i = Len(C) \/ i \in 1 .. Len(C) - 1
  BY <1>2
<1>4. Holds(F, Last(C)) /\ Last(C).on = NoFd /\ Last(C).s \in Socks /\ f # NoFd
  BY <1>1, <1>2 DEF Alone, Holds, CallSet, FdAssumption
<1>5. Holds(F, c)
  BY <1>1, <1>4 DEF Holds, Accounted
<1>6. ASSUME NEW i \in 1 .. Len(C) - 1 PROVE C[i].on # f
  <2>1. Holds(F, C[i]) /\ C[i] \in CallSet /\ C[i].s # c.s
    BY <1>1, <1>2, <1>3, ElementOfSeq DEF Alone
  <2>2. C[i].s \in Socks /\ C[i].pc \in {"next", "connecting", "io", "waiting"}
    BY <2>1 DEF CallSet
  <2>3. CASE C[i].pc \in {"next", "io"}
    BY <1>4, <2>1, <2>3 DEF Holds
  <2>4. CASE C[i].pc = "connecting"
    <3>1. Tries(C, C[i].on) /\ C[i].on \in Fds /\ \A t \in Socks : F[t] # C[i].on
      BY <1>2, <2>1, <2>4 DEF Tries, Holds
    <3> QED
      BY <1>1, <1>4, <3>1 DEF Accounted
  <2>5. CASE C[i].pc = "waiting"
    <3>1. C[i].on \in Fds /\ F[C[i].s] = C[i].on
      BY <2>1, <2>5 DEF Holds
    <3>2. C[i].on \in O
      BY <1>1, <2>2, <3>1 DEF Accounted
    <3>3. F[c.s] = f => C[i].s = c.s \/ C[i].on # f
      BY <1>1, <1>4, <2>2, <3>1 DEF Alone
    <3> QED
      BY <2>1, <3>2, <3>3
  <2> QED
    BY <2>2, <2>3, <2>4, <2>5
<1>7. Alone(F, D)
  <2>1. \A i \in 1 .. Len(D) : Holds(F, D[i])
    BY <1>1, <1>2, <1>3, <1>5 DEF Alone
  <2>2. \A i \in 1 .. Len(D) : D[i].s = C[i].s
    BY <1>2, <1>3
  <2>3. \A i, j \in 1 .. Len(D) : D[i].s = D[j].s => i = j
    BY <1>1, <1>2, <2>2 DEF Alone
  <2>4. \A i, j \in 1 .. Len(D) : D[i].on # NoFd /\ D[i].on = D[j].on => i = j
    BY <1>1, <1>2, <1>3, <1>6 DEF Alone
  <2> QED
    BY <1>1, <2>1, <2>3, <2>4 DEF Alone
<1>8. ASSUME NEW g \in Fds
      PROVE  g \in O \cup {f} <=> (\E s \in Socks : F[s] = g) \/ Tries(D, g)
  <2>1. g \in O <=> (\E s \in Socks : F[s] = g) \/ Tries(C, g)
    BY <1>1 DEF Accounted
  <2>2. Tries(C, g) => Tries(D, g)
    <3> SUFFICES ASSUME NEW i \in 1 .. Len(C), C[i].pc = "connecting", C[i].on = g
                 PROVE  Tries(D, g)
      BY DEF Tries
    <3>1. i # Len(C)
      BY <1>2
    <3> QED
      BY <1>2, <1>3, <3>1 DEF Tries
  <2>3. Tries(D, g) => Tries(C, g) \/ g = f
    BY <1>2, <1>3 DEF Tries
  <2>4. (\E s \in Socks : F[s] = f) \/ Tries(D, f)
    BY <1>2, <1>4 DEF Tries
  <2> QED
    BY <2>1, <2>2, <2>3, <2>4
<1>9. ASSUME NEW g \in R \cup {f} PROVE \E i \in 1 .. Len(D) : D[i].on = g
  <2>1. CASE g = f
    BY <1>2, <2>1
  <2>2. CASE g \in R /\ g # f
    <3>1. g # NoFd
      BY <1>1, <2>2 DEF Types, FdAssumption
    <3>2. PICK i \in 1 .. Len(C) : C[i].on = g
      BY <1>1, <2>2 DEF Accounted
    <3> QED
      BY <1>2, <1>3, <1>4, <3>1, <3>2
  <2> QED
    BY <2>1, <2>2
<1> QED
  BY <1>1, <1>2, <1>7, <1>8, <1>9 DEF Sound, Types, Accounted, D

\* The wait of the innermost call ends: connect gives up the fd it tried,
\* recv and send go on with the one they have.
LEMMA Wakes ==
    ASSUME FdAssumption, NEW F, NEW O, NEW R, NEW C, Sound(F, O, R, C), C # << >>,
           NEW c \in CallSet, c.s = Last(C).s, c.on = NoFd, NEW P,
           \/ Last(C).pc = "connecting" /\ c.pc = "next" /\ P = O \ {Last(C).on}
           \/ Last(C).pc = "waiting" /\ c.pc = "io" /\ P = O
    PROVE  /\ Sound(F, P, R \ {Last(C).on}, Replaced(C, c))
           /\ Last(C).on \in O
<1> DEFINE D == Replaced(C, c)
           f == Last(C).on
<1>1. Types(F, O, R, C) /\ Alone(F, C) /\ Accounted(F, O, R, C) /\ C \in Seq(CallSet)
  BY DEF Sound, Types
<1>2. /\ D \in Seq(CallSet) /\ Len(C) \in Nat \ {0} /\ Len(D) = Len(C) /\ D[Len(C)] = c
      /\ Last(C) = C[Len(C)] /\ Last(C) \in CallSet
      /\ \A i \in 1 .. Len(C) - 1 : D[i] = C[i]
  BY <1>1, ReplacedIs
<1> HIDE DEF D
<1>3. \A i \in 1 .. Len(C) : i = Len(C) \/ i \in 1 .. Len(C) - 1
  BY <1>2
<1>4. Holds(F, Last(C)) /\ f \in Fds /\ Last(C).s \in Socks /\ f # NoFd
  BY <1>1, <1>2 DEF Alone, Holds, CallSet, FdAssumption
<1>5. Holds(F, c)
  BY <1>4 DEF Holds
<1>6. \A i \in 1 .. Len(C) - 1 : C[i].on # f
  BY <1>1, <1>2, <1>4 DEF Alone
<1>7. f \in O
  BY <1>1, <1>2, <1>4 DEF Holds, Accounted, Tries
<1>8. Alone(F, D)
  <2>1. \A i \in 1 .. Len(D) : Holds(F, D[i])
    BY <1>1, <1>2, <1>3, <1>5 DEF Alone
  <2>2. \A i \in 1 .. Len(D) : D[i].s = C[i].s
    BY <1>2, <1>3
  <2>3. \A i, j \in 1 .. Len(D) : D[i].s = D[j].s => i = j
    BY <1>1, <1>2, <2>2 DEF Alone
  <2>4. \A i, j \in 1 .. Len(D) : D[i].on # NoFd /\ D[i].on = D[j].on => i = j
    BY <1>1, <1>2, <1>3 DEF Alone
  <2> QED
    BY <1>1, <2>1, <2>3, <2>4 DEF Alone
<1>9. ASSUME NEW g \in Fds
      PROVE  g \in P <=> (\E s \in Socks : F[s] = g) \/ Tries(D, g)
  <2>1. g \in O <=> (\E s \in Socks : F[s] = g) \/ Tries(C, g)
    BY <1>1 DEF Accounted
  <2>2. Tries(D, g) => Tries(C, g) /\ g # f
    BY <1>2, <1>3, <1>6 DEF Tries
  <2>3. Tries(C, g) /\ g # f => Tries(D, g)
    BY <1>2, <1>3 DEF Tries
  <2>4. CASE Last(C).pc = "connecting"
    <3>1. \A s \in Socks : F[s] # f
      BY <1>4, <2>4 DEF Holds
    <3>2. P = O \ {f}
      BY <2>4
    <3> QED
      BY <2>1, <2>2, <2>3, <3>1, <3>2
  <2>5. CASE Last(C).pc = "waiting"
    <3>1. P = O /\ F[Last(C).s] = f
      BY <1>4, <2>5 DEF Holds
    <3> QED
      BY <1>4, <2>1, <2>2, <2>3, <3>1
  <2> QED
    BY <2>4, <2>5
<1>10. ASSUME NEW g \in R \ {f} PROVE \E i \in 1 .. Len(D) : D[i].on = g
  <2>1. PICK i \in 1 .. Len(C) : C[i].on = g
    BY <1>1 DEF Accounted
  <2> QED
    BY <1>2, <1>3, <2>1
<1>11. P \subseteq Fds
  BY <1>1 DEF Types
<1> QED
  BY <1>1, <1>2, <1>7, <1>8, <1>9, <1>10, <1>11 DEF Sound, Types, Accounted, D

\* A call learns of an event or of the time, wherever on the stack it is.
LEMMA Touch ==
    ASSUME NEW F, NEW O, NEW R, NEW C, Sound(F, O, R, C), NEW i \in 1 .. Len(C),
           NEW c \in CallSet, c.s = C[i].s, c.pc = C[i].pc, c.on = C[i].on
    PROVE  Sound(F, O, R, [C EXCEPT ![i] = c])
<1> DEFINE D == [C EXCEPT ![i] = c]
<1>1. Types(F, O, R, C) /\ Alone(F, C) /\ Accounted(F, O, R, C) /\ C \in Seq(CallSet)
  BY DEF Sound, Types
<1>2. D \in Seq(CallSet) /\ Len(D) = Len(C) /\ \A j \in 1 .. Len(C) : D[j] = IF j = i THEN c ELSE C[j]
  BY <1>1, ExceptSeq
<1> HIDE DEF D
<1>3. \A j \in 1 .. Len(C) : D[j].s = C[j].s /\ D[j].pc = C[j].pc /\ D[j].on = C[j].on
  BY <1>2
<1>4. Alone(F, D)
  BY <1>1, <1>2, <1>3 DEF Alone, Holds
<1>5. \A f \in Fds : Tries(D, f) <=> Tries(C, f)
  BY <1>2, <1>3 DEF Tries
<1>6. Types(F, O, R, D) /\ Accounted(F, O, R, D)
  BY <1>1, <1>2, <1>3, <1>5 DEF Types, Accounted
<1>7. Sound(F, O, R, D)
  BY <1>4, <1>6 DEF Sound
<1> QED
  BY <1>7 DEF D

-----------------------------------------------------------------------------
(* The actions *)

\* What holds of the call on top, and of a socket that is free.
LEMMA Facts ==
    ASSUME IInv
    PROVE  /\ Sound(fd, open, reg, calls) /\ calls \in Seq(CallSet) /\ DOMAIN calls = 1 .. Len(calls)
           /\ fd \in [Socks -> Fds \cup {NoFd}] /\ open \subseteq Fds
           /\ connected \in [Socks -> BOOLEAN]
           /\ \A i \in 1 .. Len(calls) : calls[i] \in CallSet
           /\ \A s : Free(s) => \A i \in 1 .. Len(calls) : calls[i].s # s
           /\ calls # << >> => Top \in CallSet /\ Holds(fd, Top) /\ Top = Last(calls)
<1>1. calls \in Seq(CallSet) /\ Alone(fd, calls)
  BY DEF IInv, Sound, Types
<1>2. DOMAIN calls = 1 .. Len(calls) /\ \A i \in 1 .. Len(calls) : calls[i] \in CallSet
  BY <1>1, ElementOfSeq
<1>3. \A s : Free(s) => \A i \in 1 .. Len(calls) : calls[i].s # s
  BY <1>2 DEF Free, InUse
<1>4. calls # << >> => Top \in CallSet /\ Top = calls[Len(calls)] /\ Len(calls) \in 1 .. Len(calls)
  BY <1>1, FrontIs DEF Top
<1>5. calls # << >> => Holds(fd, Top)
  BY <1>1, <1>4 DEF Alone
<1> QED
  BY <1>1, <1>2, <1>3, <1>4, <1>5 DEF IInv, Sound, Types, Top, Last

\* The elementary change that the steps of a socket without a call make.
LEMMA Resets ==
    ASSUME FdAssumption, IInv, NEW s \in Socks, Free(s), NEW g \in Fds \cup {NoFd},
           g \notin open \ {fd[s]}
    PROVE  Sound([fd EXCEPT ![s] = g], (open \ {fd[s]}) \cup ({g} \ {NoFd}), reg, calls)
BY Zenon, Facts, SetFd

\* close keeps the invariant.
LEMMA CloseKeeps ==
    ASSUME FdAssumption, IInv, NEW s \in Socks, Close(s)
    PROVE  IInv'
<1>1. NoFd \notin open /\ ({NoFd} \ {NoFd}) = {}
  BY Facts DEF FdAssumption
<1>2. Sound([fd EXCEPT ![s] = NoFd], (open \ {fd[s]}) \cup ({NoFd} \ {NoFd}), reg, calls)
  BY <1>1, Resets DEF Close
<1>3. (open \ {fd[s]}) \cup ({NoFd} \ {NoFd}) = open \ {fd[s]}
  OBVIOUS
<1>4. Sound(fd', open', reg', calls')
  BY Zenon, <1>2, <1>3 DEF Close, close
<1> QED
  BY <1>4, Facts DEF IInv, Close, close

\* open keeps the invariant, whether there is an fd or not.
LEMMA OpenKeeps ==
    ASSUME FdAssumption, IInv, NEW s \in Socks, NEW f \in Fds \cup {NoFd}, Open(s, f)
    PROVE  IInv'
<1>1. Sound([fd EXCEPT ![s] = f], (open \ {fd[s]}) \cup ({f} \ {NoFd}), reg, calls)
  BY Resets DEF Open
<1>2. fd' = [fd EXCEPT ![s] = f] /\ open' = (open \ {fd[s]}) \cup ({f} \ {NoFd})
        /\ connected' = [connected EXCEPT ![s] = FALSE]
  BY DEF Open, close
<1>3. Sound(fd', open', reg', calls')
  BY <1>1, <1>2 DEF Open
<1> QED
  BY <1>2, <1>3, Facts DEF IInv

\* connect closes the socket and enters.
LEMMA ConnectKeeps ==
    ASSUME FdAssumption, MaxAddrsAssumption, IInv, NEW s \in Socks, NEW timed \in BOOLEAN,
           NEW n \in 0 .. MaxAddrs, Connect(s, timed, n)
    PROVE  IInv'
<1> DEFINE c == Call("connect", s, timed, "next", n)
<1>1. Free(s) /\ close(s) /\ reg' = reg
  BY DEF Connect, Enter
<1>2. NoFd \notin open
  BY Facts DEF FdAssumption
<1>3. Sound([fd EXCEPT ![s] = NoFd], (open \ {fd[s]}) \cup ({NoFd} \ {NoFd}), reg, calls)
  BY <1>1, <1>2, Resets
<1>4. (open \ {fd[s]}) \cup ({NoFd} \ {NoFd}) = open \ {fd[s]}
  OBVIOUS
<1>5. Sound(fd', open', reg', calls)
  BY <1>1, <1>3, <1>4 DEF close
<1>6. c \in CallSet /\ c.s = s /\ c.on = NoFd /\ c.pc = "next"
  BY DEF CallSet, Call, MaxAddrsAssumption
<1>7. Holds(fd', c)
  BY <1>1, <1>6, Facts DEF Holds, close
<1> HIDE DEF c
<1>8. \A i \in 1 .. Len(calls) : calls[i].s # c.s
  BY <1>1, <1>6, Facts
<1>9. Sound(fd', open', reg', Append(calls, c))
  BY <1>5, <1>6, <1>7, <1>8, Push
<1>10. Sound(fd', open', reg', calls')
  BY <1>5, <1>9 DEF Connect, c
<1> QED
  BY <1>1, <1>10, Facts DEF IInv, close

\* recv and send enter if the socket has an fd.
LEMMA TransferKeeps ==
    ASSUME FdAssumption, IInv, NEW op \in {"recv", "send"}, NEW s \in Socks, NEW timed \in BOOLEAN,
           Transfer(op, s, timed)
    PROVE  IInv'
<1> DEFINE c == Call(op, s, timed, "io", 0)
<1>1. Free(s) /\ fd' = fd /\ open' = open /\ reg' = reg /\ connected' = connected
  BY DEF Transfer, Enter
<1>2. CASE fd[s] = NoFd
  BY <1>1, <1>2, Facts DEF Transfer, IInv
<1>3. CASE fd[s] # NoFd
  <2>1. c \in CallSet /\ c.s = s /\ c.on = NoFd /\ c.pc = "io"
    BY DEF CallSet, Call
  <2>2. Holds(fd, c)
    BY <1>3, <2>1, Facts DEF Holds
  <2> HIDE DEF c
  <2>3. \A i \in 1 .. Len(calls) : calls[i].s # c.s
    BY <1>1, <2>1, Facts
  <2>4. Sound(fd, open, reg, Append(calls, c))
    BY <2>1, <2>2, <2>3, Facts, Push
  <2> QED
    BY <1>1, <1>3, <2>4, Facts DEF Transfer, IInv, c
<1> QED
  BY <1>2, <1>3

\* A call that only returns.
LEMMA ReturnKeeps ==
    ASSUME FdAssumption, IInv, NoMore \/ NotAdded \/ IoReturns
    PROVE  IInv'
<1>1. calls # << >> /\ Last(calls).pc \in {"next", "io"} /\ calls' = Front(calls)
        /\ UNCHANGED <<fd, connected, open, reg>>
  BY DEF NoMore, NotAdded, IoReturns, Trying, In, Top, Returns, Below, Last, Front
<1>2. Sound(fd, open, reg, Front(calls))
  BY <1>1, Facts, Pop
<1> QED
  BY <1>1, <1>2, Facts DEF IInv

\* An address that fails at once leaves no fd.
LEMMA AddressFailsKeeps ==
    ASSUME FdAssumption, IInv, AddressFails
    PROVE  IInv'
<1> DEFINE c == [Top EXCEPT !.left = @ - 1]
<1>1. calls # << >> /\ calls' = Replaced(calls, c) /\ UNCHANGED <<fd, connected, open, reg>>
  BY DEF AddressFails, Trying, In, Goes, Replaced, Below, Front
<1>2. Top \in CallSet /\ Top = Last(calls)
  BY <1>1, Facts
<1>3. c \in CallSet /\ c.s = Top.s /\ c.pc = Top.pc /\ c.on = Top.on
  BY <1>2 DEF CallSet
<1> HIDE DEF c
<1>4. Sound(fd, open, reg, Replaced(calls, c))
  BY <1>1, <1>2, <1>3, Facts, Go
<1> QED
  BY <1>1, <1>4, Facts DEF IInv

\* An attempt in progress owns a new fd and waits on it.
LEMMA InProgressKeeps ==
    ASSUME FdAssumption, IInv, NEW f \in Fds, InProgress(f)
    PROVE  IInv'
<1> DEFINE c == [Top EXCEPT !.left = @ - 1, !.pc = "connecting", !.on = f, !.ready = FALSE]
<1>1. calls # << >> /\ calls' = Replaced(calls, c) /\ UNCHANGED <<fd, connected>>
        /\ Top.pc = "next" /\ f \notin open /\ open' = open \cup {f} /\ reg' = reg \cup {f}
  BY DEF InProgress, Trying, In, Goes, Replaced, Below, Front
<1>2. Top \in CallSet /\ Top = Last(calls)
  BY <1>1, Facts
<1>3. c \in CallSet /\ c.s = Top.s /\ c.pc = "connecting" /\ c.on = f
  <2> DEFINE b == [Top EXCEPT !.left = @ - 1]
  <2>1. b \in CallSet /\ b.s = Top.s
    BY <1>2 DEF CallSet
  <2>2. c = [b EXCEPT !.pc = "connecting", !.on = f, !.ready = FALSE]
    OBVIOUS
  <2> HIDE DEF b, c
  <2> QED
    BY Zenon, <2>1, <2>2 DEF CallSet
<1> HIDE DEF c
<1>4. Sound(fd, open \cup {f}, reg \cup {f}, Replaced(calls, c))
  BY <1>1, <1>2, <1>3, Facts, Waits
<1> QED
  BY <1>1, <1>4, Facts DEF IInv

\* recv and send wait on the socket's own fd.
LEMMA IoWaitsKeeps ==
    ASSUME FdAssumption, IInv, IoWaits
    PROVE  IInv'
<1> DEFINE f == fd[Top.s]
           c == [Top EXCEPT !.pc = "waiting", !.on = fd[Top.s], !.ready = FALSE]
<1>1. calls # << >> /\ calls' = Replaced(calls, c) /\ UNCHANGED <<fd, connected, open>>
        /\ Top.pc = "io" /\ reg' = reg \cup {f}
  BY DEF IoWaits, In, Goes, Replaced, Below, Front
<1>2. Top \in CallSet /\ Top = Last(calls) /\ Holds(fd, Top)
  BY <1>1, Facts
<1>3. Top.s \in Socks /\ f \in Fds
  BY <1>1, <1>2 DEF CallSet, Holds
<1>4. f \in open
  BY <1>3, Facts DEF Sound, Accounted
<1>5. c \in CallSet /\ c.s = Top.s /\ c.pc = "waiting" /\ c.on = f
  BY Zenon, <1>2, <1>3 DEF CallSet
<1> HIDE DEF c
<1>6. Sound(fd, open \cup {f}, reg \cup {f}, Replaced(calls, c))
  BY <1>1, <1>2, <1>3, <1>5, Facts, Waits
<1>7. open \cup {f} = open
  BY <1>4
<1> QED
  BY Zenon, <1>1, <1>6, <1>7, Facts DEF IInv

\* A successful connect returns: the attempt is over and its socket, which had
\* none, takes the fd.
LEMMA Takes ==
    ASSUME FdAssumption, NEW O, NEW R, NEW C, Sound(fd, O, R, C), C # << >>,
           Last(C).pc = "next", Last(C) \in CallSet, NEW f \in Fds, f \notin O
    PROVE  Sound([fd EXCEPT ![Last(C).s] = f], O \cup {f}, R, Front(C))
<1> DEFINE s == Last(C).s
<1>1. /\ Sound(fd, O, R, Front(C)) /\ \A i \in 1 .. Len(Front(C)) : Front(C)[i].s # s
      /\ fd[s] = NoFd
  BY Zenon, Pop
<1>2. s \in Socks /\ O \subseteq Fds
  BY DEF CallSet, Sound, Types
<1> HIDE DEF s
<1>3. Sound([fd EXCEPT ![s] = f], (O \ {fd[s]}) \cup ({f} \ {NoFd}), R, Front(C))
  BY <1>1, <1>2, SetFd
<1>4. (O \ {fd[s]}) \cup ({f} \ {NoFd}) = O \cup {f}
  BY <1>1, <1>2 DEF FdAssumption
<1> QED
  BY Zenon, <1>3, <1>4 DEF s

\* A connection made at once.
LEMMA AtOnceKeeps ==
    ASSUME FdAssumption, IInv, NEW f \in Fds, AtOnce(f)
    PROVE  IInv'
<1>1. calls # << >> /\ calls' = Front(calls) /\ f \notin open /\ open' = open \cup {f}
        /\ Top.pc = "next" /\ reg' = reg /\ fd' = [fd EXCEPT ![Top.s] = f]
        /\ connected' = [connected EXCEPT ![Top.s] = TRUE]
  BY DEF AtOnce, Trying, In, Connected, Returns, Below, Front
<1>2. Top \in CallSet /\ Top = Last(calls)
  BY <1>1, Facts
<1>3. Sound([fd EXCEPT ![Top.s] = f], open \cup {f}, reg, Front(calls))
  BY Zenon, <1>1, <1>2, Facts, Takes
<1> QED
  BY Zenon, <1>1, <1>3, Facts DEF IInv

\* The wait of connect ends, with the fd taken or given up.
LEMMA FinishKeeps ==
    ASSUME FdAssumption, IInv, NEW soerr \in BOOLEAN, Finish(soerr)
    PROVE  IInv'
<1> DEFINE c == [Top EXCEPT !.pc = "next", !.on = NoFd, !.ready = FALSE]
           C == Replaced(calls, c)
           f == Top.on
<1>1. calls # << >> /\ Top.pc = "connecting" /\ reg' = reg \ {f}
  BY DEF Finish, In, Forget
<1>2. Top \in CallSet /\ Top = Last(calls) /\ Holds(fd, Top) /\ calls \in Seq(CallSet)
  BY <1>1, Facts
<1>3. f \in Fds
  BY <1>1, <1>2 DEF Holds
<1>4. c \in CallSet /\ c.s = Top.s /\ c.pc = "next" /\ c.on = NoFd
  BY Zenon, <1>2 DEF CallSet
<1> HIDE DEF c
<1>5. Sound(fd, open \ {f}, reg \ {f}, C) /\ f \in open
  BY Zenon, <1>1, <1>2, <1>4, Facts, Wakes
<1>6. CASE ~soerr /\ Top.ready
  <2>1. open' = open /\ calls' = Front(calls) /\ fd' = [fd EXCEPT ![Top.s] = f]
          /\ connected' = [connected EXCEPT ![Top.s] = TRUE]
    BY <1>6 DEF Finish, Connected, Returns, Below, Front
  <2>2. C # << >> /\ Last(C) = c /\ Front(C) = Front(calls)
    BY <1>1, <1>2, <1>4, ReplacedIs
  <2>3. Sound([fd EXCEPT ![Top.s] = f], (open \ {f}) \cup {f}, reg \ {f}, Front(calls))
    BY <1>3, <1>4, <1>5, <2>2, Takes
  <2>4. (open \ {f}) \cup {f} = open
    BY <1>5
  <2> QED
    BY Zenon, <1>1, <2>1, <2>3, <2>4, Facts DEF IInv
<1>7. CASE ~(~soerr /\ Top.ready)
  <2>1. open' = open \ {f} /\ calls' = C /\ UNCHANGED <<fd, connected>>
    BY <1>7 DEF Finish, Abandon, Goes, Replaced, c, Below, Front
  <2> QED
    BY <1>1, <1>5, <2>1, Facts DEF IInv
<1> QED
  BY <1>6, <1>7

\* The wait of recv or send ends, in another turn or a return.
LEMMA IoWaitedKeeps ==
    ASSUME FdAssumption, IInv, IoWaited
    PROVE  IInv'
<1> DEFINE c == [Top EXCEPT !.pc = "io", !.on = NoFd, !.ready = FALSE]
           C == Replaced(calls, c)
<1>1. calls # << >> /\ Top.pc = "waiting" /\ reg' = reg \ {Top.on} /\ UNCHANGED <<fd, connected, open>>
  BY DEF IoWaited, In, Forget
<1>2. Top \in CallSet /\ Top = Last(calls) /\ calls \in Seq(CallSet)
  BY <1>1, Facts
<1>3. c \in CallSet /\ c.s = Top.s /\ c.pc = "io" /\ c.on = NoFd
  BY Zenon, <1>2 DEF CallSet
<1>4. calls' = C \/ calls' = Front(calls)
  BY DEF IoWaited, Goes, Returns, Replaced, Below, Front
<1> HIDE DEF c
<1>5. Sound(fd, open, reg \ {Top.on}, C)
  BY <1>1, <1>2, <1>3, Facts, Wakes
<1>6. C # << >> /\ Last(C) = c /\ Front(C) = Front(calls)
  BY <1>1, <1>2, <1>3, ReplacedIs
<1>7. Sound(fd, open, reg \ {Top.on}, Front(C))
  BY <1>3, <1>5, <1>6, Pop
<1> QED
  BY <1>1, <1>4, <1>5, <1>6, <1>7, Facts DEF IInv

\* Events and the time change neither what calls hold nor where they are.
LEMMA EventKeeps ==
    ASSUME IInv, NEW i \in DOMAIN calls, Event(i) \/ Expire(i)
    PROVE  IInv'
<1>1. i \in 1 .. Len(calls) /\ calls[i] \in CallSet
  BY Facts
<1>2. UNCHANGED <<fd, connected, open, reg>>
  BY DEF Event, Expire
<1>3. PICK c \in CallSet : c.s = calls[i].s /\ c.pc = calls[i].pc /\ c.on = calls[i].on
                            /\ calls' = [calls EXCEPT ![i] = c]
  <2>1. CASE Event(i)
    <3> DEFINE c == [calls[i] EXCEPT !.ready = TRUE]
    <3>1. c \in CallSet /\ c.s = calls[i].s /\ c.pc = calls[i].pc /\ c.on = calls[i].on
      BY Zenon, <1>1 DEF CallSet
    <3>2. calls' = [calls EXCEPT ![i] = c]
      BY <2>1 DEF Event
    <3> QED
      BY Zenon, <3>1, <3>2
  <2>2. CASE Expire(i)
    <3> DEFINE c == [calls[i] EXCEPT !.over = TRUE]
    <3>1. c \in CallSet /\ c.s = calls[i].s /\ c.pc = calls[i].pc /\ c.on = calls[i].on
      BY Zenon, <1>1 DEF CallSet
    <3>2. calls' = [calls EXCEPT ![i] = c]
      BY <2>2 DEF Expire
    <3> QED
      BY Zenon, <3>1, <3>2
  <2> QED
    BY <2>1, <2>2
<1>4. Sound(fd, open, reg, [calls EXCEPT ![i] = c])
  BY Zenon, <1>1, <1>3, Facts, Touch
<1> QED
  BY <1>2, <1>3, <1>4, Facts DEF IInv

\* At first nothing is open.
LEMMA InitHolds ==
    ASSUME FdAssumption, Init
    PROVE  IInv
<1>1. calls \in Seq(CallSet) /\ Len(calls) = 0 /\ 1 .. Len(calls) = {}
  BY EmptySeq DEF Init
<1>2. Types(fd, open, reg, calls) /\ connected \in [Socks -> BOOLEAN]
  BY <1>1 DEF Init, Types
<1>3. Alone(fd, calls)
  BY <1>1 DEF Init, Alone
<1>4. Accounted(fd, open, reg, calls)
  BY <1>1 DEF Init, Accounted, Tries, FdAssumption
<1> QED
  BY <1>2, <1>3, <1>4 DEF IInv, Sound

\* Every step keeps the invariant.
LEMMA NextKeeps ==
    ASSUME FdAssumption, MaxAddrsAssumption, IInv, [Next]_vars
    PROVE  IInv'
<1>1. CASE UNCHANGED vars
  BY <1>1 DEF vars, IInv
<1>2. CASE Step
  BY <1>2, ReturnKeeps, AddressFailsKeeps, IoWaitsKeeps, IoWaitedKeeps, FinishKeeps, AtOnceKeeps,
     InProgressKeeps DEF Step
<1>3. CASE \E s \in Socks : Close(s) \/ \E f \in Fds \cup {NoFd} : Open(s, f)
  BY <1>3, CloseKeeps, OpenKeeps
<1>4. CASE \E s \in Socks, timed \in BOOLEAN :
              \/ \E n \in 0 .. MaxAddrs : Connect(s, timed, n)
              \/ \E op \in {"recv", "send"} : Transfer(op, s, timed)
  BY <1>4, ConnectKeeps, TransferKeeps
<1>5. CASE \E i \in DOMAIN calls : Event(i) \/ Expire(i)
  BY <1>5, EventKeeps
<1> QED
  BY <1>1, <1>2, <1>3, <1>4, <1>5 DEF Next

-----------------------------------------------------------------------------
\* Every fd that Socket opens has exactly one owner at any time: an attempt
\* that fails, times out or is superseded closes its fd, and no two sockets
\* have the same, whatever handlers do while a call waits.
THEOREM FdsHaveOneOwner ==
    ASSUME FdAssumption, MaxAddrsAssumption
    PROVE  Spec => []FdsAreOwned
<1>1. Init => IInv
  BY InitHolds
<1>2. IInv /\ [Next]_vars => IInv'
  BY NextKeeps
<1>3. IInv => FdsAreOwned
  BY Implied
<1> QED
  BY <1>1, <1>2, <1>3, PTL DEF Spec

\* The Waiter that the loop would write to is on the stack of a call that has
\* not returned, and no two calls wait on one fd.
THEOREM WaitersStayOnStack ==
    ASSUME FdAssumption, MaxAddrsAssumption
    PROVE  Spec => []WaitersAreOnStack
<1>1. Init => IInv
  BY InitHolds
<1>2. IInv /\ [Next]_vars => IInv'
  BY NextKeeps
<1>3. IInv => WaitersAreOnStack
  BY Implied
<1> QED
  BY <1>1, <1>2, <1>3, PTL DEF Spec

-----------------------------------------------------------------------------
(* The offline queue *)

CONSTANTS MaxQueue, MaxRequests, MaxSends

VARIABLES state, queue, sends, requests, replayed, sent, refused, cleared, nested

OQ == INSTANCE OfflineQueue WITH MaxDepth <- MaxSends

Sends == [by : {"submit", "drain"}, req : Nat]

QueueTypes ==
    /\ requests \in Nat /\ nested \in BOOLEAN
    /\ sends \in Seq(Sends) /\ queue \in Seq(Nat) /\ replayed \in Seq(Nat)

\* What a request is numbered by.
Reqs(s) == {s[i].req : i \in DOMAIN s}
Once(s) == \A i, j \in DOMAIN s : s[i].req = s[j].req => i = j

\* Six sets that partition 1 .. n.
Partition(q, s, r, a, b, c, n) ==
    /\ q \cup s \cup r \cup a \cup b \cup c = 1 .. n
    /\ q \cap (s \cup r \cup a \cup b \cup c) = {}
    /\ s \cap (r \cup a \cup b \cup c) = {}
    /\ r \cap (a \cup b \cup c) = {}
    /\ a \cap (b \cup c) = {} /\ b \cap c = {}

RequestsKept ==
    /\ Partition(OQ!Range(queue), Reqs(sends), OQ!Range(replayed), sent, refused, cleared, requests)
    /\ OQ!IsInjective(queue) /\ OQ!IsInjective(replayed) /\ Once(sends)

\* Without nested calls.
Ordered ==
    ~nested =>
        /\ OQ!Increasing(replayed) /\ OQ!Increasing(queue) /\ Len(queue) <= MaxQueue
        /\ \A x \in OQ!Range(replayed), y \in OQ!Range(queue) : x < y
        /\ \A i \in DOMAIN sends : sends[i].by = "drain" =>
               /\ i = 1 /\ Len(queue) < MaxQueue
               /\ \A x \in OQ!Range(replayed) : x < sends[i].req
               /\ \A y \in OQ!Range(queue) : sends[i].req < y

-----------------------------------------------------------------------------
\* Append adds one element.
LEMMA AppendSet ==
    ASSUME NEW S, NEW q \in Seq(S), NEW e \in S
    PROVE  /\ Append(q, e) \in Seq(S) /\ OQ!Range(Append(q, e)) = OQ!Range(q) \cup {e}
           /\ OQ!IsInjective(q) /\ e \notin OQ!Range(q) => OQ!IsInjective(Append(q, e))
<1>1. /\ Append(q, e) \in Seq(S) /\ Len(Append(q, e)) = Len(q) + 1
      /\ \A i \in 1 .. Len(q) : Append(q, e)[i] = q[i]
      /\ Append(q, e)[Len(q) + 1] = e
  BY AppendProperties
<1>2. DOMAIN q = 1 .. Len(q) /\ Len(q) \in Nat /\ DOMAIN Append(q, e) = 1 .. Len(q) + 1
  BY <1>1
<1> DEFINE a == Append(q, e)
           n == Len(q)
<1> HIDE DEF a, n
<1>3. OQ!Range(a) = OQ!Range(q) \cup {e}
  BY <1>1, <1>2 DEF OQ!Range, a, n
<1>4. OQ!IsInjective(q) /\ e \notin OQ!Range(q) => OQ!IsInjective(a)
  BY <1>1, <1>2 DEF OQ!Range, OQ!IsInjective, a, n
<1> QED
  BY <1>1, <1>3, <1>4 DEF a

\* The head and the tail.
LEMMA TailSet ==
    ASSUME NEW S, NEW q \in Seq(S), q # << >>
    PROVE  /\ Head(q) \in S /\ Tail(q) \in Seq(S) /\ Len(Tail(q)) = Len(q) - 1
           /\ \A i \in 1 .. Len(q) - 1 : Tail(q)[i] = q[i + 1]
           /\ OQ!Range(q) = {Head(q)} \cup OQ!Range(Tail(q))
           /\ OQ!IsInjective(q) => Head(q) \notin OQ!Range(Tail(q)) /\ OQ!IsInjective(Tail(q))
<1> DEFINE t == Tail(q)
           n == Len(q)
<1>1. /\ Head(q) \in S /\ t \in Seq(S) /\ n \in Nat /\ n > 0 /\ Len(t) = n - 1
      /\ \A i \in 1 .. n - 1 : t[i] = q[i + 1]
      /\ Head(q) = q[1]
  BY HeadTailProperties
<1>2. DOMAIN q = 1 .. n /\ DOMAIN t = 1 .. n - 1
  BY <1>1
<1> HIDE DEF t, n
<1>3. OQ!Range(q) = {q[1]} \cup OQ!Range(t)
  <2>1. ASSUME NEW x \in OQ!Range(q) PROVE x \in {q[1]} \cup OQ!Range(t)
    <3>1. PICK i \in 1 .. n : x = q[i]
      BY <1>2 DEF OQ!Range
    <3>2. CASE i = 1
      BY <3>1, <3>2
    <3>3. CASE i # 1
      <4>1. i - 1 \in 1 .. n - 1 /\ t[i - 1] = q[i]
        BY <1>1, <3>3
      <4> QED
        BY <1>2, <3>1, <4>1 DEF OQ!Range
    <3> QED
      BY <3>2, <3>3
  <2>2. ASSUME NEW x \in OQ!Range(t) PROVE x \in OQ!Range(q)
    <3>1. PICK i \in 1 .. n - 1 : x = t[i]
      BY <1>2 DEF OQ!Range
    <3>2. i + 1 \in 1 .. n /\ x = q[i + 1]
      BY <1>1, <3>1
    <3> QED
      BY <1>2, <3>2 DEF OQ!Range
  <2>3. q[1] \in OQ!Range(q)
    BY <1>1, <1>2 DEF OQ!Range
  <2> QED
    BY <2>1, <2>2, <2>3
<1>4. ASSUME OQ!IsInjective(q) PROVE q[1] \notin OQ!Range(t) /\ OQ!IsInjective(t)
  <2>1. \A i, j \in 1 .. n : q[i] = q[j] => i = j
    BY <1>2, <1>4 DEF OQ!IsInjective
  <2>2. \A i \in 1 .. n - 1 : i + 1 \in 1 .. n /\ t[i] = q[i + 1] /\ t[i] # q[1]
    BY <1>1, <2>1
  <2>3. \A i, j \in 1 .. n - 1 : t[i] = t[j] => i = j
    BY <1>1, <2>1, <2>2
  <2> QED
    BY <1>2, <2>2, <2>3 DEF OQ!Range, OQ!IsInjective
<1> QED
  BY <1>1, <1>3, <1>4 DEF t, n

\* A request put back in front.
LEMMA ConsSet ==
    ASSUME NEW S, NEW q \in Seq(S), NEW e \in S
    PROVE  /\ <<e>> \o q \in Seq(S) /\ Len(<<e>> \o q) = Len(q) + 1
           /\ OQ!Range(<<e>> \o q) = {e} \cup OQ!Range(q)
           /\ OQ!IsInjective(q) /\ e \notin OQ!Range(q) => OQ!IsInjective(<<e>> \o q)
           /\ (<<e>> \o q)[1] = e /\ \A i \in 2 .. Len(q) + 1 : (<<e>> \o q)[i] = q[i - 1]
<1> DEFINE c == <<e>> \o q
           n == Len(q)
<1>1. /\ c \in Seq(S) /\ n \in Nat /\ Len(c) = n + 1 /\ c[1] = e
      /\ \A i \in 2 .. n + 1 : c[i] = q[i - 1]
  BY ConcatProperties
<1>2. DOMAIN q = 1 .. n /\ DOMAIN c = 1 .. n + 1
  BY <1>1
<1> HIDE DEF c, n
<1>3. OQ!Range(c) = {e} \cup OQ!Range(q)
  <2>1. ASSUME NEW x \in OQ!Range(q) PROVE x \in OQ!Range(c)
    <3>1. PICK i \in 1 .. n : x = q[i]
      BY <1>2 DEF OQ!Range
    <3>2. i + 1 \in 2 .. n + 1 /\ i + 1 \in DOMAIN c /\ (i + 1) - 1 = i
      BY <1>1, <1>2
    <3>3. c[i + 1] = x
      BY <1>1, <3>1, <3>2
    <3> QED
      BY <3>2, <3>3 DEF OQ!Range
  <2>2. ASSUME NEW x \in OQ!Range(c) PROVE x \in {e} \cup OQ!Range(q)
    <3>1. PICK i \in 1 .. n + 1 : x = c[i]
      BY <1>2 DEF OQ!Range
    <3>2. CASE i = 1
      BY <1>1, <3>1, <3>2
    <3>3. CASE i # 1
      <4>1. i - 1 \in 1 .. n /\ x = q[i - 1]
        BY <1>1, <3>1, <3>3
      <4> QED
        BY <1>2, <4>1 DEF OQ!Range
    <3> QED
      BY <3>2, <3>3
  <2>3. e \in OQ!Range(c)
    BY <1>1, <1>2 DEF OQ!Range
  <2> QED
    BY <2>1, <2>2, <2>3
<1>4. ASSUME OQ!IsInjective(q), e \notin OQ!Range(q) PROVE OQ!IsInjective(c)
  <2>1. \A i, j \in 1 .. n : q[i] = q[j] => i = j
    BY <1>2, <1>4 DEF OQ!IsInjective
  <2>2. \A i \in 2 .. n + 1 : i - 1 \in 1 .. n /\ c[i] = q[i - 1] /\ c[i] # e
    <3> SUFFICES ASSUME NEW i \in 2 .. n + 1
                 PROVE  i - 1 \in 1 .. n /\ c[i] = q[i - 1] /\ c[i] # e
      OBVIOUS
    <3>1. i - 1 \in 1 .. n /\ c[i] = q[i - 1]
      BY <1>1
    <3>2. q[i - 1] \in OQ!Range(q)
      BY <1>2, <3>1 DEF OQ!Range
    <3> QED
      BY <1>4, <3>1, <3>2
  <2>3. ASSUME NEW i \in 1 .. n + 1, NEW j \in 1 .. n + 1, c[i] = c[j] PROVE i = j
    <3>1. CASE i = 1 \/ j = 1
      BY <1>1, <2>2, <2>3, <3>1
    <3>2. CASE i # 1 /\ j # 1
      <4>1. i \in 2 .. n + 1 /\ j \in 2 .. n + 1
        BY <1>1, <3>2
      <4>2. q[i - 1] = q[j - 1] /\ i - 1 \in 1 .. n /\ j - 1 \in 1 .. n
        BY <2>2, <2>3, <4>1
      <4>3. i - 1 = j - 1
        BY <2>1, <4>2
      <4> QED
        BY <1>1, <4>1, <4>3
    <3> QED
      BY <3>1, <3>2
  <2> QED
    BY <1>2, <2>3 DEF OQ!IsInjective
<1> QED
  BY <1>1, <1>3, <1>4 DEF c, n

\* The sends without the innermost one.
LEMMA FrontSet ==
    ASSUME NEW s \in Seq(Sends), s # << >>
    PROVE  /\ Front(s) \in Seq(Sends) /\ Last(s) \in Sends /\ Len(s) \in Nat \ {0}
           /\ DOMAIN s = 1 .. Len(s) /\ DOMAIN Front(s) = 1 .. Len(s) - 1
           /\ \A i \in 1 .. Len(s) - 1 : Front(s)[i] = s[i]
           /\ Reqs(s) = Reqs(Front(s)) \cup {Last(s).req}
           /\ Once(s) => Once(Front(s)) /\ Last(s).req \notin Reqs(Front(s))
<1> DEFINE f == Front(s)
           n == Len(s)
<1>1. n \in Nat \ {0} /\ DOMAIN s = 1 .. n /\ Last(s) = s[n] /\ Last(s) \in Sends
  BY DEF Last
<1>2. /\ f \in Seq(Sends) /\ Len(f) = n - 1
      /\ \A i \in 1 .. n - 1 : f[i] = s[i]
  <2>1. \A i \in 1 .. n - 1 : s[i] \in Sends
    BY <1>1
  <2>2. n - 1 \in Int /\ 1 \in Int
    BY <1>1
  <2> HIDE DEF n
  <2>3. /\ SubSeq(s, 1, n - 1) \in Seq(Sends)
        /\ Len(SubSeq(s, 1, n - 1)) = IF 1 <= n - 1 THEN (n - 1) - 1 + 1 ELSE 0
        /\ \A i \in 1 .. (n - 1) - 1 + 1 : SubSeq(s, 1, n - 1)[i] = s[1 + i - 1]
    BY <2>1, <2>2, SubSeqProperties
  <2>4. f = SubSeq(s, 1, n - 1)
    BY DEF Front, n
  <2> QED
    BY <1>1, <2>3, <2>4
<1>3. DOMAIN f = 1 .. n - 1
  BY <1>1, <1>2
<1> HIDE DEF f, n
<1>4. Reqs(s) = Reqs(f) \cup {s[n].req}
  BY <1>1, <1>2, <1>3 DEF Reqs
<1>5. ASSUME Once(s) PROVE Once(f) /\ s[n].req \notin Reqs(f)
  BY <1>1, <1>2, <1>3, <1>5 DEF Reqs, Once
<1> QED
  BY <1>1, <1>2, <1>3, <1>4, <1>5 DEF f, n

\* One more send.
LEMMA SendAdded ==
    ASSUME NEW s \in Seq(Sends), NEW e \in Sends
    PROVE  /\ Append(s, e) \in Seq(Sends) /\ Reqs(Append(s, e)) = Reqs(s) \cup {e.req}
           /\ Once(s) /\ e.req \notin Reqs(s) => Once(Append(s, e))
           /\ Len(s) \in Nat /\ DOMAIN s = 1 .. Len(s)
           /\ DOMAIN Append(s, e) = 1 .. Len(s) + 1
           /\ \A i \in 1 .. Len(s) : Append(s, e)[i] = s[i]
           /\ Append(s, e)[Len(s) + 1] = e
<1> DEFINE a == Append(s, e)
           n == Len(s)
<1>1. /\ a \in Seq(Sends) /\ Len(a) = n + 1 /\ a[n + 1] = e
      /\ \A i \in 1 .. n : a[i] = s[i]
  BY AppendProperties
<1>2. n \in Nat /\ DOMAIN s = 1 .. n /\ DOMAIN a = 1 .. n + 1
  BY <1>1
<1> HIDE DEF a, n
<1>3. Reqs(a) = Reqs(s) \cup {e.req}
  BY <1>1, <1>2 DEF Reqs
<1>4. ASSUME Once(s), e.req \notin Reqs(s) PROVE Once(a)
  BY <1>1, <1>2, <1>4 DEF Reqs, Once
<1> QED
  BY <1>1, <1>2, <1>3, <1>4 DEF a, n

-----------------------------------------------------------------------------
QueueInv == QueueTypes /\ RequestsKept /\ Ordered

\* A new request is none of the old ones, and larger.
LEMMA NewIsFresh ==
    ASSUME QueueTypes, RequestsKept
    PROVE  \A x \in OQ!Range(queue) \cup Reqs(sends) \cup OQ!Range(replayed) \cup sent \cup refused \cup cleared :
               x \in Nat /\ x < requests + 1
  BY DEF QueueTypes, RequestsKept, Partition

\* enqueue, on its own or by submit: the request is queued or refused.
LEMMA EnqueueKeeps ==
    ASSUME QueueInv, OQ!Enters, OQ!New, OQ!enqueue(requests + 1),
           UNCHANGED <<sends, replayed, sent, cleared>>, OQ!QueueAssumption
    PROVE  QueueInv'
<1> DEFINE r == requests + 1
<1>1. /\ requests \in Nat /\ r \in Nat /\ requests' = r /\ queue \in Seq(Nat)
      /\ sends' = sends /\ replayed' = replayed /\ sent' = sent /\ cleared' = cleared
  BY DEF QueueInv, QueueTypes, OQ!New
<1>2. /\ nested' \in BOOLEAN
      /\ ~nested' => ~nested /\ sends = << >>
  BY Zenon DEF QueueInv, QueueTypes, OQ!Enters
<1>3. \A x \in OQ!Range(queue) \cup Reqs(sends) \cup OQ!Range(replayed) \cup sent \cup refused \cup cleared :
          x \in Nat /\ x < r /\ x # r
  BY <1>1, NewIsFresh DEF QueueInv
<1>4. 1 .. r = 1 .. requests \cup {r}
  BY <1>1
<1> HIDE DEF r
<1>5. CASE OQ!HasRoom
  <2>1. queue' = Append(queue, r) /\ refused' = refused
    BY <1>5 DEF OQ!enqueue, r
  <2>2. /\ queue' \in Seq(Nat) /\ OQ!Range(queue') = OQ!Range(queue) \cup {r}
        /\ Len(queue') = Len(queue) + 1 /\ Len(queue) \in Nat
        /\ \A i \in 1 .. Len(queue) : queue'[i] = queue[i]
        /\ queue'[Len(queue) + 1] = r
    BY <1>1, <2>1, AppendSet, AppendProperties
  <2>3. QueueTypes'
    BY <1>1, <1>2, <2>2 DEF QueueInv, QueueTypes
  <2>4. RequestsKept'
    <3>1. OQ!IsInjective(queue')
      BY <1>1, <1>3, <2>1, AppendSet DEF QueueInv, RequestsKept
    <3>2. Partition(OQ!Range(queue'), Reqs(sends), OQ!Range(replayed), sent, refused, cleared, r)
      BY <1>3, <1>4, <2>2 DEF QueueInv, RequestsKept, Partition
    <3> QED
      BY <1>1, <2>1, <3>1, <3>2 DEF QueueInv, RequestsKept
  <2>5. Ordered'
    <3> SUFFICES ASSUME ~nested' PROVE Ordered'
      BY DEF Ordered
    <3>1. ~nested /\ sends = << >>
      BY <1>2
    <3>2. OQ!Increasing(queue')
      <4>1. DOMAIN queue' = 1 .. Len(queue) + 1 /\ DOMAIN queue = 1 .. Len(queue)
        BY <1>1, <2>2
      <4>2. \A i \in 1 .. Len(queue) : queue[i] < r
        BY <1>3, <4>1 DEF OQ!Range
      <4>3. \A i, j \in 1 .. Len(queue) : i < j => queue[i] < queue[j]
        BY <3>1, <4>1 DEF QueueInv, Ordered, OQ!Increasing
      <4> QED
        BY <2>2, <4>1, <4>2, <4>3 DEF OQ!Increasing
    <3>3. Len(queue') <= MaxQueue
      BY <1>5, <2>2 DEF OQ!HasRoom, OQ!QueueAssumption
    <3>4. \A x \in OQ!Range(replayed), y \in OQ!Range(queue') : x < y
      BY <1>3, <2>2, <3>1 DEF QueueInv, Ordered
    <3>5. OQ!Increasing(replayed) /\ DOMAIN sends = {}
      BY <3>1 DEF QueueInv, Ordered
    <3> QED
      BY <1>1, <3>2, <3>3, <3>4, <3>5 DEF Ordered
  <2> QED
    BY <2>3, <2>4, <2>5 DEF QueueInv
<1>6. CASE ~OQ!HasRoom
  <2>1. queue' = queue /\ refused' = refused \cup {r}
    BY <1>6 DEF OQ!enqueue, r
  <2>2. QueueTypes'
    BY <1>1, <1>2, <2>1 DEF QueueInv, QueueTypes
  <2>3. RequestsKept'
    <3>1. Partition(OQ!Range(queue), Reqs(sends), OQ!Range(replayed), sent, refused \cup {r}, cleared, r)
      BY <1>3, <1>4 DEF QueueInv, RequestsKept, Partition
    <3> QED
      BY <1>1, <2>1, <3>1 DEF QueueInv, RequestsKept
  <2>4. Ordered'
    BY <1>1, <1>2, <2>1 DEF QueueInv, Ordered
  <2> QED
    BY <2>2, <2>3, <2>4 DEF QueueInv
<1> QED
  BY <1>5, <1>6

\* submit, online: the request is sent at once.
LEMMA SubmitSendsKeeps ==
    ASSUME QueueInv, OQ!SubmitSends
    PROVE  QueueInv'
<1> DEFINE r == requests + 1
           e == [by |-> "submit", req |-> r]
<1>1. /\ requests \in Nat /\ r \in Nat /\ requests' = r /\ sends' = Append(sends, e)
      /\ queue' = queue /\ replayed' = replayed /\ sent' = sent /\ refused' = refused
      /\ cleared' = cleared /\ nested' = nested /\ sends \in Seq(Sends) /\ e \in Sends
      /\ e.req = r /\ e.by = "submit"
  BY DEF QueueInv, QueueTypes, OQ!SubmitSends, OQ!New, OQ!outcome, Sends
<1>2. \A x \in OQ!Range(queue) \cup Reqs(sends) \cup OQ!Range(replayed) \cup sent \cup refused \cup cleared :
          x # r
  BY <1>1, NewIsFresh DEF QueueInv
<1>3. 1 .. r = 1 .. requests \cup {r}
  BY <1>1
<1> HIDE DEF r, e
<1>4. /\ sends' \in Seq(Sends) /\ Reqs(sends') = Reqs(sends) \cup {r} /\ Once(sends')
      /\ DOMAIN sends = 1 .. Len(sends) /\ Len(sends) \in Nat /\ DOMAIN sends' = 1 .. Len(sends) + 1
      /\ \A i \in 1 .. Len(sends) : sends'[i] = sends[i]
      /\ sends'[Len(sends) + 1] = e
  BY SMTT(30), <1>1, <1>2, SendAdded DEF QueueInv, RequestsKept
<1>5. QueueTypes'
  BY <1>1, <1>4 DEF QueueInv, QueueTypes
<1>6. RequestsKept'
  <2>1. Partition(OQ!Range(queue), Reqs(sends'), OQ!Range(replayed), sent, refused, cleared, r)
    BY SMTT(30), <1>2, <1>3, <1>4 DEF QueueInv, RequestsKept, Partition
  <2> QED
    BY <1>1, <1>4, <2>1 DEF QueueInv, RequestsKept
<1>7. Ordered'
  <2> SUFFICES ASSUME ~nested' PROVE Ordered'
    BY DEF Ordered
  <2>1. \A i \in DOMAIN sends' : sends'[i].by = "drain" => i \in DOMAIN sends /\ sends'[i] = sends[i]
    BY <1>1, <1>4
  <2> QED
    BY <1>1, <2>1 DEF QueueInv, Ordered
<1> QED
  BY <1>5, <1>6, <1>7 DEF QueueInv

\* A request goes from the queue to the sends.
LEMMA MovesOver ==
    ASSUME NEW q, NEW s, NEW r, NEW a, NEW b, NEW c, NEW n, NEW x, x \notin q,
           Partition({x} \cup q, s, r, a, b, c, n)
    PROVE  Partition(q, s \cup {x}, r, a, b, c, n)
  BY DEF Partition

\* One turn of drain, with s the other sends.
LEMMA TurnKeeps ==
    ASSUME OQ!QueueAssumption, NEW s \in Seq(Sends), OQ!Turn(queue, s),
           queue \in Seq(Nat), requests \in Nat, replayed' \in Seq(Nat), nested' \in BOOLEAN,
           UNCHANGED <<requests, sent, refused, cleared>>,
           Partition(OQ!Range(queue), Reqs(s), OQ!Range(replayed'), sent, refused, cleared, requests),
           OQ!IsInjective(queue), OQ!IsInjective(replayed'), Once(s),
           ~nested' => /\ s = << >> /\ OQ!Increasing(replayed') /\ OQ!Increasing(queue)
                       /\ Len(queue) <= MaxQueue
                       /\ \A x \in OQ!Range(replayed'), y \in OQ!Range(queue) : x < y
    PROVE  QueueInv'
<1>1. CASE queue = << >>
  <2>1. queue' = queue /\ sends' = s
    BY <1>1 DEF OQ!Turn
  <2>2. QueueTypes' /\ RequestsKept'
    BY <2>1 DEF QueueTypes, RequestsKept
  <2>3. Ordered'
    BY SMTT(30), <2>1 DEF Ordered
  <2> QED
    BY <2>2, <2>3 DEF QueueInv
<1>2. CASE queue # << >>
  <2> DEFINE h == Head(queue)
             e == [by |-> "drain", req |-> h]
             n == Len(queue)
  <2>1. queue' = Tail(queue) /\ sends' = Append(s, e)
    BY <1>2 DEF OQ!Turn
  <2>2. /\ h \in Nat /\ queue' \in Seq(Nat) /\ OQ!Range(queue) = {h} \cup OQ!Range(queue')
        /\ h \notin OQ!Range(queue') /\ OQ!IsInjective(queue')
        /\ Len(queue') = n - 1 /\ \A i \in 1 .. n - 1 : queue'[i] = queue[i + 1]
    BY <1>2, <2>1, TailSet
  <2>3. e \in Sends /\ e.req = h /\ h \notin Reqs(s) /\ h = queue[1] /\ n \in Nat \ {0}
    BY SMTT(30), <1>2, <2>2 DEF Sends, Partition
  <2> HIDE DEF h, e, n
  <2>4. /\ sends' \in Seq(Sends) /\ Reqs(sends') = Reqs(s) \cup {h} /\ Once(sends')
        /\ Len(s) \in Nat /\ DOMAIN sends' = 1 .. Len(s) + 1 /\ sends'[Len(s) + 1] = e
    BY SMTT(30), <2>1, <2>3, SendAdded
  <2>5. QueueTypes'
    BY <2>2, <2>4 DEF QueueTypes
  <2>6. RequestsKept'
    <3>1. Partition(OQ!Range(queue'), Reqs(sends'), OQ!Range(replayed'), sent, refused, cleared, requests)
      <4>1. Partition({h} \cup OQ!Range(queue'), Reqs(s), OQ!Range(replayed'), sent, refused, cleared, requests)
        BY <2>2
      <4> QED
        BY <2>2, <2>4, <4>1, MovesOver
    <3> QED
      BY <2>2, <2>4, <3>1 DEF RequestsKept
  <2>7. Ordered'
    <3> SUFFICES ASSUME ~nested' PROVE Ordered'
      BY DEF Ordered
    <3>1. Len(s) = 0
      OBVIOUS
    <3>2. \A i \in DOMAIN sends' : i = 1 /\ sends'[i].req = h
      BY SMTT(30), <2>3, <2>4, <3>1
    <3>3. DOMAIN queue = 1 .. n /\ DOMAIN queue' = 1 .. n - 1
      BY <2>2, <2>3 DEF n
    <3>4. OQ!Increasing(queue') /\ \A i \in 1 .. n - 1 : h < queue'[i]
      <4>1. \A i, j \in 1 .. n : i < j => queue[i] < queue[j]
        BY <3>3 DEF OQ!Increasing
      <4>2. \A i \in 1 .. n - 1 : i + 1 \in 1 .. n /\ 1 < i + 1 /\ queue'[i] = queue[i + 1]
        BY <2>2, <2>3
      <4>3. \A i \in 1 .. n - 1 : h < queue'[i]
        BY <2>3, <4>1, <4>2
      <4>4. \A i, j \in 1 .. n - 1 : i < j => queue'[i] < queue'[j]
        BY <2>3, <4>1, <4>2
      <4> QED
        BY <3>3, <4>3, <4>4 DEF OQ!Increasing
    <3>5. \A y \in OQ!Range(queue') : h < y
      BY <3>3, <3>4 DEF OQ!Range
    <3>6. \A x \in OQ!Range(replayed'), y \in OQ!Range(queue') \cup {h} : x < y
      BY <2>2
    <3>7. Len(queue') < MaxQueue /\ Len(queue') <= MaxQueue
      BY <2>2, <2>3 DEF n, OQ!QueueAssumption
    <3>8. OQ!Increasing(replayed')
      OBVIOUS
    <3>9. \A i \in DOMAIN sends' :
              /\ i = 1
              /\ \A x \in OQ!Range(replayed') : x < sends'[i].req
              /\ \A y \in OQ!Range(queue') : sends'[i].req < y
      BY <3>2, <3>5, <3>6
    <3> QED
      BY <3>4, <3>6, <3>7, <3>8, <3>9 DEF Ordered
  <2> QED
    BY <2>5, <2>6, <2>7 DEF QueueInv
<1> QED
  BY <1>1, <1>2

\* drain is called.
LEMMA DrainKeeps ==
    ASSUME OQ!QueueAssumption, QueueInv, OQ!Drain
    PROVE  QueueInv'
<1>1. /\ OQ!Turn(queue, sends) /\ nested' \in BOOLEAN /\ (~nested' => ~nested /\ sends = << >>)
      /\ requests' = requests /\ replayed' = replayed /\ sent' = sent /\ refused' = refused
      /\ cleared' = cleared
  BY Zenon DEF QueueInv, QueueTypes, OQ!Drain, OQ!Enters, OQ!outcome
<1>2. ~nested' => /\ sends = << >> /\ OQ!Increasing(replayed') /\ OQ!Increasing(queue)
                  /\ Len(queue) <= MaxQueue
                  /\ \A x \in OQ!Range(replayed'), y \in OQ!Range(queue) : x < y
  BY <1>1 DEF QueueInv, Ordered
<1>3. /\ sends \in Seq(Sends) /\ queue \in Seq(Nat) /\ requests \in Nat /\ replayed' \in Seq(Nat)
  BY <1>1 DEF QueueInv, QueueTypes
<1>4. /\ Partition(OQ!Range(queue), Reqs(sends), OQ!Range(replayed'), sent, refused, cleared, requests)
      /\ OQ!IsInjective(queue) /\ OQ!IsInjective(replayed') /\ Once(sends)
  BY <1>1 DEF QueueInv, RequestsKept
<1> QED
  BY <1>1, <1>2, <1>3, <1>4, TurnKeeps

\* What the innermost send is, and what is left without it.
LEMMA TopOfSends ==
    ASSUME QueueInv, sends # << >>
    PROVE  /\ Front(sends) \in Seq(Sends) /\ Once(Front(sends)) /\ OQ!Top \in Sends
           /\ OQ!Top.req \in Nat /\ OQ!Top.req \notin Reqs(Front(sends))
           /\ Reqs(sends) = Reqs(Front(sends)) \cup {OQ!Top.req}
           /\ ~nested => \A i \in DOMAIN Front(sends) : i \in DOMAIN sends /\ Front(sends)[i] = sends[i]
           /\ ~nested /\ OQ!Top.by = "drain" =>
                  /\ Front(sends) = << >> /\ Len(queue) < MaxQueue
                  /\ \A x \in OQ!Range(replayed) : x < OQ!Top.req
                  /\ \A y \in OQ!Range(queue) : OQ!Top.req < y
<1> DEFINE n == Len(sends)
<1>1. /\ Front(sends) \in Seq(Sends) /\ OQ!Top \in Sends /\ n \in Nat \ {0} /\ DOMAIN sends = 1 .. n
      /\ DOMAIN Front(sends) = 1 .. n - 1
      /\ \A i \in 1 .. n - 1 : Front(sends)[i] = sends[i]
      /\ Reqs(sends) = Reqs(Front(sends)) \cup {OQ!Top.req}
      /\ Once(Front(sends)) /\ OQ!Top.req \notin Reqs(Front(sends))
  BY FrontSet DEF QueueInv, QueueTypes, RequestsKept, OQ!Top, Last
<1>2. OQ!Top.req \in Nat
  BY <1>1 DEF Sends
<1>3. ASSUME ~nested, OQ!Top.by = "drain"
      PROVE  /\ Front(sends) = << >> /\ Len(queue) < MaxQueue
             /\ \A x \in OQ!Range(replayed) : x < OQ!Top.req
             /\ \A y \in OQ!Range(queue) : OQ!Top.req < y
  <2>1. n \in DOMAIN sends /\ sends[n].by = "drain" /\ OQ!Top = sends[n]
    BY <1>1, <1>3 DEF OQ!Top, Last
  <2>2. /\ n = 1 /\ Len(queue) < MaxQueue
        /\ \A x \in OQ!Range(replayed) : x < OQ!Top.req
        /\ \A y \in OQ!Range(queue) : OQ!Top.req < y
    BY Zenon, <1>3, <2>1 DEF QueueInv, Ordered
  <2>3. Front(sends) = << >>
    BY <1>1, <2>2
  <2> QED
    BY <2>2, <2>3
<1> HIDE DEF n
<1> QED
  BY <1>1, <1>2, <1>3

\* A send succeeds.
LEMMA SendOkKeeps ==
    ASSUME OQ!QueueAssumption, QueueInv, OQ!SendOk
    PROVE  QueueInv'
<1> DEFINE f == Front(sends)
           r == OQ!Top.req
<1>1. /\ sends # << >> /\ requests' = requests /\ refused' = refused /\ cleared' = cleared
      /\ nested' = nested
  BY DEF OQ!SendOk
<1>2. /\ f \in Seq(Sends) /\ Once(f) /\ r \in Nat /\ r \notin Reqs(f)
      /\ Reqs(sends) = Reqs(f) \cup {r}
      /\ ~nested => \A i \in DOMAIN f : i \in DOMAIN sends /\ f[i] = sends[i]
      /\ ~nested /\ OQ!Top.by = "drain" =>
             f = << >> /\ (\A x \in OQ!Range(replayed) : x < r) /\ (\A y \in OQ!Range(queue) : r < y)
  BY <1>1, TopOfSends
<1>3. /\ queue \in Seq(Nat) /\ replayed \in Seq(Nat) /\ requests \in Nat /\ nested \in BOOLEAN
      /\ OQ!IsInjective(queue) /\ OQ!IsInjective(replayed)
      /\ Partition(OQ!Range(queue), Reqs(f) \cup {r}, OQ!Range(replayed), sent, refused, cleared, requests)
  BY <1>2 DEF QueueInv, QueueTypes, RequestsKept
<1> HIDE DEF f, r
<1>4. CASE OQ!Top.by = "submit"
  <2>1. sent' = sent \cup {r} /\ sends' = f /\ queue' = queue /\ replayed' = replayed
    BY <1>4 DEF OQ!SendOk, f, r, OQ!Below, Front
  <2>2. QueueTypes'
    BY <1>1, <1>2, <1>3, <2>1 DEF QueueTypes
  <2>3. RequestsKept'
    <3>1. Partition(OQ!Range(queue), Reqs(f), OQ!Range(replayed), sent \cup {r}, refused, cleared, requests)
      BY <1>2, <1>3 DEF Partition
    <3> QED
      BY <1>1, <1>2, <1>3, <2>1, <3>1 DEF RequestsKept
  <2>4. Ordered'
    BY <1>1, <1>2, <2>1 DEF QueueInv, Ordered
  <2> QED
    BY <2>2, <2>3, <2>4 DEF QueueInv
<1>5. CASE OQ!Top.by = "drain"
  <2>1. replayed' = Append(replayed, r) /\ OQ!Turn(queue, f) /\ sent' = sent
    BY <1>5 DEF OQ!SendOk, f, r, OQ!Below, Front
  <2>2. r \notin OQ!Range(replayed)
    BY <1>3 DEF Partition
  <2>3. /\ replayed' \in Seq(Nat) /\ OQ!Range(replayed') = OQ!Range(replayed) \cup {r}
        /\ OQ!IsInjective(replayed')
    BY <1>2, <1>3, <2>1, <2>2, AppendSet
  <2>4. Partition(OQ!Range(queue), Reqs(f), OQ!Range(replayed'), sent, refused, cleared, requests)
    BY <1>2, <1>3, <2>3 DEF Partition
  <2>5. ASSUME ~nested
        PROVE  /\ f = << >> /\ OQ!Increasing(replayed') /\ OQ!Increasing(queue) /\ Len(queue) <= MaxQueue
               /\ \A x \in OQ!Range(replayed'), y \in OQ!Range(queue) : x < y
    <3>1. /\ f = << >> /\ (\A x \in OQ!Range(replayed) : x < r) /\ (\A y \in OQ!Range(queue) : r < y)
          /\ OQ!Increasing(replayed) /\ OQ!Increasing(queue) /\ Len(queue) <= MaxQueue
          /\ \A x \in OQ!Range(replayed), y \in OQ!Range(queue) : x < y
      BY <1>2, <1>5, <2>5 DEF QueueInv, Ordered
    <3>2. OQ!Increasing(replayed')
      <4> DEFINE n == Len(replayed)
      <4>1. /\ n \in Nat /\ DOMAIN replayed = 1 .. n /\ Len(replayed') = n + 1
            /\ \A i \in 1 .. n : replayed'[i] = replayed[i]
            /\ replayed'[n + 1] = r
        BY <1>2, <1>3, <2>1, AppendProperties
      <4>2. DOMAIN replayed' = 1 .. n + 1
        BY <2>3, <4>1
      <4>3. \A i \in 1 .. n : replayed[i] < r
        BY <3>1, <4>1 DEF OQ!Range
      <4> HIDE DEF n
      <4> QED
        BY <3>1, <4>1, <4>2, <4>3 DEF OQ!Increasing
    <3> QED
      BY <2>3, <3>1, <3>2
  <2> QED
    BY Zenon, <1>1, <1>2, <1>3, <2>1, <2>3, <2>4, <2>5, TurnKeeps
<1> QED
  BY <1>4, <1>5 DEF OQ!SendOk

\* A send fails.
LEMMA SendFailsKeeps ==
    ASSUME OQ!QueueAssumption, QueueInv, OQ!SendFails
    PROVE  QueueInv'
<1> DEFINE f == Front(sends)
           r == OQ!Top.req
<1>1. /\ sends # << >> /\ requests' = requests /\ sent' = sent /\ cleared' = cleared
      /\ nested' = nested /\ replayed' = replayed /\ sends' = f
  BY DEF OQ!SendFails, OQ!Below, Front
<1>2. /\ f \in Seq(Sends) /\ Once(f) /\ r \in Nat /\ r \notin Reqs(f)
      /\ Reqs(sends) = Reqs(f) \cup {r}
      /\ ~nested => \A i \in DOMAIN f : i \in DOMAIN sends /\ f[i] = sends[i]
      /\ ~nested /\ OQ!Top.by = "drain" =>
             /\ f = << >> /\ Len(queue) < MaxQueue
             /\ \A x \in OQ!Range(replayed) : x < r
             /\ \A y \in OQ!Range(queue) : r < y
  BY <1>1, TopOfSends
<1>3. /\ queue \in Seq(Nat) /\ replayed \in Seq(Nat) /\ requests \in Nat /\ nested \in BOOLEAN
      /\ OQ!IsInjective(queue) /\ OQ!IsInjective(replayed)
      /\ Partition(OQ!Range(queue), Reqs(f) \cup {r}, OQ!Range(replayed), sent, refused, cleared, requests)
  BY <1>2 DEF QueueInv, QueueTypes, RequestsKept
<1> HIDE DEF f, r
<1>4. CASE OQ!Top.by = "submit"
  <2>1. refused' = refused \cup {r} /\ queue' = queue
    BY <1>4 DEF OQ!SendFails, r
  <2>2. QueueTypes'
    BY <1>1, <1>2, <1>3, <2>1 DEF QueueTypes
  <2>3. RequestsKept'
    <3>1. Partition(OQ!Range(queue), Reqs(f), OQ!Range(replayed), sent, refused \cup {r}, cleared, requests)
      BY <1>2, <1>3 DEF Partition
    <3> QED
      BY <1>1, <1>2, <1>3, <2>1, <3>1 DEF RequestsKept
  <2>4. Ordered'
    BY <1>1, <1>2, <2>1 DEF QueueInv, Ordered
  <2> QED
    BY <2>2, <2>3, <2>4 DEF QueueInv
<1>5. CASE OQ!Top.by = "drain"
  <2>1. queue' = <<r>> \o queue /\ refused' = refused
    BY <1>5 DEF OQ!SendFails, OQ!Requeue, r
  <2> DEFINE n == Len(queue)
  <2>2. r \notin OQ!Range(queue)
    BY <1>3 DEF Partition
  <2>3. /\ queue' \in Seq(Nat) /\ Len(queue') = n + 1 /\ OQ!Range(queue') = {r} \cup OQ!Range(queue)
        /\ OQ!IsInjective(queue')
        /\ queue'[1] = r /\ \A i \in 2 .. n + 1 : queue'[i] = queue[i - 1]
    BY <1>2, <1>3, <2>1, <2>2, ConsSet
  <2>4. n \in Nat /\ DOMAIN queue = 1 .. n /\ DOMAIN queue' = 1 .. n + 1
    BY <1>3, <2>3
  <2> HIDE DEF n
  <2>5. QueueTypes'
    BY <1>1, <1>2, <1>3, <2>3 DEF QueueTypes
  <2>6. RequestsKept'
    <3>1. Partition(OQ!Range(queue'), Reqs(f), OQ!Range(replayed), sent, refused, cleared, requests)
      BY <1>2, <1>3, <2>3 DEF Partition
    <3> QED
      BY <1>1, <1>2, <1>3, <2>1, <2>3, <3>1 DEF RequestsKept
  <2>7. Ordered'
    <3> SUFFICES ASSUME ~nested PROVE Ordered'
      BY <1>1 DEF Ordered
    <3>1. /\ f = << >> /\ n < MaxQueue
          /\ \A x \in OQ!Range(replayed) : x < r
          /\ \A y \in OQ!Range(queue) : r < y
          /\ OQ!Increasing(replayed) /\ OQ!Increasing(queue)
          /\ \A x \in OQ!Range(replayed), y \in OQ!Range(queue) : x < y
      BY <1>2, <1>5 DEF QueueInv, Ordered, n
    <3>2. OQ!Increasing(queue')
      <4>1. \A i \in 1 .. n : r < queue[i]
        BY <2>4, <3>1 DEF OQ!Range
      <4>2. \A i, j \in 1 .. n : i < j => queue[i] < queue[j]
        BY <2>4, <3>1 DEF OQ!Increasing
      <4>3. ASSUME NEW i \in 1 .. n + 1, NEW j \in 1 .. n + 1, i < j
            PROVE  queue'[i] < queue'[j]
        <5>1. j \in 2 .. n + 1 /\ j - 1 \in 1 .. n /\ queue'[j] = queue[j - 1]
          BY <2>3, <2>4, <4>3
        <5>2. CASE i = 1
          BY <2>3, <4>1, <5>1, <5>2
        <5>3. CASE i # 1
          <6>1. i \in 2 .. n + 1 /\ i - 1 \in 1 .. n /\ i - 1 < j - 1 /\ queue'[i] = queue[i - 1]
            BY <2>3, <2>4, <4>3, <5>3
          <6> QED
            BY <4>2, <5>1, <6>1
        <5> QED
          BY <5>2, <5>3
      <4> QED
        BY <2>4, <4>3 DEF OQ!Increasing
    <3>3. Len(queue') <= MaxQueue
      BY <2>3, <2>4, <3>1 DEF OQ!QueueAssumption
    <3>4. \A x \in OQ!Range(replayed), y \in OQ!Range(queue') : x < y
      BY <2>3, <3>1
    <3>5. DOMAIN sends' = {}
      BY <1>1, <3>1
    <3> QED
      BY <1>1, <3>1, <3>2, <3>3, <3>4, <3>5 DEF Ordered
  <2> QED
    BY <2>5, <2>6, <2>7 DEF QueueInv
<1> QED
  BY <1>4, <1>5 DEF OQ!SendFails

\* The queue is cleared.
LEMMA ClearKeeps ==
    ASSUME OQ!QueueAssumption, QueueInv, OQ!Clear
    PROVE  QueueInv'
<1>1. /\ queue' = << >> /\ cleared' = cleared \cup OQ!Range(queue)
      /\ sends' = sends /\ requests' = requests /\ replayed' = replayed /\ sent' = sent
      /\ refused' = refused /\ nested' = nested
  BY DEF OQ!Clear
<1>2. OQ!Range(queue') = {} /\ OQ!IsInjective(queue') /\ OQ!Increasing(queue') /\ Len(queue') = 0
  BY <1>1 DEF OQ!Range, OQ!IsInjective, OQ!Increasing
<1>3. QueueTypes'
  BY <1>1 DEF QueueInv, QueueTypes
<1>4. RequestsKept'
  <2>1. Partition({}, Reqs(sends), OQ!Range(replayed), sent, refused, cleared \cup OQ!Range(queue), requests)
    BY DEF QueueInv, RequestsKept, Partition
  <2> QED
    BY Zenon, <1>1, <1>2, <2>1 DEF QueueInv, RequestsKept
<1>5. Ordered'
  <2> SUFFICES ASSUME ~nested PROVE Ordered'
    BY Zenon, <1>1 DEF Ordered
  <2>1. Ordered /\ queue \in Seq(Nat) /\ MaxQueue \in Nat
    BY Zenon DEF QueueInv, QueueTypes, OQ!QueueAssumption
  <2>2. Len(queue') <= MaxQueue /\ (Len(queue) < MaxQueue => Len(queue') < MaxQueue)
    <3>1. Len(queue) \in Nat
      BY Zenon, <2>1, LenProperties
    <3> QED
      BY <1>2, <2>1, <3>1
  <2> QED
    BY Zenon, <1>1, <1>2, <2>1, <2>2 DEF Ordered
<1> QED
  BY <1>3, <1>4, <1>5 DEF QueueInv

\* The three invariants are inductive together.
LEMMA QueueInductive ==
    ASSUME OQ!QueueAssumption
    PROVE  (OQ!Init => QueueInv) /\ (QueueInv /\ [OQ!Next]_(OQ!vars) => QueueInv')
<1>1. ASSUME OQ!Init PROVE QueueInv
  <2>1. OQ!Range(<< >>) = {} /\ Reqs(<< >>) = {} /\ OQ!IsInjective(<< >>) /\ Once(<< >>) /\ OQ!Increasing(<< >>)
    <3>1. OQ!Range(<< >>) = {}
      BY DEF OQ!Range
    <3>2. Reqs(<< >>) = {}
      BY DEF Reqs
    <3>3. OQ!IsInjective(<< >>)
      BY DEF OQ!IsInjective
    <3>4. Once(<< >>)
      BY DEF Once
    <3>5. OQ!Increasing(<< >>)
      BY DEF OQ!Increasing
    <3> QED
      BY Zenon, <3>1, <3>2, <3>3, <3>4, <3>5
  <2>2. QueueTypes
    BY ZenonT(30), <1>1, EmptySeq DEF OQ!Init, QueueTypes
  <2>3. RequestsKept
    BY <1>1, <2>1 DEF OQ!Init, RequestsKept, Partition
  <2>4. Ordered
    BY <1>1, <2>1 DEF OQ!Init, Ordered, OQ!QueueAssumption
  <2> QED
    BY Zenon, <2>2, <2>3, <2>4 DEF QueueInv
<1>2. ASSUME QueueInv, [OQ!Next]_(OQ!vars) PROVE QueueInv'
  <2>1. CASE UNCHANGED OQ!vars
    BY <1>2, <2>1 DEF QueueInv, QueueTypes, RequestsKept, Ordered, OQ!vars
  <2>2. ASSUME NEW ok \in BOOLEAN, OQ!Check(ok) PROVE QueueInv'
    BY Zenon, <1>2, <2>2 DEF OQ!Check, QueueInv, QueueTypes, RequestsKept, Ordered, OQ!outcome
  <2>3. CASE OQ!Enqueue
    BY <1>2, <2>3, EnqueueKeeps DEF OQ!Enqueue
  <2>4. CASE OQ!SubmitQueues
    BY <1>2, <2>4, EnqueueKeeps DEF OQ!SubmitQueues
  <2> QED
    BY <1>2, <2>1, <2>2, <2>3, <2>4, SubmitSendsKeeps, DrainKeeps, SendOkKeeps, SendFailsKeeps,
       ClearKeeps DEF OQ!Next
<1> QED
  BY <1>1, <1>2

\* Every request is queued, being sent, sent once, refused or cleared
\* (OfflineQueue::submit, enqueue, drain, clear), for every capacity and however
\* the callbacks nest.
THEOREM NothingIsLost ==
    ASSUME OQ!QueueAssumption
    PROVE  OQ!Spec => []OQ!NoneLostNoneTwice
<1>1. QueueInv => OQ!NoneLostNoneTwice
  BY DEF QueueInv, RequestsKept, Partition, OQ!NoneLostNoneTwice, OQ!Sending, Reqs, Once
<1> QED
  BY <1>1, QueueInductive, PTL DEF OQ!Spec

\* Without nested calls drain replays in the order of the requests.
THEOREM ReplaysInOrder ==
    ASSUME OQ!QueueAssumption
    PROVE  OQ!Spec => []OQ!ReplayIsFifo
<1>1. QueueInv => OQ!ReplayIsFifo
  <2> SUFFICES ASSUME QueueInv, ~nested PROVE OQ!Increasing(replayed \o queue)
    BY DEF OQ!ReplayIsFifo
  <2> DEFINE c == replayed \o queue
             m == Len(replayed)
             n == Len(queue)
  <2>1. /\ replayed \in Seq(Nat) /\ queue \in Seq(Nat) /\ OQ!Increasing(replayed) /\ OQ!Increasing(queue)
        /\ \A x \in OQ!Range(replayed), y \in OQ!Range(queue) : x < y
    BY DEF QueueInv, QueueTypes, Ordered
  <2>2. /\ m \in Nat /\ n \in Nat /\ DOMAIN replayed = 1 .. m /\ DOMAIN queue = 1 .. n
        /\ c \in Seq(Nat) /\ Len(c) = m + n
        /\ \A i \in 1 .. m + n : c[i] = IF i <= m THEN replayed[i] ELSE queue[i - m]
    BY <2>1, ConcatProperties
  <2>3. DOMAIN c = 1 .. m + n
    BY <2>2
  <2>4. \A i \in 1 .. m, j \in 1 .. n : replayed[i] < queue[j]
    BY Zenon, <2>1, <2>2 DEF OQ!Range
  <2>5. /\ \A i, j \in 1 .. m : i < j => replayed[i] < replayed[j]
        /\ \A i, j \in 1 .. n : i < j => queue[i] < queue[j]
    BY Zenon, <2>1, <2>2 DEF OQ!Increasing
  <2> HIDE DEF c, m, n
  <2>6. ASSUME NEW i \in 1 .. m + n, NEW j \in 1 .. m + n, i < j PROVE c[i] < c[j]
    <3>1. CASE j <= m
      BY <2>2, <2>5, <2>6, <3>1
    <3>2. CASE i <= m /\ j > m
      <4>1. j - m \in 1 .. n
        BY <2>2, <3>2
      <4> QED
        BY <2>2, <2>4, <3>2, <4>1
    <3>3. CASE i > m
      <4>1. i - m \in 1 .. n /\ j - m \in 1 .. n /\ i - m < j - m /\ j > m
        BY <2>2, <2>6, <3>3
      <4> QED
        BY <2>2, <2>5, <3>3, <4>1
    <3> QED
      BY <2>2, <3>1, <3>2, <3>3
  <2>7. OQ!Increasing(c)
    BY <2>3, <2>6 DEF OQ!Increasing
  <2> QED
    BY <2>7 DEF c
<1> QED
  BY <1>1, QueueInductive, PTL DEF OQ!Spec

\* Without nested calls the queue never exceeds max_queue.
THEOREM QueueStaysBounded ==
    ASSUME OQ!QueueAssumption
    PROVE  OQ!Spec => []OQ!QueueIsBounded
<1>1. QueueInv => OQ!QueueIsBounded
  BY DEF QueueInv, Ordered, OQ!QueueIsBounded
<1> QED
  BY <1>1, QueueInductive, PTL DEF OQ!Spec

=============================================================================
