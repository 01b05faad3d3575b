------------------------------ MODULE ConnPool ------------------------------
(***************************************************************************)
(* The pool of HTTP/1.1 connections to the Podman socket                   *)
(* (connection/libpod/client/link/pool/mod.rs) with a cap above zero, and  *)
(* the buffered request that uses it (exchange/send/buffered.rs): acquire  *)
(* a connection, send, read the head and the body, drop the guard.         *)
(*                                                                         *)
(* The mutex is held for one action; what runs outside it -- awaiting      *)
(* ready(), opening a socket, the notification that follows an unlock -- is *)
(* an action of its own.  A caller can be dropped at every await: by       *)
(* CONNECT_TIMEOUT around the acquire, or with its future when a sibling   *)
(* fails.  Sockets and tokio's Notify are modelled from their contracts:   *)
(* hyper announces readiness (settling -> ready) some time after the reader *)
(* saw the end of a body, an abandoned response is drained or the socket   *)
(* closed, and Podman may close a socket at any time.                      *)
(*                                                                         *)
(* An idle connection is never poisoned (a poisoned one is not pushed), so *)
(* the discarding loop at the head of acquire has nothing to do.           *)
(***************************************************************************)
EXTENDS Integers, Sequences, FiniteSets

CONSTANTS
    Caller,     \* the concurrent requests
    Conn,       \* connection identities, reused once a connection is gone
    Cap,        \* the pool's cap
    NoConn,     \* a caller that holds no connection
    Cancels     \* whether callers can be dropped at an await

ASSUME CallerAssumption == IsFiniteSet(Caller)
ASSUME CapAssumption    == Cap \in Nat \ {0}
ASSUME ConnAssumption   == NoConn \notin Conn
ASSUME CancelsAssumption == Cancels \in BOOLEAN

VARIABLES
    idle,       \* PoolInner.idle
    live_count, \* PoolInner.live_count
    closed,     \* PoolInner.closed
    permit,     \* the permit Notify stores when nobody is waiting
    waitq,      \* the callers Notify has queued
    pc,         \* where each caller is
    conn,       \* the connection a caller holds
    transient,  \* PoolGuard.transient
    poisoned,   \* PooledConn.poisoned, of the connection a caller holds
    sock        \* the state of each socket

vars == <<idle, live_count, closed, permit, waitq, pc, conn, transient, poisoned, sock>>
pool == <<idle, live_count, closed>>
notify == <<permit, waitq>>
guard == <<conn, transient, poisoned>>

Using == {"send", "head", "body", "drop"}
PCs == {"out", "top", "ready", "open", "openTransient", "poll", "asleep", "woken",
        "notifyOut", "notifyTop"} \cup Using

TypeOK ==
    /\ idle \in Seq(Conn)
    /\ live_count \in Int
    /\ closed \in BOOLEAN /\ permit \in BOOLEAN
    /\ waitq \in Seq(Caller)
    /\ pc \in [Caller -> PCs]
    /\ conn \in [Caller -> Conn \cup {NoConn}]
    /\ transient \subseteq Caller /\ poisoned \subseteq Caller
    /\ sock \in [Conn -> {"none", "ready", "busy", "settling", "closed"}]

Init ==
    /\ idle = <<>> /\ live_count = 0 /\ closed = FALSE
    /\ permit = FALSE /\ waitq = <<>>
    /\ pc = [p \in Caller |-> "out"]
    /\ conn = [p \in Caller |-> NoConn]
    /\ transient = {} /\ poisoned = {}
    /\ sock = [c \in Conn |-> "none"]

Goto(p, l) == pc' = [pc EXCEPT ![p] = l]

\* Notify::notify_one: wake the first waiter, or leave one permit for the next.
notify_one(p, l) ==
    IF waitq = <<>>
      THEN permit' = TRUE /\ Goto(p, l) /\ UNCHANGED waitq
      ELSE /\ waitq' = Tail(waitq)
           /\ pc' = [pc EXCEPT ![p] = l, ![Head(waitq)] = "woken"]
           /\ UNCHANGED permit

-----------------------------------------------------------------------------
\* acquire.  Each turn of the loop creates its waiter, then looks at the pool
\* under the lock.
Enter(p) ==
    /\ pc[p] = "out" /\ Goto(p, "top")
    /\ UNCHANGED <<pool, notify, guard, sock>>

RejectClosed(p) ==
    /\ pc[p] = "top" /\ closed /\ Goto(p, "out")
    /\ UNCHANGED <<pool, notify, guard, sock>>

\* Mutant: the connection is handed out and stays in the queue.
TakeIdleNoPop(p) ==
    /\ pc[p] = "top" /\ ~closed /\ idle # <<>>
    /\ conn' = [conn EXCEPT ![p] = Head(idle)]
    /\ Goto(p, "ready")
    /\ UNCHANGED <<pool, notify, transient, poisoned, sock>>

TakeIdle(p) ==
    /\ pc[p] = "top" /\ ~closed /\ idle # <<>>
    /\ idle' = Tail(idle)
    /\ conn' = [conn EXCEPT ![p] = Head(idle)]
    /\ Goto(p, "ready")
    /\ UNCHANGED <<live_count, closed, notify, transient, poisoned, sock>>

ReserveSlot(p) ==
    /\ pc[p] = "top" /\ ~closed /\ idle = <<>> /\ live_count < Cap
    /\ live_count' = live_count + 1
    /\ Goto(p, "open")
    /\ UNCHANGED <<idle, closed, notify, guard, sock>>

AtCap(p) ==
    /\ pc[p] = "top" /\ ~closed /\ idle = <<>> /\ live_count >= Cap
    /\ Goto(p, "openTransient")
    /\ UNCHANGED <<pool, notify, guard, sock>>

\* Mutant: the connection is handed out without awaiting ready().
ReadyAssumed(p) ==
    /\ pc[p] = "ready" /\ sock[conn[p]] # "closed"
    /\ Goto(p, "send")
    /\ UNCHANGED <<pool, notify, guard, sock>>

\* SendRequest::ready() returned: the driver has announced the write side.
Ready(p) ==
    /\ pc[p] = "ready" /\ sock[conn[p]] = "ready"
    /\ Goto(p, "send")
    /\ UNCHANGED <<pool, notify, guard, sock>>

\* The connection is closed, or ready() failed: give the slot back, notify
\* and go round again.
NotReady(p) ==
    /\ pc[p] = "ready" /\ sock[conn[p]] = "closed"
    /\ live_count' = live_count - 1
    /\ sock' = [sock EXCEPT ![conn[p]] = "none"]
    /\ conn' = [conn EXCEPT ![p] = NoConn]
    /\ Goto(p, "notifyTop")
    /\ UNCHANGED <<idle, closed, notify, transient, poisoned>>

\* Mutant: a connection beside the pool is not marked transient.
OpenedUnmarked(p, c) ==
    /\ pc[p] \in {"open", "openTransient"} /\ sock[c] = "none"
    /\ sock' = [sock EXCEPT ![c] = "ready"]
    /\ conn' = [conn EXCEPT ![p] = c]
    /\ Goto(p, "send")
    /\ UNCHANGED <<pool, notify, poisoned, transient>>

\* open_one succeeds, for a slot of the pool or beside it.
Opened(p, c) ==
    /\ pc[p] \in {"open", "openTransient"} /\ sock[c] = "none"
    /\ sock' = [sock EXCEPT ![c] = "ready"]
    /\ conn' = [conn EXCEPT ![p] = c]
    /\ transient' = IF pc[p] = "openTransient" THEN transient \cup {p} ELSE transient
    /\ Goto(p, "send")
    /\ UNCHANGED <<pool, notify, poisoned>>

OpenFailed(p) ==
    /\ pc[p] = "open"
    /\ live_count' = live_count - 1
    /\ Goto(p, "notifyOut")
    /\ UNCHANGED <<idle, closed, notify, guard, sock>>

\* A transient open that fails is swallowed: wait for a release instead.
TransientFailed(p) ==
    /\ pc[p] = "openTransient" /\ Goto(p, "poll")
    /\ UNCHANGED <<pool, notify, guard, sock>>

\* The waiter is awaited: a stored permit, or a close since it was created,
\* completes it at once; otherwise the caller sleeps.
PollWaiter(p) ==
    /\ pc[p] = "poll"
    /\ IF closed THEN Goto(p, "top") /\ UNCHANGED notify
       ELSE IF permit THEN Goto(p, "top") /\ permit' = FALSE /\ UNCHANGED waitq
       ELSE Goto(p, "asleep") /\ waitq' = Append(waitq, p) /\ UNCHANGED permit
    /\ UNCHANGED <<pool, guard, sock>>

Resume(p) ==
    /\ pc[p] = "woken" /\ Goto(p, "top")
    /\ UNCHANGED <<pool, notify, guard, sock>>

Notify(p) ==
    /\ pc[p] \in {"notifyOut", "notifyTop"}
    /\ notify_one(p, IF pc[p] = "notifyOut" THEN "out" ELSE "top")
    /\ UNCHANGED <<pool, guard, sock>>

-----------------------------------------------------------------------------
\* Client::send and BufferedResponse::read_body.
Send(p) ==
    /\ pc[p] = "send" /\ sock[conn[p]] = "ready"
    /\ sock' = [sock EXCEPT ![conn[p]] = "busy"]
    /\ Goto(p, "head")
    /\ UNCHANGED <<pool, notify, guard>>

\* send_request fails, the head times out, or the socket breaks: poison.
SendFailed(p) ==
    /\ \/ pc[p] = "send" /\ sock[conn[p]] # "ready"
       \/ pc[p] = "head"
    /\ poisoned' = poisoned \cup {p}
    /\ Goto(p, "drop")
    /\ UNCHANGED <<pool, notify, conn, transient, sock>>

\* The head arrives; `Connection: close` poisons the connection.
HeadRead(p) ==
    /\ pc[p] = "head" /\ sock[conn[p]] = "busy"
    /\ \/ UNCHANGED poisoned
       \/ poisoned' = poisoned \cup {p}
    /\ Goto(p, "body")
    /\ UNCHANGED <<pool, notify, conn, transient, sock>>

\* The read side has the whole body; the write side announces itself later.
BodyRead(p) ==
    /\ pc[p] = "body" /\ sock[conn[p]] = "busy"
    /\ sock' = [sock EXCEPT ![conn[p]] = "settling"]
    /\ Goto(p, "drop")
    /\ UNCHANGED <<pool, notify, guard>>

\* The socket breaks, the body is too large or READ_TIMEOUT passes.
BodyFailed(p) ==
    /\ pc[p] = "body"
    /\ Goto(p, "drop")
    /\ UNCHANGED <<pool, notify, guard, sock>>

\* Mutants: a transient connection gives back a slot it never had; dropping a
\* poisoned connection notifies nobody.
ReleaseAlwaysCounts(p) ==
    /\ IF p \in transient \/ p \in poisoned
         THEN /\ sock' = [sock EXCEPT ![conn[p]] = "none"]
              /\ live_count' = live_count - 1 /\ UNCHANGED idle
         ELSE idle' = Append(idle, conn[p]) /\ UNCHANGED <<sock, live_count>>
    /\ Goto(p, IF p \in transient THEN "out" ELSE "notifyOut")
    /\ conn' = [conn EXCEPT ![p] = NoConn]
    /\ transient' = transient \ {p} /\ poisoned' = poisoned \ {p}
    /\ UNCHANGED <<closed, notify>>
ReleaseQuietly(p) ==
    /\ IF p \in transient \/ p \in poisoned
         THEN sock' = [sock EXCEPT ![conn[p]] = "none"] /\ UNCHANGED idle
         ELSE idle' = Append(idle, conn[p]) /\ UNCHANGED sock
    /\ live_count' = IF p \notin transient /\ p \in poisoned THEN live_count - 1 ELSE live_count
    /\ Goto(p, IF p \in transient \cup poisoned THEN "out" ELSE "notifyOut")
    /\ conn' = [conn EXCEPT ![p] = NoConn]
    /\ transient' = transient \ {p} /\ poisoned' = poisoned \ {p}
    /\ UNCHANGED <<closed, notify>>

\* PoolGuard::drop and ConnPool::release up to the unlock.
Release(p) ==
    /\ IF p \in transient \/ p \in poisoned
         THEN /\ sock' = [sock EXCEPT ![conn[p]] = "none"]
              /\ UNCHANGED idle
         ELSE idle' = Append(idle, conn[p]) /\ UNCHANGED sock
    /\ live_count' = IF p \notin transient /\ p \in poisoned THEN live_count - 1 ELSE live_count
    /\ Goto(p, IF p \in transient THEN "out" ELSE "notifyOut")
    /\ conn' = [conn EXCEPT ![p] = NoConn]
    /\ transient' = transient \ {p} /\ poisoned' = poisoned \ {p}
    /\ UNCHANGED <<closed, notify>>

DropGuard(p) == pc[p] = "drop" /\ Release(p)

-----------------------------------------------------------------------------
\* The caller is dropped.  A popped connection or a reserved slot dies with
\* the acquire; a guard is released by its own drop.
CancelAcquire(p) ==
    /\ Cancels /\ pc[p] \in {"ready", "open", "openTransient"}
    /\ sock' = IF pc[p] = "ready" THEN [sock EXCEPT ![conn[p]] = "none"] ELSE sock
    /\ conn' = [conn EXCEPT ![p] = NoConn]
    /\ Goto(p, "out")
    /\ UNCHANGED <<pool, notify, transient, poisoned>>

\* Mutant: a dropped sleeper stays in the queue.
CancelWaitQueued(p) ==
    /\ Cancels /\ pc[p] = "asleep" /\ Goto(p, "out")
    /\ UNCHANGED <<pool, notify, guard, sock>>

CancelWait(p) ==
    /\ Cancels /\ pc[p] = "asleep"
    /\ \E i \in DOMAIN waitq :
          /\ waitq[i] = p
          /\ waitq' = [j \in 1 .. Len(waitq) - 1 |-> IF j < i THEN waitq[j] ELSE waitq[j + 1]]
    /\ Goto(p, "out")
    /\ UNCHANGED <<pool, permit, guard, sock>>

\* A notification not yet consumed is passed on.
CancelWoken(p) ==
    /\ Cancels /\ pc[p] = "woken"
    /\ notify_one(p, "out")
    /\ UNCHANGED <<pool, guard, sock>>

CancelRequest(p) == Cancels /\ pc[p] \in {"head", "body"} /\ Release(p)

\* Client::drop: no more acquires, no more idle connections.
Close ==
    /\ ~closed /\ closed' = TRUE
    /\ idle' = <<>>
    /\ sock' = [c \in Conn |-> IF \E i \in DOMAIN idle : idle[i] = c THEN "none" ELSE sock[c]]
    /\ waitq' = <<>>
    /\ pc' = [p \in Caller |-> IF pc[p] = "asleep" THEN "woken" ELSE pc[p]]
    /\ UNCHANGED <<live_count, permit, guard>>

-----------------------------------------------------------------------------
\* hyper's driver and Podman.
Held(c) == \E p \in Caller : conn[p] = c /\ pc[p] \in {"head", "body"}

Settle(c) ==
    /\ sock[c] = "settling" /\ sock' = [sock EXCEPT ![c] = "ready"]
    /\ UNCHANGED <<pool, notify, pc, guard>>

\* Nobody reads the response any more: it is drained, or the socket closed.
Abandoned(c) ==
    /\ sock[c] = "busy" /\ ~Held(c)
    /\ \E s \in {"settling", "closed"} : sock' = [sock EXCEPT ![c] = s]
    /\ UNCHANGED <<pool, notify, pc, guard>>

PeerCloses(c) ==
    /\ sock[c] \in {"ready", "busy", "settling"} /\ sock' = [sock EXCEPT ![c] = "closed"]
    /\ UNCHANGED <<pool, notify, pc, guard>>

Acquire(p) ==
    \/ RejectClosed(p) \/ TakeIdle(p) \/ ReserveSlot(p) \/ AtCap(p) \/ Ready(p) \/ NotReady(p)
    \/ OpenFailed(p) \/ TransientFailed(p) \/ PollWaiter(p) \/ Resume(p) \/ Notify(p)
    \/ \E c \in Conn : Opened(p, c)
Request(p) ==
    Send(p) \/ SendFailed(p) \/ HeadRead(p) \/ BodyRead(p) \/ BodyFailed(p) \/ DropGuard(p)
Cancel(p) == CancelAcquire(p) \/ CancelWait(p) \/ CancelWoken(p) \/ CancelRequest(p)
Driver(c) == Settle(c) \/ Abandoned(c)

Next ==
    \/ \E p \in Caller : Enter(p) \/ Acquire(p) \/ Request(p) \/ Cancel(p)
    \/ \E c \in Conn : Driver(c) \/ PeerCloses(c)
    \/ Close

Spec == Init /\ [][Next]_vars

\* Every future that can move is polled, the driver task runs, and a request
\* ends: an open and a body have timeouts, and so has a head, but for the posts
\* that wait for a container (post_empty_json_unbounded).  Behind one of those
\* it is CONNECT_TIMEOUT that ends a sleep.
FairSpec ==
    /\ Spec
    /\ \A p \in Caller : WF_vars(Acquire(p)) /\ WF_vars(Request(p))
    /\ \A c \in Conn : WF_vars(Driver(c))

-----------------------------------------------------------------------------
\* The callers whose connection, or connection to be, has a slot of the pool.
InSlot(p) == pc[p] \in {"ready", "open"} \/ (pc[p] \in Using /\ p \notin transient)
SlotHolders == {p \in Caller : InSlot(p)}

\* Every connection the pool tracks, idle or in use, has a slot, and there are
\* never more slots than the cap: the counter never underflows, and reuse
\* never grows past what was configured, however callers fail or are dropped.
SlotsCovered ==
    /\ Len(idle) + Cardinality(SlotHolders) <= live_count
    /\ live_count <= Cap

\* A connection has one owner: one caller, or one place in the idle queue.  A
\* second caller writing to it would interleave two requests (issue 1740).
OneOwner ==
    /\ \A p, q \in Caller : conn[p] = conn[q] /\ conn[p] # NoConn => p = q
    /\ \A i, j \in DOMAIN idle : idle[i] = idle[j] => i = j
    /\ \A p \in Caller, i \in DOMAIN idle : conn[p] # idle[i]

\* A caller about to send finds the write side announced and no response of an
\* earlier request on the wire, unless the peer has closed (issue 1758).
HandedOutReady ==
    \A p \in Caller : pc[p] = "send" => sock[conn[p]] \in {"ready", "closed"}

\* A queued caller is asleep and every sleeper is queued once: a release can
\* never wake somebody who left, and nobody sleeps where no release looks.
SleepersQueued ==
    /\ \A i, j \in DOMAIN waitq : waitq[i] = waitq[j] => i = j
    /\ \A p \in Caller : pc[p] = "asleep" <=> \E i \in DOMAIN waitq : waitq[i] = p

\* pool/mod.rs, AcquireStep::Open: "A slot in `live_count` was already reserved
\* under the lock, so the open runs outside the lock and any failure gives the
\* slot back."  The counter is then the number of connections tracked.
SlotsGivenBack ==
    ~closed => live_count <= Len(idle) + Cardinality(SlotHolders)

\* A sleeper is always woken again, by a release that finds it queued or by a
\* permit somebody left behind, whoever fails or is dropped meanwhile -- as long
\* as no slot is lost: a caller dropped between the reservation of its slot and
\* its guard takes the slot with it, and the last one leaves nobody to notify.
\* (It may still find the pool full and sleep again; CONNECT_TIMEOUT ends it.)
SleeperWoken ==
    []SlotsGivenBack => \A p \in Caller : pc[p] = "asleep" ~> pc[p] # "asleep"

\* What SlotsCovered and OneOwner rest on: who holds a connection, that a held
\* or idle connection has a socket, and that only sleepers are ever woken.
Holding ==
    /\ \A p \in Caller : conn[p] # NoConn <=> pc[p] \in {"ready"} \cup Using
    /\ \A p \in transient : pc[p] \in Using
    /\ \A p \in Caller : conn[p] # NoConn => sock[conn[p]] # "none"
    /\ \A i \in DOMAIN idle : sock[idle[i]] # "none"

IInv == TypeOK /\ SleepersQueued /\ Holding /\ OneOwner /\ SlotsCovered

=============================================================================
