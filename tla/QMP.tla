--------------------------------- MODULE QMP ---------------------------------
(***************************************************************************)
(* internal/vm.QMP: one connection to QEMU's monitor, shared by the        *)
(* commands of many requests.                                              *)
(*                                                                         *)
(* A call is one command: Reset, Pause, Resume, Shutdown or a snapshot     *)
(* operation takes the client from the manager (qmpClient), and Execute    *)
(* registers a channel under a fresh id, sends the request and waits.      *)
(* readLoop finds the channel of a reply by its id.  A critical section of *)
(* the client's mutex is one action.  Replies may overtake each other;     *)
(* events carry no id and are left out.                                    *)
(***************************************************************************)
EXTENDS Naturals, FiniteSets

CONSTANTS
    Calls,    \* calls of Execute
    Empty,    \* nothing is in the channel of a call
    Closed    \* the channel of a call is closed

ASSUME QMPAssumption ==
    /\ IsFiniteSet(Calls)
    /\ Empty \notin Calls /\ Closed \notin Calls /\ Empty # Closed

VARIABLES
    published, \* Manager.qmp is this client and the guest is running
    closer,    \* the goroutine in which onExit calls Close
    conn,      \* the TCP connection
    asked,     \* requests QEMU has not answered: ids, with the call they are of
    replies,   \* replies readLoop has not read: ids, with the call answered
    reader,    \* readLoop; q.err is set unless it is "reading"
    hand,      \* the channel and the reply readLoop holds between unlock and send
    nextID,    \* q.nextID
    pending,   \* q.pending: ids, with the call whose channel it is
    pc,        \* where each call stands
    id,        \* the local id of each call
    box        \* its channel: Empty, Closed, or the call whose reply is in it

manager == <<published, closer>>
wire    == <<conn, asked, replies>>
client  == <<reader, hand, nextID, pending>>
callers == <<pc, id, box>>
vars    == <<manager, wire, client, callers>>

Entries == Nat \X Calls

TypeOK ==
    /\ published \in BOOLEAN
    /\ closer \in {"none", "closing", "waiting", "closed"}
    /\ conn \in {"up", "down"}
    /\ asked \in SUBSET Entries
    /\ replies \in SUBSET Entries
    /\ reader \in {"reading", "failed", "ended"}
    /\ hand \in SUBSET (Calls \X Calls)
    /\ nextID \in Nat
    /\ pending \in SUBSET Entries
    /\ pc \in [Calls -> {"idle", "picked", "waiting", "replied", "failed"}]
    /\ id \in [Calls -> Nat]
    /\ box \in [Calls -> Calls \cup {Empty, Closed}]

Init ==
    /\ published = TRUE /\ closer = "none"
    /\ conn = "up" /\ asked = {} /\ replies = {}
    /\ reader = "reading" /\ hand = {}
    /\ nextID = 0 /\ pending = {}
    /\ pc = [c \in Calls |-> "idle"]
    /\ id = [c \in Calls |-> 0]
    /\ box = [c \in Calls |-> Empty]

-----------------------------------------------------------------------------
(***************************************************************************)
(* A command of the manager, and Execute.                                  *)
(***************************************************************************)
\* qmpClient(): the client, or ErrNotRunning.
Pick(c) ==
    /\ pc[c] = "idle"
    /\ pc' = [pc EXCEPT ![c] = IF published THEN "picked" ELSE "failed"]
    /\ UNCHANGED <<manager, wire, client, id, box>>

\* q.err # nil
Refused(c) ==
    /\ pc[c] = "picked" /\ reader # "reading"
    /\ pc' = [pc EXCEPT ![c] = "failed"]
    /\ UNCHANGED <<manager, wire, client, id, box>>

\* Bug: ids are given back when a call returns.
RegisterReusesID(c) ==
    /\ pc[c] = "picked" /\ reader = "reading"
    /\ nextID' = Cardinality(pending) + 1
    /\ id' = [id EXCEPT ![c] = nextID']
    /\ pending' = {e \in pending : e[1] # nextID'} \cup {<<nextID', c>>}

\* Bug: q.err is not looked at.
RegisterAnyway(c) ==
    /\ pc[c] = "picked"
    /\ nextID' = nextID + 1
    /\ id' = [id EXCEPT ![c] = nextID']
    /\ pending' = pending \cup {<<nextID', c>>}

\* A fresh id and its entry, under the mutex, which is held until Encode returns.
Register(c) ==
    /\ pc[c] = "picked" /\ reader = "reading"
    /\ nextID' = nextID + 1
    /\ id' = [id EXCEPT ![c] = nextID']
    /\ pending' = pending \cup {<<nextID', c>>}

\* Encode succeeds.  What is written to a broken connection is lost.
Send(c) ==
    /\ Register(c)
    /\ asked' = IF conn = "up" THEN asked \cup {<<nextID', c>>} ELSE asked
    /\ pc' = [pc EXCEPT ![c] = "waiting"]
    /\ UNCHANGED <<manager, conn, replies, reader, hand, box>>

\* Encode fails: Execute returns, and the entry stays.
SendFails(c) ==
    /\ conn = "down"
    /\ Register(c)
    /\ pc' = [pc EXCEPT ![c] = "failed"]
    /\ UNCHANGED <<manager, wire, reader, hand, box>>

\* select: case resp, ok := <-ch.  An error that QEMU reports is a reply, too.
Receive(c) ==
    /\ pc[c] = "waiting" /\ box[c] # Empty
    /\ pc' = [pc EXCEPT ![c] = IF box[c] = Closed THEN "failed" ELSE "replied"]
    /\ UNCHANGED <<manager, wire, client, id, box>>

\* Bug: the entry stays.
ForgetNothing(c) == UNCHANGED pending

\* delete(q.pending, id)
Forget(c) == pending' = {e \in pending : e[1] # id[c]}

\* select: case <-ctx.Done(), and the critical section after it.
TimeOut(c) ==
    /\ pc[c] = "waiting"
    /\ Forget(c)
    /\ pc' = [pc EXCEPT ![c] = "failed"]
    /\ UNCHANGED <<manager, wire, reader, hand, nextID, id, box>>

-----------------------------------------------------------------------------
(***************************************************************************)
(* readLoop.                                                               *)
(***************************************************************************)
\* A reply to the call a is read; its entry, if there still is one, is deleted.
ReadReply(i, a) ==
    /\ reader = "reading" /\ hand = {}
    /\ <<i, a>> \in replies
    /\ replies' = replies \ {<<i, a>>}
    /\ hand' = {<<c, a>> : c \in {d \in Calls : <<i, d>> \in pending}}
    /\ pending' = {e \in pending : e[1] # i}
    /\ UNCHANGED <<manager, conn, asked, reader, nextID, callers>>

\* ch <- resp, after the mutex was left.
HandOver(c, a) ==
    /\ <<c, a>> \in hand
    /\ hand' = {}
    /\ box' = [box EXCEPT ![c] = a]
    /\ UNCHANGED <<manager, wire, reader, nextID, pending, pc, id>>

\* Bug: the entries are deleted, their channels stay open.
ReadFailsSilently ==
    /\ reader = "reading" /\ hand = {} /\ conn = "down"
    /\ reader' = "failed"
    /\ pending' = {}
    /\ replies' = {}
    /\ UNCHANGED <<manager, conn, asked, hand, nextID, callers>>

\* ReadBytes fails: q.err is set and every channel in pending is closed.
ReadFails ==
    /\ reader = "reading" /\ hand = {} /\ conn = "down"
    /\ reader' = "failed"
    /\ box' = [c \in Calls |-> IF \E e \in pending : e[2] = c THEN Closed ELSE box[c]]
    /\ pending' = {}
    /\ replies' = {}
    /\ UNCHANGED <<manager, conn, asked, hand, nextID, pc, id>>

\* close(q.Events), return, close(q.closed)
ReaderEnds ==
    /\ reader = "failed"
    /\ reader' = "ended"
    /\ UNCHANGED <<manager, wire, hand, nextID, pending, callers>>

-----------------------------------------------------------------------------
(***************************************************************************)
(* QEMU and the manager.                                                   *)
(***************************************************************************)
Answer(i, c) ==
    /\ conn = "up" /\ <<i, c>> \in asked
    /\ asked' = asked \ {<<i, c>>}
    /\ replies' = replies \cup {<<i, c>>}
    /\ UNCHANGED <<manager, conn, client, callers>>

\* QEMU ends or drops the connection.
Lose ==
    /\ conn = "up"
    /\ conn' = "down"
    /\ UNCHANGED <<manager, asked, replies, client, callers>>

\* onExit: the client is no longer given out, and a goroutine closes it.
Unpublish ==
    /\ published
    /\ published' = FALSE /\ closer' = "closing"
    /\ UNCHANGED <<wire, client, callers>>

\* Close: conn.Close(), then <-q.closed.
CloseConn ==
    /\ closer = "closing"
    /\ closer' = "waiting" /\ conn' = "down"
    /\ UNCHANGED <<published, asked, replies, client, callers>>

CloseReturns ==
    /\ closer = "waiting" /\ reader = "ended"
    /\ closer' = "closed"
    /\ UNCHANGED <<published, wire, client, callers>>

-----------------------------------------------------------------------------
ReadLoop ==
    \/ \E e \in replies : ReadReply(e[1], e[2])
    \/ \E h \in hand : HandOver(h[1], h[2])
    \/ ReadFails \/ ReaderEnds

Execute(c) == Refused(c) \/ Send(c) \/ SendFails(c) \/ Receive(c)

Next ==
    \/ \E c \in Calls : Pick(c) \/ Execute(c) \/ TimeOut(c)
    \/ ReadLoop
    \/ \E e \in asked : Answer(e[1], e[2])
    \/ Lose \/ Unpublish \/ CloseConn \/ CloseReturns

Spec == Init /\ [][Next]_vars

\* Goroutines that can go on do.  QEMU need not answer, no deadline need pass,
\* and nobody need close the connection.
FairSpec ==
    /\ Spec
    /\ WF_vars(ReadLoop)
    /\ \A c \in Calls : WF_vars(Execute(c))
    /\ WF_vars(CloseConn) /\ WF_vars(CloseReturns)

-----------------------------------------------------------------------------
\* A reply reaches the command it answers and no other, although replies
\* overtake each other, arrive after the deadline of their command, and the
\* connection breaks between any two steps.
ReplyIsOwn == \A c \in Calls : box[c] \in {c, Empty, Closed}

\* No command waits for a channel that nobody will serve: its entry is there and
\* readLoop is alive, or its reply is on the way to the channel, or the channel
\* has been filled or closed.
WaiterIsServed ==
    \A c \in Calls :
        pc[c] = "waiting" =>
            \/ <<id[c], c>> \in pending /\ reader = "reading"
            \/ \E a \in Calls : <<c, a>> \in hand
            \/ box[c] # Empty

\* As long as the connection is up, pending holds the commands that wait and
\* nothing else: a command that gave up leaves no entry behind.
NoEntryLeaks == conn = "up" => \A e \in pending : pc[e[2]] = "waiting"

\* When the connection is lost every command that waits on it returns, also one
\* without a deadline, and one that was about to wait is turned away.
LossWakesAll == \A c \in Calls : (conn = "down" /\ pc[c] \in {"picked", "waiting"})
                                     ~> pc[c] \in {"replied", "failed"}
=============================================================================
