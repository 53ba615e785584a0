------------------------------ MODULE QMPProofs ------------------------------
(***************************************************************************)
(* Theorems about QMP, for every finite set of commands.                   *)
(***************************************************************************)
EXTENDS QMP, TLAPS

\* A request keeps the id that was drawn for it, from Execute to readLoop.
KeepsID(S) ==
    \A i \in Nat, c \in Calls :
        <<i, c>> \in S => id[c] = i /\ pc[c] \notin {"idle", "picked"}

RequestsKeepIDs == KeepsID(pending) /\ KeepsID(asked) /\ KeepsID(replies)

\* No two calls draw the same id; 0 stands for none.
IDsFresh ==
    /\ \A c \in Calls : id[c] <= nextID
    /\ \A c, d \in Calls : id[c] = id[d] /\ id[c] # 0 => c = d
    /\ \A c \in Calls : pc[c] \in {"idle", "picked"} => id[c] = 0 /\ box[c] = Empty
    /\ \A i \in Nat, c \in Calls : <<i, c>> \in pending => i # 0

\* readLoop holds at most one reply, for the call it is of, whose entry is gone.
HandIsOwn ==
    /\ \A c, a \in Calls : <<c, a>> \in hand =>
           a = c /\ id[c] # 0 /\ reader = "reading" /\ <<id[c], c>> \notin pending
    /\ \A c, a, d, b \in Calls : <<c, a>> \in hand /\ <<d, b>> \in hand => c = d

\* A channel is filled or closed only after its entry was deleted.
EntriesUnserved ==
    \A i \in Nat, c \in Calls : <<i, c>> \in pending => box[c] = Empty

\* That a reply is the caller's own follows only from the ids, which is why the
\* invariant follows a request from its entry to QEMU and back.
IInv ==
    /\ TypeOK /\ RequestsKeepIDs /\ IDsFresh /\ HandIsOwn /\ EntriesUnserved
    /\ ReplyIsOwn /\ WaiterIsServed /\ NoEntryLeaks

-----------------------------------------------------------------------------
\* The connection as DialQMP makes it.
LEMMA InitIInv == Init => IInv
BY QMPAssumption
   DEF Init, IInv, TypeOK, Entries, RequestsKeepIDs, KeepsID, IDsFresh, HandIsOwn,
       EntriesUnserved, ReplyIsOwn, WaiterIsServed, NoEntryLeaks

\* A command that has no request of its own in flight changes its place only.
LEMMA MoveIInv ==
    ASSUME IInv, NEW c \in Calls, NEW p,
           p \in {"picked", "replied", "failed"},
           pc[c] \in {"idle", "picked"} \/ box[c] # Empty,
           p = "picked" => pc[c] = "idle",
           pc' = [pc EXCEPT ![c] = p],
           UNCHANGED <<manager, wire, client, id, box>>
    PROVE  IInv'
<1> USE QMPAssumption DEF IInv, manager, wire, client
<1>1. TypeOK'
  BY DEF TypeOK, Entries
<1>2. (p = "picked" => id[c] = 0 /\ box[c] = Empty) /\ \A i \in Nat : <<i, c>> \notin pending
  BY DEF IDsFresh, RequestsKeepIDs, KeepsID, EntriesUnserved
<1>3. RequestsKeepIDs'
  BY <1>2 DEF RequestsKeepIDs, KeepsID, TypeOK
<1>4. IDsFresh'
  BY <1>2 DEF IDsFresh, TypeOK
<1>5. HandIsOwn' /\ EntriesUnserved' /\ ReplyIsOwn'
  BY DEF HandIsOwn, EntriesUnserved, ReplyIsOwn
<1>6. WaiterIsServed'
  BY DEF WaiterIsServed, TypeOK
<1>7. NoEntryLeaks'
  BY <1>2 DEF NoEntryLeaks, TypeOK, Entries
<1> QED BY <1>1, <1>3, <1>4, <1>5, <1>6, <1>7

\* An id is drawn that no request has, and its entry is added.
LEMMA RegisterIInv ==
    ASSUME IInv, NEW c \in Calls, NEW p, Register(c),
           \/ p = "waiting"
           \/ p = "failed" /\ conn = "down",
           pc' = [pc EXCEPT ![c] = p],
           asked' \subseteq asked \cup {<<nextID', c>>},
           UNCHANGED <<manager, conn, replies, reader, hand, box>>
    PROVE  IInv'
<1> USE QMPAssumption DEF IInv, manager
<1>1. /\ nextID \in Nat /\ nextID' = nextID + 1 /\ nextID' \in Nat /\ nextID' # 0
      /\ id[c] = 0 /\ box[c] = Empty
      /\ pc[c] = "picked" /\ reader = "reading"
      /\ pending' = pending \cup {<<nextID', c>>}
      /\ \A d \in Calls : /\ pc'[d] = IF d = c THEN p ELSE pc[d]
                          /\ id'[d] = IF d = c THEN nextID' ELSE id[d]
                          /\ id[d] \in Nat
  BY DEF Register, TypeOK, IDsFresh
<1>2. TypeOK'
  <2>1. /\ pc' \in [Calls -> {"idle", "picked", "waiting", "replied", "failed"}]
        /\ id' \in [Calls -> Nat]
    BY <1>1 DEF Register, TypeOK
  <2>2. asked' \in SUBSET Entries /\ pending' \in SUBSET Entries
    BY <1>1 DEF TypeOK, Entries
  <2> QED BY <1>1, <2>1, <2>2 DEF TypeOK
<1>3. RequestsKeepIDs'
  BY <1>1 DEF RequestsKeepIDs, KeepsID
<1>4. IDsFresh'
  BY <1>1 DEF IDsFresh
<1>5. HandIsOwn'
  BY <1>1 DEF HandIsOwn
<1>6. EntriesUnserved' /\ ReplyIsOwn'
  BY <1>1 DEF EntriesUnserved, ReplyIsOwn
<1>7. WaiterIsServed'
  BY <1>1 DEF WaiterIsServed
<1>8. NoEntryLeaks'
  BY <1>1 DEF NoEntryLeaks, TypeOK, Entries
<1> QED BY <1>2, <1>3, <1>4, <1>5, <1>6, <1>7, <1>8

\* readLoop takes a reply and its entry: ids lead it to the call it is of.
LEMMA ReadReplyIInv ==
    ASSUME IInv, NEW i \in Nat, NEW a \in Calls, ReadReply(i, a)
    PROVE  IInv'
<1> USE QMPAssumption DEF IInv, manager, callers
<1>1. /\ reader = "reading" /\ hand = {} /\ <<i, a>> \in replies
      /\ \A c, b \in Calls : <<c, b>> \in hand' <=> b = a /\ <<i, c>> \in pending
      /\ \A j \in Nat, c \in Calls :
             <<j, c>> \in pending' <=> <<j, c>> \in pending /\ j # i
      /\ UNCHANGED <<manager, conn, asked, reader, nextID, pc, id, box>>
  BY DEF ReadReply
<1>2. \A c \in Calls : <<i, c>> \in pending => c = a /\ id[c] = i /\ i # 0
  BY <1>1 DEF RequestsKeepIDs, KeepsID, IDsFresh
<1>3. TypeOK'
  <2>1. hand' \in SUBSET (Calls \X Calls)
    <3> SUFFICES ASSUME NEW h \in hand' PROVE h \in Calls \X Calls
      OBVIOUS
    <3>1. PICK c \in Calls : h = <<c, a>>
      BY DEF ReadReply
    <3> QED BY <3>1
  <2>2. pending' \in SUBSET Entries /\ replies' \in SUBSET Entries
    BY DEF ReadReply, TypeOK
  <2> QED BY <1>1, <2>1, <2>2 DEF TypeOK
<1>4. RequestsKeepIDs'
  BY <1>1 DEF ReadReply, RequestsKeepIDs, KeepsID
<1>5. IDsFresh' /\ EntriesUnserved' /\ ReplyIsOwn'
  BY <1>1 DEF IDsFresh, EntriesUnserved, ReplyIsOwn
<1>6. HandIsOwn'
  <2>1. \A c, b \in Calls : <<c, b>> \in hand' => c = a /\ b = a /\ id[a] = i /\ i # 0
    BY <1>1, <1>2
  <2>2. <<i, a>> \notin pending'
    BY <1>1
  <2> QED BY <1>1, <2>1, <2>2 DEF HandIsOwn
<1>7. WaiterIsServed'
  BY <1>1 DEF WaiterIsServed, TypeOK
<1>8. NoEntryLeaks'
  BY <1>1 DEF ReadReply, NoEntryLeaks
<1> QED BY <1>3, <1>4, <1>5, <1>6, <1>7, <1>8

\* The reply in readLoop's hand is the only one, and its entry is gone.
LEMMA HandOverIInv ==
    ASSUME IInv, NEW c \in Calls, NEW a \in Calls, HandOver(c, a)
    PROVE  IInv'
<1> USE QMPAssumption DEF IInv, manager, wire
<1>1. /\ a = c /\ id[c] # 0 /\ <<id[c], c>> \notin pending /\ reader = "reading"
      /\ hand' = {} /\ \A d, b \in Calls : <<d, b>> \in hand => d = c
      /\ \A d \in Calls : box'[d] = IF d = c THEN a ELSE box[d]
      /\ UNCHANGED <<manager, wire, reader, nextID, pending, pc, id>>
  BY DEF HandOver, HandIsOwn, TypeOK
<1>2. TypeOK'
  BY DEF HandOver, TypeOK
<1>3. RequestsKeepIDs' /\ HandIsOwn'
  BY <1>1 DEF RequestsKeepIDs, KeepsID, HandIsOwn
<1>4. IDsFresh'
  BY <1>1 DEF IDsFresh
<1>5. EntriesUnserved'
  BY <1>1 DEF EntriesUnserved, RequestsKeepIDs, KeepsID
<1>6. ReplyIsOwn'
  BY <1>1 DEF ReplyIsOwn
<1>7. WaiterIsServed'
  BY <1>1 DEF WaiterIsServed
<1>8. NoEntryLeaks'
  BY <1>1 DEF NoEntryLeaks
<1> QED BY <1>2, <1>3, <1>4, <1>5, <1>6, <1>7, <1>8

\* A command that gives up takes its own entry with it and no other.
LEMMA TimeOutIInv ==
    ASSUME IInv, NEW c \in Calls, TimeOut(c)
    PROVE  IInv'
<1> USE QMPAssumption DEF IInv, manager, wire
<1>1. /\ pc[c] = "waiting"
      /\ \A d \in Calls : pc'[d] = IF d = c THEN "failed" ELSE pc[d]
      /\ \A i \in Nat, d \in Calls :
             <<i, d>> \in pending' <=> <<i, d>> \in pending /\ i # id[c]
      /\ pending' \subseteq pending
      /\ UNCHANGED <<manager, wire, reader, hand, nextID, id, box>>
  BY DEF TimeOut, Forget, TypeOK
<1>2. TypeOK'
  BY DEF TimeOut, Forget, TypeOK
<1>3. \A i \in Nat : <<i, c>> \notin pending'
  BY <1>1 DEF RequestsKeepIDs, KeepsID
<1>4. RequestsKeepIDs' /\ IDsFresh'
  BY <1>1 DEF RequestsKeepIDs, KeepsID, IDsFresh
<1>5. HandIsOwn' /\ EntriesUnserved' /\ ReplyIsOwn'
  BY <1>1 DEF HandIsOwn, EntriesUnserved, ReplyIsOwn
<1>6. WaiterIsServed'
  <2> SUFFICES ASSUME NEW d \in Calls, pc'[d] = "waiting", <<id[d], d>> \in pending
               PROVE  <<id[d], d>> \in pending'
    BY <1>1 DEF WaiterIsServed
  <2>1. d # c /\ id[d] # 0 /\ id[d] # id[c] /\ id[d] \in Nat
    BY <1>1 DEF IDsFresh, TypeOK
  <2> QED BY <1>1, <2>1
<1>7. NoEntryLeaks'
  <2> SUFFICES ASSUME conn = "up", NEW i \in Nat, NEW d \in Calls, <<i, d>> \in pending'
               PROVE  pc'[d] = "waiting"
    BY <1>1, <1>2 DEF NoEntryLeaks, TypeOK, Entries
  <2> QED BY <1>1, <1>3 DEF NoEntryLeaks
<1> QED BY <1>2, <1>4, <1>5, <1>6, <1>7

\* The end of the connection closes the channel of every entry.
LEMMA ReadFailsIInv == ASSUME IInv, ReadFails PROVE IInv'
<1> USE QMPAssumption DEF IInv, manager
<1>1. /\ hand = {} /\ hand' = {} /\ pending' = {} /\ replies' = {}
      /\ UNCHANGED <<manager, conn, asked, nextID, pc, id>>
      /\ \A c \in Calls : box'[c] = IF \E e \in pending : e[2] = c
                                    THEN Closed ELSE box[c]
  BY DEF ReadFails, TypeOK
<1>2. TypeOK'
  BY <1>1 DEF ReadFails, TypeOK
<1>3. RequestsKeepIDs' /\ HandIsOwn' /\ EntriesUnserved' /\ NoEntryLeaks'
  BY <1>1 DEF RequestsKeepIDs, KeepsID, HandIsOwn, EntriesUnserved, NoEntryLeaks
<1>4. IDsFresh'
  BY <1>1 DEF IDsFresh, RequestsKeepIDs, KeepsID, TypeOK, Entries
<1>5. ReplyIsOwn' /\ WaiterIsServed'
  BY <1>1 DEF ReplyIsOwn, WaiterIsServed
<1> QED BY <1>2, <1>3, <1>4, <1>5

\* Every critical section of a command, of readLoop and of the manager, and every
\* step of QEMU, keeps the invariant.
LEMMA StepIInv == IInv /\ [Next]_vars => IInv'
<1> SUFFICES ASSUME IInv, [Next]_vars PROVE IInv'
  OBVIOUS
<1> USE QMPAssumption
<1>1. ASSUME NEW c \in Calls, Pick(c) PROVE IInv'
  BY <1>1, MoveIInv DEF Pick
<1>2. ASSUME NEW c \in Calls, Refused(c) PROVE IInv'
  BY <1>2, MoveIInv DEF Refused
<1>3. ASSUME NEW c \in Calls, Send(c) PROVE IInv'
  BY <1>3, RegisterIInv DEF Send
<1>4. ASSUME NEW c \in Calls, SendFails(c) PROVE IInv'
  BY <1>4, RegisterIInv DEF SendFails, wire
<1>5. ASSUME NEW c \in Calls, Receive(c) PROVE IInv'
  BY <1>5, MoveIInv DEF Receive
<1>6. ASSUME NEW c \in Calls, TimeOut(c) PROVE IInv'
  BY <1>6, TimeOutIInv
<1>7. ASSUME ReadLoop PROVE IInv'
  <2>1. ASSUME NEW e \in replies, ReadReply(e[1], e[2]) PROVE IInv'
    <3>1. e[1] \in Nat /\ e[2] \in Calls
      BY DEF IInv, TypeOK, Entries
    <3> QED BY <2>1, <3>1, ReadReplyIInv
  <2>2. ASSUME NEW h \in hand, HandOver(h[1], h[2]) PROVE IInv'
    <3>1. h[1] \in Calls /\ h[2] \in Calls
      BY DEF IInv, TypeOK
    <3> QED BY <2>2, <3>1, HandOverIInv
  <2>3. CASE ReaderEnds
    <3>1. /\ reader = "failed" /\ reader' = "ended"
          /\ UNCHANGED <<manager, wire, hand, nextID, pending, callers>>
      BY <2>3 DEF ReaderEnds
    <3>2. TypeOK' /\ RequestsKeepIDs' /\ IDsFresh'
      BY <3>1 DEF manager, wire, callers, IInv, TypeOK, RequestsKeepIDs, KeepsID, IDsFresh
    <3>3. HandIsOwn' /\ EntriesUnserved' /\ ReplyIsOwn'
      BY <3>1 DEF callers, IInv, HandIsOwn, EntriesUnserved, ReplyIsOwn
    <3>4. WaiterIsServed' /\ NoEntryLeaks'
      BY <3>1 DEF manager, wire, callers, IInv, WaiterIsServed, NoEntryLeaks
    <3> QED BY <3>2, <3>3, <3>4 DEF IInv
  <2> QED BY <1>7, <2>1, <2>2, <2>3, ReadFailsIInv DEF ReadLoop
<1>8. ASSUME NEW e \in asked, Answer(e[1], e[2]) PROVE IInv'
  <2>1. e = <<e[1], e[2]>> /\ e[1] \in Nat /\ e[2] \in Calls
    BY DEF IInv, TypeOK, Entries
  <2>2. TypeOK'
    BY <1>8, <2>1 DEF Answer, manager, client, callers, IInv, TypeOK, Entries
  <2>3. RequestsKeepIDs'
    BY <1>8, <2>1 DEF Answer, client, callers, IInv, RequestsKeepIDs, KeepsID
  <2> QED BY <1>8, <2>2, <2>3
          DEF Answer, manager, client, callers, IInv, IDsFresh, HandIsOwn,
              EntriesUnserved, ReplyIsOwn, WaiterIsServed, NoEntryLeaks
<1>9. CASE Lose \/ CloseConn
  <2>1. /\ conn' = "down"
        /\ UNCHANGED <<published, asked, replies, client, callers>>
        /\ closer' \in {closer, "waiting"}
    BY <1>9 DEF Lose, CloseConn, manager
  <2>2. TypeOK'
    BY <2>1 DEF client, callers, IInv, TypeOK
  <2> QED BY <2>1, <2>2
          DEF client, callers, IInv, RequestsKeepIDs, KeepsID, IDsFresh, HandIsOwn,
              EntriesUnserved, ReplyIsOwn, WaiterIsServed, NoEntryLeaks
<1>10. CASE Unpublish \/ CloseReturns \/ UNCHANGED vars
  <2>1. /\ UNCHANGED <<wire, client, callers>>
        /\ published' \in {published, FALSE} /\ closer' \in {closer, "closing", "closed"}
    BY <1>10 DEF Unpublish, CloseReturns, vars, manager
  <2>2. TypeOK'
    BY <2>1 DEF wire, client, callers, IInv, TypeOK
  <2> QED BY <2>1, <2>2
          DEF wire, client, callers, IInv, RequestsKeepIDs, KeepsID, IDsFresh,
              HandIsOwn, EntriesUnserved, ReplyIsOwn, WaiterIsServed, NoEntryLeaks
<1> QED BY <1>1, <1>2, <1>3, <1>4, <1>5, <1>6, <1>7, <1>8, <1>9, <1>10
        DEF Next, Execute

\* The invariant holds in every reachable state.
THEOREM QMPInvariant == Spec => []IInv
BY InitIInv, StepIInv, PTL DEF Spec

\* The variables of the client, its callers and the wire keep their types; in
\* particular readLoop never sends to the nil channel of an entry that is gone.
THEOREM QMPTypeCorrect == Spec => []TypeOK
BY QMPInvariant, PTL DEF IInv

\* Execute returns the reply to its own request, whatever the order of replies,
\* deadlines and the loss of the connection.
THEOREM RepliesMatch == Spec => []ReplyIsOwn
BY QMPInvariant, PTL DEF IInv

\* Every command that waits in Execute has somebody who will serve its channel.
THEOREM WaitersServed == Spec => []WaiterIsServed
BY QMPInvariant, PTL DEF IInv

\* pending holds nothing but commands that wait while the connection is up.
THEOREM PendingExact == Spec => []NoEntryLeaks
BY QMPInvariant, PTL DEF IInv
=============================================================================
