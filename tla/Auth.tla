-------------------------------- MODULE Auth --------------------------------
(***************************************************************************)
(* internal/auth.Manager: logins, the lockout of an address after failed   *)
(* attempts, and the table of sessions with their two timeouts.            *)
(*                                                                         *)
(* Every call of Login is one element of Logins.  It takes the mutex       *)
(* twice: lockedOut is asked first, the password is compared with the      *)
(* mutex free, and the outcome is recorded under the mutex again.  The     *)
(* session a login creates is named after it (ids are 32 random bytes), as *)
(* is the time stamp a failed login leaves in attempts.                    *)
(***************************************************************************)
EXTENDS Naturals, FiniteSets

CONSTANTS
    Logins,         \* calls of Login
    Addrs,          \* what clientIP returns
    NoAddr,
    MaxAttempts,    \* opts.MaxAttempts
    AttemptWindow,  \* opts.AttemptWindow
    SessionTTL,     \* opts.SessionTTL
    IdleTimeout,    \* opts.IdleTimeout
    MaxConcurrent,  \* bound: passwords compared at any one time
    MaxTime         \* bound: the clock stops there

ASSUME AuthAssumption ==
    /\ IsFiniteSet(Logins)
    /\ NoAddr \notin Addrs
    /\ MaxAttempts \in Nat \ {0} /\ MaxConcurrent \in Nat \ {0}
    /\ AttemptWindow \in Nat /\ SessionTTL \in Nat /\ IdleTimeout \in Nat
    /\ MaxTime \in Nat

VARIABLES
    now,       \* time.Now()
    pc,        \* where each Login stands
    addr,      \* its local ip
    at,        \* its local now: the stamp of the attempt, CreatedAt of the session
    attempts,  \* Manager.attempts
    sessions,  \* the keys of Manager.sessions
    seen       \* LastSeen of each session

vars == <<now, pc, addr, at, attempts, sessions, seen>>

TypeOK ==
    /\ now \in 0 .. MaxTime
    /\ pc \in [Logins -> {"unused", "comparing", "refused", "granted"}]
    /\ addr \in [Logins -> Addrs \cup {NoAddr}]
    /\ at \in [Logins -> 0 .. MaxTime]
    /\ attempts \in [Addrs -> SUBSET Logins]
    /\ sessions \in SUBSET Logins
    /\ seen \in [Logins -> 0 .. MaxTime]

Init ==
    /\ now = 0
    /\ pc = [l \in Logins |-> "unused"]
    /\ addr = [l \in Logins |-> NoAddr]
    /\ at = [l \in Logins |-> 0]
    /\ attempts = [a \in Addrs |-> {}]
    /\ sessions = {}
    /\ seen = [l \in Logins |-> 0]

Comparing == {l \in Logins : pc[l] = "comparing"}

\* t.After(now.Add(-AttemptWindow)): the stamps lockedOut keeps.
Kept(a) == {l \in attempts[a] : at[l] + AttemptWindow > now}

InTTL(l)  == now <= at[l] + SessionTTL
InIdle(l) == now <= seen[l] + IdleTimeout

\* Valid(id)
Valid(l) == l \in sessions /\ InTTL(l) /\ InIdle(l)

-----------------------------------------------------------------------------
\* Bug: > in place of >=.
LoginBeginsOneMore(l, a) ==
    /\ pc[l] = "unused"
    /\ Cardinality(Comparing) < MaxConcurrent
    /\ attempts' = [attempts EXCEPT ![a] = Kept(a)]
    /\ pc' = [pc EXCEPT ![l] = IF Cardinality(Kept(a)) > MaxAttempts
                               THEN "refused" ELSE "comparing"]
    /\ addr' = [addr EXCEPT ![l] = a]
    /\ at' = [at EXCEPT ![l] = now]
    /\ UNCHANGED <<now, sessions, seen>>

\* Login up to the first Unlock: lockedOut prunes the stamps of the address and
\* counts what is left.
LoginBegins(l, a) ==
    /\ pc[l] = "unused"
    /\ Cardinality(Comparing) < MaxConcurrent
    /\ attempts' = [attempts EXCEPT ![a] = Kept(a)]
    /\ pc' = [pc EXCEPT ![l] = IF Cardinality(Kept(a)) >= MaxAttempts
                               THEN "refused" ELSE "comparing"]
    /\ addr' = [addr EXCEPT ![l] = a]
    /\ at' = [at EXCEPT ![l] = now]
    /\ UNCHANGED <<now, sessions, seen>>

\* Wrong password or unknown user: the attempt is recorded, with the time at
\* which it arrived.
LoginFails(l) ==
    /\ pc[l] = "comparing"
    /\ pc' = [pc EXCEPT ![l] = "refused"]
    /\ attempts' = [attempts EXCEPT ![addr[l]] = @ \cup {l}]
    /\ UNCHANGED <<now, addr, at, sessions, seen>>

\* Right password: the stamps of the address are dropped, a session is stored.
LoginSucceeds(l) ==
    /\ pc[l] = "comparing"
    /\ pc' = [pc EXCEPT ![l] = "granted"]
    /\ attempts' = [attempts EXCEPT ![addr[l]] = {}]
    /\ sessions' = sessions \cup {l}
    /\ seen' = [seen EXCEPT ![l] = at[l]]
    /\ UNCHANGED <<now, addr, at>>

\* A request with the cookie of the session.
SessionFromRequest(l) ==
    /\ l \in sessions
    /\ IF Valid(l)
       THEN seen' = [seen EXCEPT ![l] = now] /\ UNCHANGED sessions
       ELSE sessions' = sessions \ {l} /\ UNCHANGED seen
    /\ UNCHANGED <<now, pc, addr, at, attempts>>

\* Bug: a missing entry is stored again.
TouchStores(l) ==
    /\ pc[l] = "granted"
    /\ sessions' = sessions \cup {l}
    /\ seen' = [seen EXCEPT ![l] = now]
    /\ UNCHANGED <<now, pc, addr, at, attempts>>

\* Touch(id): any entry of the table is refreshed, outdated or not.
Touch(l) ==
    /\ l \in sessions
    /\ seen' = [seen EXCEPT ![l] = now]
    /\ UNCHANGED <<now, pc, addr, at, attempts, sessions>>

Logout(l) ==
    /\ l \in sessions
    /\ sessions' = sessions \ {l}
    /\ UNCHANGED <<now, pc, addr, at, attempts, seen>>

\* One round of reaper: outdated sessions and stamps are dropped.
Reap ==
    /\ sessions' = {l \in sessions : InTTL(l) /\ InIdle(l)}
    /\ attempts' = [a \in Addrs |-> Kept(a)]
    /\ UNCHANGED <<now, pc, addr, at, seen>>

Tick ==
    /\ now < MaxTime
    /\ now' = now + 1
    /\ UNCHANGED <<pc, addr, at, attempts, sessions, seen>>

Next ==
    \/ \E l \in Logins, a \in Addrs : LoginBegins(l, a)
    \/ \E l \in Logins :
          \/ LoginFails(l) \/ LoginSucceeds(l)
          \/ SessionFromRequest(l) \/ Touch(l) \/ Logout(l)
    \/ Reap
    \/ Tick

Spec == Init /\ [][Next]_vars

-----------------------------------------------------------------------------
\* The passwords an address may get compared: those recorded against it and
\* those being compared at the moment.
Guesses(a) == attempts[a] \cup {l \in Comparing : addr[l] = a}

\* Although the lockout is checked in one critical section and the failure
\* recorded in another, the guesses of an address exceed what the lockout allows
\* by no more than the logins that run at the same time.
GuessesBounded ==
    \A a \in Addrs : Cardinality(Guesses(a)) <= MaxAttempts - 1 + MaxConcurrent

\* What the rest of the server sees of a session.
status ==
    [l \in Logins |->
        IF pc[l] # "granted" THEN "new"
        ELSE IF l \notin sessions \/ ~InTTL(l) THEN "gone"
        ELSE IF InIdle(l) THEN "live" ELSE "lapsed"]

Life == INSTANCE SessionLife WITH Sessions <- Logins

\* The table implements SessionLife: a session that was deleted or outlived its
\* TTL is never valid again, whatever requests, traffic, logouts and rounds of
\* the reaper come in which order.
ImplementsSessionLife == Life!Spec
=============================================================================
