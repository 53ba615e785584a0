----------------------------- MODULE AuthProofs -----------------------------
(***************************************************************************)
(* Theorems about Auth, for every number of addresses, every lockout and   *)
(* every timeout.                                                          *)
(***************************************************************************)
EXTENDS Auth, FiniteSetTheorems, TLAPS

Limit == MaxAttempts - 1 + MaxConcurrent

\* A login that is past its first critical section knows its address.
AddressKnown == \A l \in Logins : pc[l] = "comparing" => addr[l] \in Addrs

ConcurrencyBounded == Cardinality(Comparing) <= MaxConcurrent

\* The bound on the guesses is inductive together with the bound on the logins
\* that run at the same time.
IInv == TypeOK /\ AddressKnown /\ ConcurrencyBounded /\ GuessesBounded

-----------------------------------------------------------------------------
\* Any set of logins is finite, and no larger than a set that contains it.
LEMMA LoginSets ==
    ASSUME NEW S \in SUBSET Logins
    PROVE  /\ IsFiniteSet(S) /\ Cardinality(S) \in Nat
           /\ \A T \in SUBSET S : Cardinality(T) <= Cardinality(S)
<1>1. IsFiniteSet(S)
  BY AuthAssumption, FS_Subset
<1> QED BY <1>1, FS_Subset, FS_CardinalityType

\* Two sets of logins together have at most as many elements as one and the other.
LEMMA LoginUnion ==
    ASSUME NEW S \in SUBSET Logins, NEW T \in SUBSET Logins
    PROVE  Cardinality(S \cup T) <= Cardinality(S) + Cardinality(T)
<1>1. IsFiniteSet(S) /\ IsFiniteSet(T)
  BY LoginSets
<1>2. /\ Cardinality(S \cup T)
             = Cardinality(S) + Cardinality(T) - Cardinality(S \cap T)
  BY <1>1, FS_Union
<1>3. /\ Cardinality(S \cap T) \in Nat /\ Cardinality(S) \in Nat
      /\ Cardinality(T) \in Nat
  BY LoginSets
<1> QED BY <1>2, <1>3

\* A step that adds no guess and starts no login keeps both bounds.
LEMMA BoundsShrink ==
    ASSUME TypeOK, ConcurrencyBounded, GuessesBounded,
           Comparing' \subseteq Comparing,
           \A a \in Addrs : Guesses(a)' \subseteq Guesses(a)
    PROVE  ConcurrencyBounded' /\ GuessesBounded'
<1> USE AuthAssumption
<1>1. Cardinality(Comparing') <= Cardinality(Comparing)
  BY LoginSets DEF Comparing
<1>2. /\ Cardinality(Comparing) \in Nat /\ Cardinality(Comparing') \in Nat
  BY LoginSets DEF Comparing
<1>3. ASSUME NEW a \in Addrs
      PROVE  Cardinality(Guesses(a)') <= MaxAttempts - 1 + MaxConcurrent
  <2>1. Guesses(a) \in SUBSET Logins
    BY DEF Guesses, Comparing, TypeOK
  <2>2. /\ Cardinality(Guesses(a)') <= Cardinality(Guesses(a))
        /\ Cardinality(Guesses(a)) \in Nat
        /\ Cardinality(Guesses(a)') \in Nat
    BY <2>1, LoginSets
  <2> QED BY <2>2 DEF GuessesBounded
<1> QED BY <1>1, <1>2, <1>3 DEF ConcurrencyBounded, GuessesBounded

\* A login that passes lockedOut adds one guess to fewer than MaxAttempts.
LEMMA BeginBounded ==
    ASSUME IInv, NEW l \in Logins, NEW a \in Addrs, LoginBegins(l, a)
    PROVE  ConcurrencyBounded' /\ GuessesBounded'
<1> USE AuthAssumption DEF IInv
<1>1. CASE Cardinality(Kept(a)) >= MaxAttempts
  <2>1. Comparing' = Comparing
    BY <1>1 DEF LoginBegins, Comparing, TypeOK
  <2>2. \A b \in Addrs : Guesses(b)' \subseteq Guesses(b)
    BY <1>1, <2>1 DEF LoginBegins, Guesses, Comparing, Kept, TypeOK
  <2> QED BY <2>1, <2>2, BoundsShrink
<1>2. CASE ~(Cardinality(Kept(a)) >= MaxAttempts)
  <2>1. Comparing' = Comparing \cup {l} /\ l \notin Comparing
    BY <1>2 DEF LoginBegins, Comparing, TypeOK
  <2>2. /\ Comparing \in SUBSET Logins /\ Comparing' \in SUBSET Logins
        /\ Kept(a) \in SUBSET Logins
    BY DEF Comparing, Kept, TypeOK
  <2>3. /\ Cardinality(Comparing) \in Nat /\ Cardinality(Comparing') \in Nat
        /\ Cardinality(Kept(a)) \in Nat
        /\ IsFiniteSet(Comparing)
    BY <2>2, LoginSets
  <2>4. Cardinality(Comparing') = Cardinality(Comparing) + 1
    BY <2>1, <2>3, FS_AddElement
  <2>5. Cardinality(Comparing') <= MaxConcurrent
    BY <2>3, <2>4 DEF LoginBegins
  <2>6. Cardinality(Kept(a)) <= MaxAttempts - 1
    BY <1>2, <2>3
  <2>7. ASSUME NEW b \in Addrs
        PROVE  Cardinality(Guesses(b)') <= MaxAttempts - 1 + MaxConcurrent
    <3>1. CASE b = a
      <4>1. Guesses(a)' \subseteq Kept(a) \cup Comparing'
        BY DEF LoginBegins, Guesses, TypeOK
      <4>2. Cardinality(Guesses(a)') <= Cardinality(Kept(a) \cup Comparing')
        BY <4>1, <2>2, LoginSets
      <4>3. Cardinality(Kept(a) \cup Comparing')
              <= Cardinality(Kept(a)) + Cardinality(Comparing')
        BY <2>2, LoginUnion
      <4>4. /\ Cardinality(Kept(a) \cup Comparing') \in Nat
            /\ Cardinality(Guesses(a)') \in Nat
        BY <4>1, <2>2, LoginSets
      <4>5. Cardinality(Guesses(a)') <= MaxAttempts - 1 + MaxConcurrent
        BY <4>2, <4>3, <4>4, <2>3, <2>5, <2>6
      <4> QED BY <3>1, <4>5
    <3>2. CASE b # a
      <4>1. Guesses(b)' = Guesses(b)
        BY <3>2, <2>1 DEF LoginBegins, Guesses, Comparing, TypeOK
      <4> QED BY <4>1 DEF GuessesBounded
    <3> QED BY <3>1, <3>2
  <2> QED BY <2>5, <2>7 DEF ConcurrencyBounded, GuessesBounded
<1> QED BY <1>1, <1>2

\* Nothing has been guessed initially.
LEMMA InitIInv == Init => IInv
<1> SUFFICES ASSUME Init PROVE IInv
  OBVIOUS
<1> USE AuthAssumption
<1>1. TypeOK /\ AddressKnown
  BY DEF Init, TypeOK, AddressKnown
<1>2. Comparing = {} /\ \A a \in Addrs : Guesses(a) = {}
  BY DEF Init, Comparing, Guesses
<1> QED BY <1>1, <1>2, FS_EmptySet DEF IInv, ConcurrencyBounded, GuessesBounded

\* Every critical section keeps the invariant.
LEMMA StepIInv == IInv /\ [Next]_vars => IInv'
<1> SUFFICES ASSUME IInv, [Next]_vars PROVE IInv'
  OBVIOUS
<1> USE AuthAssumption DEF IInv
<1>1. ASSUME NEW l \in Logins, NEW a \in Addrs, LoginBegins(l, a) PROVE IInv'
  <2>1. (TypeOK /\ AddressKnown)'
    BY <1>1 DEF LoginBegins, Kept, TypeOK, AddressKnown
  <2> QED BY <1>1, <2>1, BeginBounded
<1>2. ASSUME NEW l \in Logins, LoginFails(l) PROVE IInv'
  <2>1. (TypeOK /\ AddressKnown)'
    BY <1>2 DEF LoginFails, TypeOK, AddressKnown
  <2>2. Comparing' \subseteq Comparing
    BY <1>2 DEF LoginFails, Comparing, TypeOK
  <2>3. \A a \in Addrs : Guesses(a)' \subseteq Guesses(a)
    BY <1>2, <2>2 DEF LoginFails, Guesses, Comparing, TypeOK, AddressKnown
  <2> QED BY <2>1, <2>2, <2>3, BoundsShrink
<1>3. ASSUME NEW l \in Logins, LoginSucceeds(l) PROVE IInv'
  <2>1. (TypeOK /\ AddressKnown)'
    BY <1>3 DEF LoginSucceeds, TypeOK, AddressKnown
  <2>2. Comparing' \subseteq Comparing
    BY <1>3 DEF LoginSucceeds, Comparing, TypeOK
  <2>3. \A a \in Addrs : Guesses(a)' \subseteq Guesses(a)
    BY <1>3, <2>2 DEF LoginSucceeds, Guesses, Comparing, TypeOK, AddressKnown
  <2> QED BY <2>1, <2>2, <2>3, BoundsShrink
<1>4. CASE Reap
  <2>1. (TypeOK /\ AddressKnown)'
    BY <1>4 DEF Reap, Kept, TypeOK, AddressKnown
  <2>2. Comparing' \subseteq Comparing
    BY <1>4 DEF Reap, Comparing
  <2>3. \A a \in Addrs : Guesses(a)' \subseteq Guesses(a)
    BY <1>4 DEF Reap, Guesses, Comparing, Kept
  <2> QED BY <2>1, <2>2, <2>3, BoundsShrink
<1>5. ASSUME UNCHANGED <<pc, addr, attempts>>, TypeOK', AddressKnown' PROVE IInv'
  <2>1. Comparing' \subseteq Comparing
    BY <1>5 DEF Comparing
  <2>2. \A a \in Addrs : Guesses(a)' \subseteq Guesses(a)
    BY <1>5 DEF Guesses, Comparing
  <2> QED BY <1>5, <2>1, <2>2, BoundsShrink
<1>6. ASSUME NEW l \in Logins, SessionFromRequest(l) \/ Touch(l) \/ Logout(l)
      PROVE  IInv'
  BY <1>5, <1>6 DEF SessionFromRequest, Touch, Logout, TypeOK, AddressKnown
<1>7. CASE Tick
  BY <1>5, <1>7 DEF Tick, TypeOK, AddressKnown
<1>8. CASE UNCHANGED vars
  BY <1>5, <1>8 DEF vars, TypeOK, AddressKnown
<1> QED BY <1>1, <1>2, <1>3, <1>4, <1>6, <1>7, <1>8 DEF Next

\* The inductive invariant, for the specification.
LEMMA AuthInductive == Spec => []IInv
BY InitIInv, StepIInv, PTL DEF Spec

-----------------------------------------------------------------------------
\* The tables of logins, attempts and sessions keep their types.
THEOREM AuthTypeCorrect == Spec => []TypeOK
<1>1. IInv => TypeOK
  BY DEF IInv
<1> QED BY <1>1, AuthInductive, PTL

\* The two critical sections of Login let through at most MaxAttempts - 1 plus
\* the number of concurrent logins: the lockout is late by that much, and never
\* by more.
THEOREM LockoutBound == Spec => []GuessesBounded
<1>1. IInv => GuessesBounded
  BY DEF IInv
<1> QED BY <1>1, AuthInductive, PTL

-----------------------------------------------------------------------------
(***************************************************************************)
(* The table implements SessionLife.  The two laws of the mapping: what    *)
(* one session becomes in a step, and that a step which ages every session *)
(* is an Age step.                                                         *)
(***************************************************************************)
\* Sessions are stored for granted logins only.
SessionsGranted == sessions \subseteq {l \in Logins : pc[l] = "granted"}

\* The status of every session is one of the four.
LEMMA StatusTyped == status \in [Logins -> Life!Statuses]
BY DEF status, Life!Statuses

\* A step in which every session stays as it is or ages is an Age step.
LEMMA AgeStep ==
    ASSUME \A l \in Logins : Life!Ages(status[l], status'[l])
    PROVE  Life!Age
<1>1. status' \in [Logins -> Life!Statuses]
  BY DEF status, Life!Statuses
<1> QED BY <1>1 DEF Life!Age

\* A step in which only l changes updates the status at l.
LEMMA OneChange ==
    ASSUME NEW l \in Logins, \A k \in Logins \ {l} : status'[k] = status[k]
    PROVE  status' = [status EXCEPT ![l] = status'[l]]
<1>1. /\ status = [k \in Logins |-> status[k]]
      /\ status' = [k \in Logins |-> status'[k]]
  BY DEF status
<1> QED BY <1>1

\* Sessions stay with granted logins.
LEMMA GrantedInductive == Spec => []SessionsGranted
<1>1. Init => SessionsGranted
  BY DEF Init, SessionsGranted
<1>2. TypeOK /\ SessionsGranted /\ [Next]_vars => SessionsGranted'
  BY DEF SessionsGranted, TypeOK, Next, vars, LoginBegins, LoginFails, LoginSucceeds,
         SessionFromRequest, Touch, Logout, Reap, Tick
<1> QED BY <1>1, <1>2, AuthTypeCorrect, PTL DEF Spec

\* Every step of the manager is a step of SessionLife, or changes no status.
LEMMA LifeStep ==
    TypeOK /\ SessionsGranted /\ [Next]_vars => [Life!Next]_status
<1> SUFFICES ASSUME TypeOK, SessionsGranted, [Next]_vars
             PROVE  Life!Next \/ UNCHANGED status
  OBVIOUS
<1> USE AuthAssumption DEF TypeOK, SessionsGranted
<1>1. ASSUME NEW l \in Logins, NEW a \in Addrs, LoginBegins(l, a)
      PROVE  UNCHANGED status
  BY <1>1 DEF LoginBegins, status, InTTL, InIdle
<1>2. ASSUME NEW l \in Logins, LoginFails(l) PROVE UNCHANGED status
  BY <1>2 DEF LoginFails, status, InTTL, InIdle
<1>3. ASSUME NEW l \in Logins, LoginSucceeds(l) PROVE Life!Login(l)
  <2>1. \A k \in Logins \ {l} : status'[k] = status[k]
    BY <1>3 DEF LoginSucceeds, status, InTTL, InIdle
  <2>2. status[l] = "new" /\ status'[l] \in {"live", "lapsed", "gone"}
    BY <1>3 DEF LoginSucceeds, status
  <2> QED BY <2>1, <2>2, OneChange DEF Life!Login
<1>4. ASSUME NEW l \in Logins, SessionFromRequest(l)
      PROVE  Life!Age
  <2>1. \A k \in Logins : Life!Ages(status[k], status'[k])
    BY <1>4 DEF SessionFromRequest, Valid, status, InTTL, InIdle, Life!Ages
  <2> QED BY <2>1, AgeStep
<1>5. ASSUME NEW l \in Logins, Touch(l) PROVE Life!Touch(l) \/ UNCHANGED status
  <2>1. \A k \in Logins \ {l} : status'[k] = status[k]
    BY <1>5 DEF Touch, status, InTTL, InIdle
  <2>2. \/ status[l] \in {"live", "lapsed"} /\ status'[l] = "live"
        \/ status'[l] = status[l]
    BY <1>5 DEF Touch, status, InTTL, InIdle
  <2>3. status' = [status EXCEPT ![l] = status'[l]]
    BY <2>1, OneChange
  <2>4. CASE status'[l] = status[l]
    BY <2>3, <2>4, StatusTyped
  <2> QED BY <2>2, <2>3, <2>4 DEF Life!Touch
<1>6. ASSUME NEW l \in Logins, Logout(l) PROVE status[l] # "new" /\ Life!Delete(l)
  <2>1. \A k \in Logins \ {l} : status'[k] = status[k]
    BY <1>6 DEF Logout, status, InTTL, InIdle
  <2>2. status[l] # "new" /\ status'[l] = "gone"
    BY <1>6 DEF Logout, status
  <2> QED BY <2>1, <2>2, OneChange DEF Life!Delete
<1>7. CASE Reap
  <2>1. \A k \in Logins : Life!Ages(status[k], status'[k])
    BY <1>7 DEF Reap, status, InTTL, InIdle, Life!Ages
  <2> QED BY <2>1, AgeStep DEF Life!Next
<1>8. CASE Tick
  <2>1. \A k \in Logins : Life!Ages(status[k], status'[k])
    BY <1>8 DEF Tick, status, InTTL, InIdle, Life!Ages
  <2> QED BY <2>1, AgeStep DEF Life!Next
<1>9. CASE UNCHANGED vars
  BY <1>9 DEF vars, status, InTTL, InIdle
<1> QED
  BY <1>1, <1>2, <1>3, <1>4, <1>5, <1>6, <1>7, <1>8, <1>9 DEF Next, Life!Next

\* auth.Manager implements SessionLife: what ControlSeat assumes of sessions is
\* what the table does, for all timeouts and any number of sessions.
THEOREM AuthImplementsLife == Spec => ImplementsSessionLife
<1>1. Init => Life!Init
  BY DEF Init, Life!Init, status
<1> QED
  BY <1>1, LifeStep, AuthTypeCorrect, GrantedInductive, PTL
     DEF Spec, ImplementsSessionLife, Life!Spec
=============================================================================
