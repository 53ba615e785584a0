----------------------------- MODULE SessionLife -----------------------------
(***************************************************************************)
(* What the rest of the server can tell of a login session, without        *)
(* clocks: the abstract specification of the session table of              *)
(* internal/auth.                                                          *)
(*                                                                         *)
(*   "new"     the id has not been issued yet                              *)
(*   "live"    Valid(id) is true                                           *)
(*   "lapsed"  IdleTimeout has passed, the TTL has not, and the entry is   *)
(*             still in the table: Valid is false, but Touch would refresh *)
(*             LastSeen and make it true again                             *)
(*   "gone"    deleted, or older than the TTL: never valid again           *)
(***************************************************************************)
CONSTANT Sessions

VARIABLE status

Statuses == {"new", "live", "lapsed", "gone"}

TypeOK == status \in [Sessions -> Statuses]

Init == status = [s \in Sessions |-> "new"]

\* Valid(id)
Valid(s) == status[s] = "live"

\* Login succeeds and stores the session.  Its clocks start when the request
\* arrived, before the password was compared.
Login(s) ==
    /\ status[s] = "new"
    /\ \E age \in {"live", "lapsed", "gone"} : status' = [status EXCEPT ![s] = age]

\* Time passes and the reaper runs, or SessionFromRequest deletes the outdated
\* entry it finds: any session may idle out, any may reach its end.
Ages(old, new) ==
    \/ new = old
    \/ old = "live" /\ new \in {"lapsed", "gone"}
    \/ old = "lapsed" /\ new = "gone"

Age ==
    status' \in {f \in [Sessions -> Statuses] :
                   \A s \in Sessions : Ages(status[s], f[s])}

\* SessionFromRequest returns the session and refreshes LastSeen.
Seen(s) == Valid(s) /\ UNCHANGED status

\* Touch(id): any entry still in the table is refreshed.
Touch(s) ==
    /\ status[s] \in {"live", "lapsed"}
    /\ status' = [status EXCEPT ![s] = "live"]

\* Logout deletes the entry, whatever became of it meanwhile.
Delete(s) == status' = [status EXCEPT ![s] = "gone"]

Next ==
    \/ Age
    \/ \E s \in Sessions : Login(s) \/ Touch(s) \/ (status[s] # "new" /\ Delete(s))

Spec == Init /\ [][Next]_status
=============================================================================
