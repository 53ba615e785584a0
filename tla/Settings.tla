------------------------------- MODULE Settings -------------------------------
(***************************************************************************)
(* The configuration of a running server: internal/config.Config, which    *)
(* the handlers of httpserver change under one lock and save to            *)
(* config.yaml, and the managers that are told of a change.                *)
(*                                                                         *)
(* Every change carries a number drawn from a clock, and a section of the  *)
(* configuration is the number of the change that wrote it last; a user is *)
(* a name with the number of its password.  Save writes a temporary file   *)
(* and renames it, in steps between which the process can be killed.       *)
(* -add-user and -reset-admin-password run in a process of their own that  *)
(* knows the file but not the lock.                                        *)
(***************************************************************************)
EXTENDS Naturals, FiniteSets

CONSTANTS
    Requests,  \* requests to the server and runs of the command line
    Names,     \* user names
    NoOne,     \* the lock is free
    Absent,    \* there is no temporary file
    Torn,      \* a file that is not completely written
    CliBeside  \* whether the command line is used beside another process

ASSUME SettingsAssumption ==
    /\ IsFiniteSet(Requests) /\ NoOne \notin Requests
    /\ Names # {}
    /\ Absent # Torn
    /\ CliBeside \in BOOLEAN

VARIABLES
    up,        \* the server process runs
    mem,       \* Config in the server's memory
    lock,      \* Config.mu: the request that has locked it, or NoOne
    file, tmp, \* config.yaml and config.yaml.tmp
    clock,     \* number of the last change
    op, user,  \* what each request asks for, and the user it is about
    pc,        \* where each request stands
    mine, out, \* its change, and the configuration it has marshalled
    vmCfg,     \* vm.Manager.cfg
    guest,     \* vm.Manager is running or starting ("started"), or neither
    tunnel,    \* the settings tunnel.Manager was last started with
    node,      \* the settings tailnet.Manager was last started with
    restarts   \* settings of the goroutines that have yet to call tail.Start

disk     == <<file, tmp>>
requests == <<op, user, mine, out>>
managers == <<vmCfg, guest, tunnel, node, restarts>>
vars     == <<up, mem, lock, disk, clock, pc, requests, managers>>

Ops    == {"setup", "eject", "tunnel", "tailscale", "user", "password", "login", "cli"}
Done   == {"ok", "refused", "error", "lost"}
Locked == {"locked", "disk", "saving", "writing", "written", "start"}
Places == {"idle", "waiting"} \cup Locked \cup Done

Configs == [users : SUBSET (Names \X Nat), vm : Nat, tunnel : Nat, tail : Nat]

ASSUME FileAssumption == Absent \notin Configs /\ Torn \notin Configs

TypeOK ==
    /\ up \in BOOLEAN
    /\ mem \in Configs
    /\ file \in Configs \cup {Torn} /\ tmp \in Configs \cup {Absent, Torn}
    /\ lock \in Requests \cup {NoOne}
    /\ clock \in Nat
    /\ op \in [Requests -> Ops] /\ user \in [Requests -> Names]
    /\ pc \in [Requests -> Places] /\ mine \in [Requests -> Nat]
    /\ out \in [Requests -> Configs]
    /\ vmCfg \in Nat /\ tunnel \in Nat /\ node \in Nat /\ restarts \subseteq Nat
    /\ guest \in {"stopped", "started"}

\* After the first run: bootstrapAdmin has saved a configuration with one user.
Init ==
    \E admin \in Names :
        LET c == [users |-> {<<admin, 0>>}, vm |-> 0, tunnel |-> 0, tail |-> 0]
        IN  /\ up = TRUE /\ mem = c /\ file = c /\ tmp = Absent
            /\ lock = NoOne /\ clock = 0
            /\ op = [r \in Requests |-> "login"] /\ user = [r \in Requests |-> admin]
            /\ pc = [r \in Requests |-> "idle"] /\ mine = [r \in Requests |-> 0]
            /\ out = [r \in Requests |-> c]
            /\ vmCfg = 0 /\ guest = "stopped" /\ tunnel = 0 /\ node = 0
            /\ restarts = {}

-----------------------------------------------------------------------------
Known(c, n) == \E u \in c.users : u[1] = n

Move(r, place) == pc' = [pc EXCEPT ![r] = place]

\* The deferred Unlock; the command line holds no lock.
Return(r, answer) ==
    /\ Move(r, answer)
    /\ lock' = IF lock = r THEN NoOne ELSE lock

\* FindUser, and the entry it returns is changed or a new one is appended.
SetUser(c, n, s) == [c EXCEPT !.users = {u \in @ : u[1] # n} \cup {<<n, s>>}]

\* The number of the next change.
Number == clock + 1

\* The configuration becomes c, which is marshalled.
Change(r, c) ==
    /\ clock' = Number
    /\ mine' = [mine EXCEPT ![r] = Number]
    /\ out' = [out EXCEPT ![r] = c]

-----------------------------------------------------------------------------
(***************************************************************************)
(* The handlers, up to Save.                                               *)
(***************************************************************************)
\* A handler begins.  apiSetup looks at the state of the guest before it locks.
Arrive(r, o, n) ==
    /\ up /\ pc[r] = "idle" /\ o # "cli"
    /\ o = "password" => Known(mem, n)
    /\ o \notin {"login", "user", "password"} => n = user[r]
    /\ op' = [op EXCEPT ![r] = o] /\ user' = [user EXCEPT ![r] = n]
    /\ Move(r, IF o = "setup" /\ guest # "stopped" THEN "refused" ELSE "waiting")
    /\ UNCHANGED <<up, mem, lock, disk, clock, mine, out, managers>>

\* Bug: the lock is not waited for.
LockAtOnce(r) ==
    /\ pc[r] = "waiting" /\ op[r] \notin {"login", "cli"}
    /\ lock' = r
    /\ Move(r, "locked")
    /\ UNCHANGED <<up, mem, disk, clock, requests, managers>>

\* Config.Lock
Lock(r) ==
    /\ pc[r] = "waiting" /\ op[r] \notin {"login", "cli"}
    /\ lock = NoOne
    /\ lock' = r
    /\ Move(r, "locked")
    /\ UNCHANGED <<up, mem, disk, clock, requests, managers>>

\* Config.Lookup, for Login, under the read lock.
Lookup(r) ==
    /\ pc[r] = "waiting" /\ op[r] = "login" /\ lock = NoOne
    /\ Move(r, IF Known(mem, user[r]) THEN "ok" ELSE "refused")
    /\ UNCHANGED <<up, mem, lock, disk, clock, requests, managers>>

\* ValidateVM, ValidateTunnel or ValidateTailscale refuses the new section.
Invalid(r) ==
    /\ pc[r] = "locked" /\ op[r] \in {"setup", "tunnel", "tailscale"}
    /\ Return(r, "refused")
    /\ UNCHANGED <<up, mem, disk, clock, requests, managers>>

\* apiSetup and apiEject change the VM section and tell vm.Manager.
Setup(r) ==
    /\ pc[r] = "locked" /\ op[r] = "setup"
    /\ mem' = [mem EXCEPT !.vm = Number]
    /\ Change(r, mem')
    /\ vmCfg' = mem'.vm
    /\ Move(r, "disk")
    /\ UNCHANGED <<up, lock, disk, op, user, guest, tunnel, node, restarts>>

\* Bug: vm.Manager is not told.
EjectOnlyStored(r) ==
    /\ pc[r] = "locked" /\ op[r] = "eject"
    /\ mem' = [mem EXCEPT !.vm = Number]
    /\ Change(r, mem')
    /\ Move(r, "saving")
    /\ UNCHANGED <<up, lock, disk, op, user, managers>>

Eject(r) ==
    /\ pc[r] = "locked" /\ op[r] = "eject"
    /\ mem' = [mem EXCEPT !.vm = Number]
    /\ Change(r, mem')
    /\ vmCfg' = mem'.vm
    /\ Move(r, "saving")
    /\ UNCHANGED <<up, lock, disk, op, user, guest, tunnel, node, restarts>>

\* apiTunnel and apiTailscale change their section.
SetSharing(r) ==
    /\ pc[r] = "locked" /\ op[r] \in {"tunnel", "tailscale"}
    /\ mem' = IF op[r] = "tunnel" THEN [mem EXCEPT !.tunnel = Number]
                                  ELSE [mem EXCEPT !.tail = Number]
    /\ Change(r, mem')
    /\ Move(r, "saving")
    /\ UNCHANGED <<up, lock, disk, op, user, managers>>

\* apiAddUser adds the user or replaces its password and admin flag.
AddUser(r) ==
    /\ pc[r] = "locked" /\ op[r] = "user"
    /\ mem' = SetUser(mem, user[r], Number)
    /\ Change(r, mem')
    /\ Move(r, "saving")
    /\ UNCHANGED <<up, lock, disk, op, user, managers>>

\* apiChangePassword changes only a user that exists.
ChangePassword(r) ==
    /\ pc[r] = "locked" /\ op[r] = "password"
    /\ IF Known(mem, user[r])
       THEN /\ mem' = SetUser(mem, user[r], Number)
            /\ Change(r, mem')
            /\ Move(r, "saving")
            /\ UNCHANGED lock
       ELSE /\ Return(r, "refused")
            /\ UNCHANGED <<mem, clock, mine, out>>
    /\ UNCHANGED <<up, disk, op, user, managers>>

\* Bug: the lock is not given back.
DiskFailsLocked(r) ==
    /\ pc[r] = "disk"
    /\ Move(r, "error")
    /\ UNCHANGED <<up, mem, lock, disk, clock, requests, managers>>

\* apiSetup returns when the disk image is missing and CreateDisk fails; the
\* change stays in memory.
DiskFails(r) ==
    /\ pc[r] = "disk"
    /\ Return(r, "error")
    /\ UNCHANGED <<up, mem, disk, clock, requests, managers>>

DiskThere(r) ==
    /\ pc[r] = "disk"
    /\ Move(r, "saving")
    /\ UNCHANGED <<up, mem, lock, disk, clock, requests, managers>>

-----------------------------------------------------------------------------
(***************************************************************************)
(* Save, and what the handlers do after it.                                *)
(***************************************************************************)
\* os.WriteFile opens the temporary file and truncates it ...
Truncate(r) ==
    /\ pc[r] = "saving"
    /\ tmp' = Torn
    /\ Move(r, "writing")
    /\ UNCHANGED <<up, mem, lock, file, clock, requests, managers>>

\* Bug: config.yaml itself is written.
WriteInPlace(r) ==
    /\ pc[r] = "writing"
    /\ \/ file' = Torn /\ tmp' = Torn /\ UNCHANGED pc
       \/ file' = out[r] /\ tmp' = out[r] /\ Move(r, "written")
    /\ UNCHANGED <<up, mem, lock, clock, requests, managers>>

\* ... and writes it.  When another writer has renamed it, this is the file now.
Write(r) ==
    /\ pc[r] = "writing"
    /\ IF tmp = Absent THEN file' = out[r] /\ UNCHANGED tmp
                       ELSE tmp' = out[r] /\ UNCHANGED file
    /\ Move(r, "written")
    /\ UNCHANGED <<up, mem, lock, clock, requests, managers>>

\* One of the steps of Save fails: its error is the answer.
SaveFails(r) ==
    /\ pc[r] \in {"saving", "writing", "written"}
    /\ Return(r, "error")
    /\ UNCHANGED <<up, mem, disk, clock, requests, managers>>

\* os.Rename.  apiSetup may have to start the guest before it returns; apiTunnel
\* starts the tunnel, apiTailscale a goroutine that starts the node.
Rename(r) ==
    /\ pc[r] = "written" /\ tmp # Absent
    /\ file' = tmp /\ tmp' = Absent
    /\ \/ op[r] = "setup" /\ Move(r, "start") /\ UNCHANGED lock
       \/ Return(r, "ok")
    /\ tunnel' = IF op[r] = "tunnel" THEN mem.tunnel ELSE tunnel
    /\ restarts' = restarts \cup (IF op[r] = "tailscale" THEN {mem.tail} ELSE {})
    /\ UNCHANGED <<up, mem, clock, requests, vmCfg, guest, node>>

\* vm.Start, with the configuration locked.
StartGuest(r) ==
    /\ pc[r] = "start"
    /\ \/ guest = "stopped" /\ guest' = "started" /\ Return(r, "ok")
       \/ guest' = guest /\ Return(r, "error")
    /\ UNCHANGED <<up, mem, disk, clock, requests, vmCfg, tunnel, node, restarts>>

\* tail.Start, in a goroutine of its own.
StartNode(s) ==
    /\ s \in restarts
    /\ node' = s
    /\ restarts' = restarts \ {s}
    /\ UNCHANGED <<up, mem, lock, disk, clock, pc, requests, vmCfg, guest, tunnel>>

-----------------------------------------------------------------------------
(***************************************************************************)
(* The command line, the guest and the server process.                     *)
(***************************************************************************)
CliBusy == \E r \in Requests : op[r] = "cli" /\ pc[r] \notin {"idle"} \cup Done

\* -add-user or -reset-admin-password begins.
CliRuns(r, n) ==
    /\ CliBeside \/ (~up /\ ~CliBusy)
    /\ pc[r] = "idle"
    /\ op' = [op EXCEPT ![r] = "cli"] /\ user' = [user EXCEPT ![r] = n]
    /\ Move(r, "waiting")
    /\ UNCHANGED <<up, mem, lock, disk, clock, mine, out, managers>>

\* Load, and the change to its own copy.
CliChanges(r) ==
    /\ pc[r] = "waiting" /\ op[r] = "cli" /\ file # Torn
    /\ Change(r, SetUser(file, user[r], Number))
    /\ Move(r, "saving")
    /\ UNCHANGED <<up, mem, lock, disk, op, user, managers>>

\* The guest is started or stopped by somebody else, or ends.
GuestChanges ==
    /\ up
    /\ guest' \in {"stopped", "started"} \ {guest}
    /\ UNCHANGED <<up, mem, lock, disk, clock, pc, requests, vmCfg, tunnel, node, restarts>>

\* The server is killed between any two steps.
Crash ==
    /\ up
    /\ up' = FALSE /\ lock' = NoOne
    /\ pc' = [r \in Requests |-> IF op[r] # "cli" /\ pc[r] \notin {"idle"} \cup Done
                                 THEN "lost" ELSE pc[r]]
    /\ guest' = "stopped" /\ restarts' = {}
    /\ UNCHANGED <<mem, disk, clock, requests, vmCfg, tunnel, node>>

\* Load, and the managers are made from the configuration.
Boot ==
    /\ ~up /\ file # Torn
    /\ CliBeside \/ ~CliBusy
    /\ up' = TRUE /\ mem' = file
    /\ vmCfg' = file.vm /\ tunnel' = file.tunnel /\ node' = file.tail
    /\ UNCHANGED <<lock, disk, clock, pc, requests, guest, restarts>>

-----------------------------------------------------------------------------
Handler(r) ==
    \/ Lock(r) \/ Lookup(r) \/ Invalid(r)
    \/ Setup(r) \/ Eject(r) \/ SetSharing(r) \/ AddUser(r) \/ ChangePassword(r)
    \/ DiskFails(r) \/ DiskThere(r) \/ CliChanges(r)
    \/ Truncate(r) \/ Write(r) \/ SaveFails(r) \/ Rename(r) \/ StartGuest(r)

Next ==
    \/ \E r \in Requests :
           \/ \E o \in Ops, n \in Names : Arrive(r, o, n)
           \/ \E n \in Names : CliRuns(r, n)
           \/ Handler(r)
    \/ \E s \in restarts : StartNode(s)
    \/ GuestChanges \/ Crash \/ Boot

Spec == Init /\ [][Next]_vars

\* A handler goes on: Go's RWMutex lets every waiter in, file operations and
\* qemu-img return, and vm.Start has a deadline of 45 seconds.
FairSpec == Spec /\ \A r \in Requests : WF_vars(Handler(r))

-----------------------------------------------------------------------------
\* The configuration c has the change of request r, or a later one of the same thing.
Has(c, r) ==
    /\ op[r] \in {"setup", "eject"} => c.vm >= mine[r]
    /\ op[r] = "tunnel" => c.tunnel >= mine[r]
    /\ op[r] = "tailscale" => c.tail >= mine[r]
    /\ op[r] \in {"user", "password", "cli"} =>
           \E u \in c.users : u[1] = user[r] /\ u[2] >= mine[r]

\* A change that was answered with success is in config.yaml, or a later change of
\* the same thing is: no other request, no command line and no crash takes it back.
AnsweredIsStored ==
    \A r \in Requests : pc[r] = "ok" /\ op[r] # "login" => file # Torn /\ Has(file, r)

\* config.yaml can be loaded whenever the server or the command line is killed.
FileComplete == file # Torn

\* vm.Manager and, unless a request failed, tunnel.Manager work with the settings
\* in memory whenever the lock is free.
ManagersFollow ==
    up /\ lock = NoOne =>
        /\ vmCfg = mem.vm
        /\ (\A r \in Requests : pc[r] # "error") => tunnel = mem.tunnel

\* Every request and every login comes back, although apiSetup keeps the lock while
\* it makes a disk image and starts the guest.
RequestsReturn == \A r \in Requests : pc[r] = "waiting" ~> pc[r] \in Done
=============================================================================
