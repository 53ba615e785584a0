---------------------------- MODULE SettingsProofs ----------------------------
(***************************************************************************)
(* Theorems about Settings when the command line runs alone, for every     *)
(* finite set of requests and every set of names.                          *)
(***************************************************************************)
EXTENDS Settings, TLAPS

\* A change that has been made and not saved yet.
Writing == {"disk", "saving", "writing", "written"}

\* A request, or a run of the command line, that has not come back.
Busy == {"waiting"} \cup Locked

\* Nothing of d is lost in c.
Newer(c, d) ==
    /\ c.vm >= d.vm /\ c.tunnel >= d.tunnel /\ c.tail >= d.tail
    /\ \A u \in d.users : \E v \in c.users : v[1] = u[1] /\ v[2] >= u[2]

\* No change of c is numbered above t.
UpTo(c, t) ==
    /\ c.vm <= t /\ c.tunnel <= t /\ c.tail <= t
    /\ \A u \in c.users : u[2] <= t

\* The server's requests hold the lock from their change to their return, and a
\* command line is alone.
Exclusive ==
    /\ \A r \in Requests :
          /\ op[r] # "cli" /\ pc[r] \in Busy => up
          /\ op[r] # "cli" /\ pc[r] \in Locked => lock = r
          /\ op[r] = "cli" /\ pc[r] \in Busy => ~up
          /\ op[r] = "cli" => pc[r] \notin {"locked", "disk", "start"}
    /\ \A r, s \in Requests :
          op[r] = "cli" /\ op[s] = "cli" /\ pc[r] \in Busy /\ pc[s] \in Busy => r = s

\* What a request is about to save has its change and everything in config.yaml.
Carried ==
    \A r \in Requests : pc[r] \in Writing =>
        /\ op[r] # "login" /\ Has(out[r], r)
        /\ Newer(out[r], file) /\ UpTo(out[r], clock)
        /\ op[r] # "cli" => out[r] = mem

\* The temporary file is the writer's own.
Written ==
    \A r \in Requests : /\ pc[r] = "writing" => tmp = Torn
                        /\ pc[r] = "written" => tmp = out[r]

\* The memory of a server that runs may be ahead of config.yaml, never behind.
Later == /\ up => Newer(mem, file)
         /\ UpTo(mem, clock) /\ UpTo(file, clock)

Answered ==
    \A r \in Requests : pc[r] \in {"ok", "start"} /\ op[r] # "login" => Has(file, r)

\* tunnel.Manager is behind only while the request that changes its settings saves.
Following ==
    up => /\ vmCfg = mem.vm
          /\ (\A r \in Requests : pc[r] # "error")
                => \/ tunnel = mem.tunnel
                   \/ \E r \in Requests : op[r] = "tunnel" /\ pc[r] \in Writing

IInv ==
    /\ TypeOK /\ file # Torn
    /\ Exclusive /\ Carried /\ Written /\ Later /\ Answered /\ Following

-----------------------------------------------------------------------------
(***************************************************************************)
(* Configurations.                                                         *)
(***************************************************************************)
\* A new number in a section loses nothing.
LEMMA SectionChanges ==
    ASSUME NEW c \in Configs, NEW d \in Configs, NEW t \in Nat, NEW e,
           Newer(c, d), UpTo(c, t),
           \/ e = [c EXCEPT !.vm = t + 1]
           \/ e = [c EXCEPT !.tunnel = t + 1]
           \/ e = [c EXCEPT !.tail = t + 1]
    PROVE  e \in Configs /\ Newer(e, d) /\ UpTo(e, t + 1)
<1>1. e \in Configs
  BY DEF Configs
<1>2. e.users = c.users
  BY DEF Configs
<1>3. /\ c.vm \in Nat /\ c.tunnel \in Nat /\ c.tail \in Nat
      /\ d.vm \in Nat /\ d.tunnel \in Nat /\ d.tail \in Nat
      /\ \A u \in c.users : u[2] \in Nat
  BY DEF Configs
<1>4. /\ e.vm \in {c.vm, t + 1} /\ e.tunnel \in {c.tunnel, t + 1}
      /\ e.tail \in {c.tail, t + 1}
  BY DEF Configs
<1>5. Newer(e, d)
  BY <1>2, <1>3, <1>4 DEF Newer, UpTo
<1>6. UpTo(e, t + 1)
  BY <1>2, <1>3, <1>4 DEF UpTo
<1> QED BY <1>1, <1>5, <1>6

\* A new password of one user loses no other user.
LEMMA UserChanges ==
    ASSUME NEW c \in Configs, NEW d \in Configs, NEW t \in Nat, NEW n \in Names, NEW e,
           Newer(c, d), UpTo(c, t), e = SetUser(c, n, t + 1)
    PROVE  e \in Configs /\ Newer(e, d) /\ UpTo(e, t + 1) /\ <<n, t + 1>> \in e.users
<1>1. /\ e.vm = c.vm /\ e.tunnel = c.tunnel /\ e.tail = c.tail
      /\ e.users = {u \in c.users : u[1] # n} \cup {<<n, t + 1>>}
  BY DEF SetUser, Configs
<1>2. /\ c.vm \in Nat /\ c.tunnel \in Nat /\ c.tail \in Nat
      /\ c.users \subseteq Names \X Nat /\ d.users \subseteq Names \X Nat
  BY DEF Configs
<1>3. e \in Configs
  <2>1. e.users \in SUBSET (Names \X Nat)
    BY <1>1, <1>2
  <2>2. e = [users |-> e.users, vm |-> c.vm, tunnel |-> c.tunnel, tail |-> c.tail]
    BY DEF SetUser, Configs
  <2> QED BY <2>1, <2>2, <1>2 DEF Configs
<1>4. Newer(e, d)
  <2>1. SUFFICES ASSUME NEW u \in d.users
                 PROVE  \E v \in e.users : v[1] = u[1] /\ v[2] >= u[2]
    BY <1>1 DEF Newer
  <2>2. PICK v \in c.users : v[1] = u[1] /\ v[2] >= u[2]
    BY DEF Newer
  <2>3. u[2] \in Nat /\ v[2] \in Nat /\ v[2] <= t
    BY <1>2 DEF UpTo
  <2>4. CASE v[1] = n
    <3>1. <<n, t + 1>> \in e.users /\ t + 1 >= u[2]
      BY <1>1, <2>2, <2>3
    <3> QED BY <3>1, <2>2, <2>4
  <2>5. CASE v[1] # n
    BY <1>1, <2>2, <2>5
  <2> QED BY <2>4, <2>5
<1>5. UpTo(e, t + 1)
  <2>1. \A u \in e.users : u[2] <= t + 1
    BY <1>1, <1>2 DEF UpTo
  <2> QED BY <1>1, <1>2, <2>1 DEF UpTo
<1> QED BY <1>1, <1>3, <1>4, <1>5

LEMMA NewerSelf ==
    ASSUME NEW c \in Configs PROVE Newer(c, c)
BY DEF Configs, Newer

\* What a configuration has, a newer one has.
LEMMA HasAfter ==
    ASSUME NEW c \in Configs, NEW d \in Configs, NEW r \in Requests,
           mine[r] \in Nat, Newer(c, d), Has(d, r)
    PROVE  Has(c, r)
<1>1. /\ c.vm \in Nat /\ c.tunnel \in Nat /\ c.tail \in Nat
      /\ d.vm \in Nat /\ d.tunnel \in Nat /\ d.tail \in Nat
      /\ \A u \in c.users \cup d.users : u[2] \in Nat
  BY DEF Configs
<1>2. ASSUME op[r] \in {"user", "password", "cli"}
      PROVE  \E v \in c.users : v[1] = user[r] /\ v[2] >= mine[r]
  <2>1. PICK u \in d.users : u[1] = user[r] /\ u[2] >= mine[r]
    BY <1>2 DEF Has
  <2>2. PICK v \in c.users : v[1] = u[1] /\ v[2] >= u[2]
    BY DEF Newer
  <2> QED BY <1>1, <2>1, <2>2
<1>3. /\ op[r] \in {"setup", "eject"} => c.vm >= mine[r]
      /\ op[r] = "tunnel" => c.tunnel >= mine[r]
      /\ op[r] = "tailscale" => c.tail >= mine[r]
  BY <1>1 DEF Has, Newer
<1> QED BY <1>2, <1>3 DEF Has

\* A request that is not touched has what it had.
LEMMA HasStays ==
    ASSUME NEW r \in Requests, op'[r] = op[r], user'[r] = user[r], mine'[r] = mine[r]
    PROVE  /\ out'[r] = out[r] /\ Has(out[r], r) => Has(out[r], r)'
           /\ file' = file /\ Has(file, r) => Has(file, r)'
BY DEF Has

-----------------------------------------------------------------------------
(***************************************************************************)
(* Steps that change neither a configuration nor a file.                   *)
(***************************************************************************)
LEMMA InitIInv == Init => IInv
<1> SUFFICES ASSUME Init PROVE IInv
  OBVIOUS
<1> USE SettingsAssumption, FileAssumption
<1> DEFINE First(n) == [users |-> {<<n, 0>>}, vm |-> 0, tunnel |-> 0, tail |-> 0]
<1>1. PICK admin \in Names :
          /\ up = TRUE /\ mem = First(admin) /\ file = First(admin) /\ tmp = Absent
          /\ lock = NoOne /\ clock = 0
          /\ op = [r \in Requests |-> "login"] /\ user = [r \in Requests |-> admin]
          /\ pc = [r \in Requests |-> "idle"] /\ mine = [r \in Requests |-> 0]
          /\ out = [r \in Requests |-> First(admin)]
          /\ vmCfg = 0 /\ guest = "stopped" /\ tunnel = 0 /\ node = 0
          /\ restarts = {}
  BY DEF Init
<1> DEFINE c == First(admin)
<1>2. c \in Configs /\ UpTo(c, 0) /\ c.vm = 0 /\ c.tunnel = 0
  BY DEF Configs, UpTo
<1> HIDE DEF c
<1>3. TypeOK /\ file # Torn
  BY <1>1, <1>2 DEF TypeOK, Ops, Places, c
<1>4. Later
  BY <1>1, <1>2, NewerSelf DEF Later, c
<1>5. Exclusive /\ Carried /\ Written /\ Answered /\ Following
  BY <1>1, <1>2 DEF Exclusive, Carried, Written, Answered, Following, Busy, Locked, Writing, c
<1> QED BY <1>3, <1>4, <1>5 DEF IInv

\* A request goes on, or comes back, with what it has.
LEMMA MoveIInv ==
    ASSUME IInv, NEW r \in Requests, NEW p \in Places, pc' = [pc EXCEPT ![r] = p],
           UNCHANGED <<up, mem, disk, clock, requests, vmCfg, tunnel, node>>,
           guest' \in {"stopped", "started"}, restarts' = restarts,
           lock' \in Requests \cup {NoOne},
           pc[r] \notin {"idle"} \cup Done,
           p \in Busy => \/ p = "locked" /\ op[r] # "cli" /\ lock = NoOne /\ lock' = r
                         \/ p = "saving" /\ pc[r] = "disk" /\ lock' = lock,
           p \notin Busy => p \in Done /\ lock' = IF lock = r THEN NoOne ELSE lock,
           p = "ok" => op[r] = "login" \/ pc[r] = "start",
           pc[r] \in Writing => p \in {"saving", "error"}
    PROVE  IInv'
<1> USE SettingsAssumption DEF IInv, disk, requests
<1>1. \A s \in Requests : pc'[s] = IF s = r THEN p ELSE pc[s]
  BY DEF TypeOK
<1>2. TypeOK' /\ file' # Torn
  BY DEF TypeOK
<1>3. Exclusive'
  <2>1. pc[r] \in Busy
    BY DEF TypeOK, Places, Busy
  <2>2. p \in Busy => up /\ op[r] # "cli" /\ lock' = r
    BY <2>1 DEF Exclusive, Busy, Locked
  <2>3. \A s \in Requests : s # r /\ op[s] # "cli" /\ pc[s] \in Locked => lock' = s
    BY DEF Exclusive, Busy, Locked
  <2> QED BY <1>1, <2>1, <2>2, <2>3 DEF Exclusive, Busy, Locked
<1>4. \A s \in Requests : pc'[s] \in Writing => pc[s] \in Writing
  BY <1>1 DEF Writing, Busy, Locked, Done
<1>5. Carried'
  BY <1>1, <1>4, HasStays DEF Carried
<1>6. Written'
  BY <1>1 DEF Written, Busy, Locked, Done
<1>7. Later'
  BY DEF Later
<1>8. Answered'
  BY <1>1, HasStays DEF Answered, Busy, Locked, Done
<1>9. Following'
  BY <1>1 DEF Following, Writing, Done, Busy, Locked
<1> QED BY <1>2, <1>3, <1>5, <1>6, <1>7, <1>8, <1>9

\* A handler begins.
LEMMA ArriveIInv ==
    ASSUME IInv, NEW r \in Requests, NEW o \in Ops, NEW n \in Names, Arrive(r, o, n)
    PROVE  IInv'
<1> USE SettingsAssumption DEF IInv, Arrive, disk, managers
<1>1. PICK p \in {"refused", "waiting"} : pc' = [pc EXCEPT ![r] = p]
  BY DEF Move
<1>2. \A s \in Requests : /\ pc'[s] = IF s = r THEN p ELSE pc[s]
                          /\ op'[s] = IF s = r THEN o ELSE op[s]
                          /\ user'[s] = IF s = r THEN n ELSE user[s]
  BY <1>1 DEF TypeOK
<1>3. TypeOK' /\ file' # Torn
  BY <1>1 DEF TypeOK, Places, Done
<1>4. Exclusive'
  BY <1>2 DEF Exclusive, Busy, Locked
<1>5. \A s \in Requests : s # r => op'[s] = op[s] /\ user'[s] = user[s]
  BY <1>2
<1>6. \A s \in Requests : pc'[s] \in Writing \/ pc'[s] \in {"ok", "start"} => s # r
  BY <1>2 DEF Writing
<1>7. Carried' /\ Written' /\ Answered'
  BY <1>2, <1>5, <1>6, HasStays DEF Carried, Written, Answered, Writing
<1>8. Later'
  BY DEF Later
<1>9. Following'
  BY <1>2 DEF Following, Writing
<1> QED BY <1>3, <1>4, <1>7, <1>8, <1>9

\* The command line begins, when nothing else runs.
LEMMA CliRunsIInv ==
    ASSUME IInv, CliBeside = FALSE, NEW r \in Requests, NEW n \in Names, CliRuns(r, n)
    PROVE  IInv'
<1> USE SettingsAssumption DEF IInv, CliRuns, disk, managers
<1>1. \A s \in Requests : /\ pc'[s] = IF s = r THEN "waiting" ELSE pc[s]
                          /\ op'[s] = IF s = r THEN "cli" ELSE op[s]
                          /\ user'[s] = IF s = r THEN n ELSE user[s]
  BY DEF Move, TypeOK
<1>2. ~up /\ \A s \in Requests : pc[s] \notin Busy
  BY DEF CliBusy, Exclusive, Busy, Locked, Done
<1>3. TypeOK' /\ file' # Torn
  BY DEF TypeOK, Places, Ops, Move
<1>4. Exclusive'
  BY <1>1, <1>2 DEF Exclusive, Busy, Locked
<1>5. \A s \in Requests : s # r => op'[s] = op[s] /\ user'[s] = user[s]
  BY <1>1
<1>6. \A s \in Requests : pc'[s] \in {"ok", "start"} => s # r /\ pc[s] = pc'[s]
  BY <1>1
<1>7. \A s \in Requests : pc'[s] \notin Writing
  BY <1>1, <1>2 DEF Writing, Busy, Locked
<1>8. Carried' /\ Written'
  BY <1>7 DEF Carried, Written, Writing
<1>9. Answered'
  BY <1>5, <1>6, HasStays DEF Answered
<1>10. Later' /\ Following'
  BY <1>2 DEF Later, Following
<1> QED BY <1>3, <1>4, <1>8, <1>9, <1>10

\* The server is killed: its requests are lost, a command line is not running then.
LEMMA CrashIInv ==
    ASSUME IInv, Crash
    PROVE  IInv'
<1> USE SettingsAssumption DEF IInv, Crash, disk, requests
<1>1. \A s \in Requests : pc'[s] = IF pc[s] \in Busy THEN "lost" ELSE pc[s]
  <2> SUFFICES ASSUME NEW s \in Requests
               PROVE  pc'[s] = IF pc[s] \in Busy THEN "lost" ELSE pc[s]
    OBVIOUS
  <2>1. pc[s] \in Places /\ (op[s] = "cli" => pc[s] \notin Busy)
    BY DEF TypeOK, Exclusive
  <2>2. pc[s] \in Busy <=> pc[s] \notin {"idle"} \cup Done
    BY <2>1 DEF Places, Busy, Locked, Done
  <2> QED BY <2>1, <2>2
<1>2. TypeOK' /\ file' # Torn
  BY DEF TypeOK, Places, Done
<1>3. \A s \in Requests : /\ pc'[s] \notin Busy /\ pc'[s] \notin Writing
                          /\ pc'[s] \in {"ok", "start"} => pc[s] = pc'[s]
  BY <1>1 DEF Busy, Locked, Writing
<1>4. Exclusive'
  BY <1>3 DEF Exclusive, Busy
<1>5. Carried' /\ Written'
  BY <1>3 DEF Carried, Written, Writing
<1>6. Answered'
  BY <1>3, HasStays DEF Answered
<1>7. Later' /\ Following'
  BY DEF Later, Following
<1> QED BY <1>2, <1>4, <1>5, <1>6, <1>7

\* The server starts with what config.yaml has, and nothing is under way.
LEMMA BootIInv ==
    ASSUME IInv, CliBeside = FALSE, Boot
    PROVE  IInv'
<1> USE SettingsAssumption DEF IInv, Boot, disk, requests
<1>1. \A s \in Requests : pc[s] \notin Busy
  BY DEF CliBusy, Exclusive, Busy, Locked, Done
<1>2. file \in Configs
  BY DEF TypeOK
<1>3. TypeOK' /\ file' # Torn
  BY <1>2 DEF TypeOK, Configs
<1>4. Exclusive'
  BY <1>1 DEF Exclusive, Busy
<1>5. Carried' /\ Written'
  BY <1>1 DEF Carried, Written, Writing, Busy, Locked
<1>6. Answered'
  BY HasStays DEF Answered
<1>7. Later'
  <2>1. Newer(mem', file')
    BY <1>2, NewerSelf
  <2> QED BY <2>1 DEF Later
<1>8. Following'
  BY DEF Following
<1> QED BY <1>3, <1>4, <1>5, <1>6, <1>7, <1>8

-----------------------------------------------------------------------------
(***************************************************************************)
(* A change, and Save.                                                     *)
(***************************************************************************)
\* A handler changes one thing in memory and marshals it.
LEMMA ChangeIInv ==
    ASSUME IInv, NEW r \in Requests, NEW p \in {"disk", "saving"},
           pc[r] = "locked", op[r] # "login", pc' = [pc EXCEPT ![r] = p],
           Change(r, mem'), mem' \in Configs, Newer(mem', file), UpTo(mem', Number),
           Has(out[r], r)',
           vmCfg' = mem'.vm, op[r] = "tunnel" \/ mem'.tunnel = mem.tunnel,
           UNCHANGED <<up, lock, disk, op, user, guest, tunnel, node, restarts>>
    PROVE  IInv'
<1> USE SettingsAssumption DEF IInv, disk, Change, Number
<1>1. \A s \in Requests : /\ pc'[s] = IF s = r THEN p ELSE pc[s]
                          /\ mine'[s] = IF s = r THEN clock + 1 ELSE mine[s]
                          /\ out'[s] = IF s = r THEN mem' ELSE out[s]
  BY DEF TypeOK
<1>2. up /\ op[r] # "cli" /\ \A s \in Requests : s # r => pc[s] \notin Locked
  BY DEF Exclusive, Busy, Locked
<1>3. clock \in Nat /\ clock' = clock + 1
  BY DEF TypeOK
<1>4. TypeOK' /\ file' # Torn
  <2>1. vmCfg' \in Nat
    BY DEF Configs
  <2>2. pc' \in [Requests -> Places] /\ mine' \in [Requests -> Nat]
        /\ out' \in [Requests -> Configs]
    BY <1>3 DEF TypeOK, Places, Locked
  <2> QED BY <1>3, <2>1, <2>2 DEF TypeOK
<1>5. Exclusive'
  BY <1>1, <1>2 DEF Exclusive, Busy, Locked
<1>6. \A s \in Requests : pc'[s] \in Writing => s = r
  BY <1>1, <1>2 DEF Writing, Locked
<1>7. Carried'
  BY <1>1, <1>2, <1>6 DEF Carried
<1>8. Written'
  BY <1>1, <1>2 DEF Written, Locked
<1>9. Later'
  <2>1. UpTo(file, clock + 1)
    <3>1. /\ file.vm \in Nat /\ file.tunnel \in Nat /\ file.tail \in Nat
          /\ \A u \in file.users : u[2] \in Nat
      BY DEF TypeOK, Configs
    <3> QED BY <1>3, <3>1 DEF Later, UpTo
  <2> QED BY <2>1 DEF Later
<1>10. Answered'
  <2>1. \A s \in Requests : pc'[s] \in {"ok", "start"} => s # r /\ pc[s] = pc'[s]
    BY <1>1
  <2> QED BY <1>1, <2>1, HasStays DEF Answered
<1>11. Following'
  <2>1. pc'[r] \in Writing /\ \A s \in Requests : pc[s] \notin Writing
    BY <1>1, <1>2 DEF Writing, Locked
  <2>2. ASSUME \A s \in Requests : pc'[s] # "error"
        PROVE  tunnel = mem.tunnel
    BY <1>1, <1>2, <2>1, <2>2 DEF Following
  <2> QED BY <2>1, <2>2 DEF Following
<1> QED BY <1>4, <1>5, <1>7, <1>8, <1>9, <1>10, <1>11

\* The command line changes what it has loaded.
LEMMA CliChangesIInv ==
    ASSUME IInv, NEW r \in Requests, CliChanges(r)
    PROVE  IInv'
<1> USE SettingsAssumption DEF IInv, disk, Change, Number, CliChanges, managers
<1> DEFINE c == SetUser(file, user[r], clock + 1)
<1>1. clock \in Nat /\ clock' = clock + 1 /\ file \in Configs /\ user[r] \in Names
  BY DEF TypeOK
<1>2. c \in Configs /\ Newer(c, file) /\ UpTo(c, clock + 1)
      /\ <<user[r], clock + 1>> \in c.users
  BY <1>1, NewerSelf, UserChanges DEF Later
<1> HIDE DEF c
<1>3. \A s \in Requests : /\ pc'[s] = IF s = r THEN "saving" ELSE pc[s]
                          /\ mine'[s] = IF s = r THEN clock + 1 ELSE mine[s]
                          /\ out'[s] = IF s = r THEN c ELSE out[s]
  BY DEF TypeOK, Move, c
<1>4. ~up /\ op[r] = "cli" /\ \A s \in Requests : s # r => pc[s] \notin Busy
  BY DEF Exclusive, Busy
<1>5. TypeOK' /\ file' # Torn
  <2>1. pc' \in [Requests -> Places] /\ mine' \in [Requests -> Nat]
        /\ out' \in [Requests -> Configs]
    BY <1>1, <1>2 DEF TypeOK, Places, Locked, Move, c
  <2> QED BY <1>1, <2>1 DEF TypeOK
<1>6. Exclusive'
  BY <1>3, <1>4 DEF Exclusive, Busy, Locked
<1>7. \A s \in Requests : pc'[s] \in Writing => s = r
  BY <1>3, <1>4 DEF Writing, Locked, Busy
<1>8. Has(out[r], r)'
  BY <1>1, <1>2, <1>3, <1>4 DEF Has
<1>9. Carried'
  BY <1>1, <1>2, <1>3, <1>4, <1>7, <1>8 DEF Carried
<1>10. Written'
  BY <1>3, <1>7 DEF Written, Writing
<1>11. Later'
  <2>1. UpTo(file, clock + 1) /\ UpTo(mem, clock + 1)
    <3>1. \A d \in Configs : UpTo(d, clock) => UpTo(d, clock + 1)
      BY <1>1 DEF UpTo, Configs
    <3> QED BY <1>1, <3>1 DEF Later, TypeOK
  <2> QED BY <1>4, <2>1 DEF Later
<1>12. Answered'
  <2>1. \A s \in Requests : pc'[s] \in {"ok", "start"} => s # r /\ pc[s] = pc'[s]
    BY <1>3
  <2> QED BY <1>3, <2>1, HasStays DEF Answered
<1>13. Following'
  BY <1>4 DEF Following
<1> QED BY <1>5, <1>6, <1>9, <1>10, <1>11, <1>12, <1>13

\* The changes of one section.
LEMMA SectionIInv ==
    ASSUME IInv, NEW r \in Requests, Setup(r) \/ Eject(r) \/ SetSharing(r)
    PROVE  IInv'
<1> USE DEF IInv, Change, Number, managers, requests, disk
<1>1. /\ clock \in Nat /\ mem \in Configs /\ file \in Configs
      /\ pc[r] = "locked" /\ op[r] \in {"setup", "eject", "tunnel", "tailscale"}
      /\ \/ mem' = [mem EXCEPT !.vm = clock + 1] /\ op[r] \in {"setup", "eject"}
         \/ mem' = [mem EXCEPT !.tunnel = clock + 1] /\ op[r] = "tunnel"
         \/ mem' = [mem EXCEPT !.tail = clock + 1] /\ op[r] = "tailscale"
      /\ Change(r, mem') /\ UNCHANGED <<up, lock, disk, op, user, guest, tunnel, node, restarts>>
  BY DEF Setup, Eject, SetSharing, TypeOK
<1>2. up /\ Newer(mem, file) /\ UpTo(mem, clock) /\ vmCfg = mem.vm
  BY <1>1 DEF Exclusive, Busy, Locked, Later, Following
<1>3. mem' \in Configs /\ Newer(mem', file) /\ UpTo(mem', clock + 1)
  BY <1>1, <1>2, SectionChanges
<1>4. PICK p \in {"disk", "saving"} : pc' = [pc EXCEPT ![r] = p]
  BY DEF Setup, Eject, SetSharing, Move
<1>5. /\ op[r] \in {"setup", "eject"} => mem'.vm = clock + 1
      /\ op[r] = "tunnel" => mem'.tunnel = clock + 1
      /\ op[r] = "tailscale" => mem'.tail = clock + 1
      /\ op[r] # "tunnel" => mem'.tunnel = mem.tunnel
      /\ op[r] \in {"tunnel", "tailscale"} => mem'.vm = mem.vm
  BY <1>1 DEF Configs
<1>6. mine'[r] = clock + 1 /\ out'[r] = mem' /\ op'[r] = op[r]
  BY <1>1 DEF TypeOK
<1>7. Has(out[r], r)'
  BY <1>1, <1>5, <1>6 DEF Has
<1>8. vmCfg' = mem'.vm
  BY <1>1, <1>2, <1>5 DEF Setup, Eject, SetSharing
<1> QED BY <1>1, <1>3, <1>4, <1>5, <1>7, <1>8, ChangeIInv

\* The changes of one user.
LEMMA UserIInv ==
    ASSUME IInv, NEW r \in Requests, pc[r] = "locked", op[r] \in {"user", "password"},
           mem' = SetUser(mem, user[r], Number), Change(r, mem'), Move(r, "saving"),
           UNCHANGED <<up, lock, disk, op, user, managers>>
    PROVE  IInv'
<1> USE DEF IInv, Number, managers
<1>1. clock \in Nat /\ mem \in Configs /\ file \in Configs /\ user[r] \in Names
  BY DEF TypeOK
<1>2. up /\ Newer(mem, file) /\ UpTo(mem, clock) /\ vmCfg = mem.vm
  BY DEF Exclusive, Busy, Locked, Later, Following
<1>3. /\ mem' \in Configs /\ Newer(mem', file) /\ UpTo(mem', clock + 1)
      /\ <<user[r], clock + 1>> \in mem'.users
  BY <1>1, <1>2, UserChanges
<1>4. mem'.vm = mem.vm /\ mem'.tunnel = mem.tunnel
  BY <1>1 DEF SetUser, Configs
<1>5. mine'[r] = clock + 1 /\ out'[r] = mem' /\ op'[r] = op[r] /\ user'[r] = user[r]
  BY DEF TypeOK, Change
<1>6. Has(out[r], r)'
  BY <1>1, <1>3, <1>5 DEF Has
<1> QED BY <1>2, <1>3, <1>4, <1>6, ChangeIInv DEF Move

\* Two requests are not both between their change and their return.
LEMMA OneWriter ==
    ASSUME Exclusive, NEW r \in Requests, NEW s \in Requests,
           pc[r] \in Locked, pc[s] \in Locked
    PROVE  r = s
BY DEF Exclusive, Busy

\* The temporary file is truncated, then written.
LEMMA WriteIInv ==
    ASSUME IInv, NEW r \in Requests, Truncate(r) \/ Write(r)
    PROVE  IInv'
<1> USE SettingsAssumption DEF IInv, requests, managers
<1>1. PICK p \in {"writing", "written"} :
          /\ pc' = [pc EXCEPT ![r] = p]
          /\ p = "writing" => tmp' = Torn
          /\ p = "written" => tmp' = out[r]
  BY DEF Truncate, Write, Written, Move
<1>2. pc[r] \in {"saving", "writing"} /\ UNCHANGED <<up, mem, lock, clock, requests, managers>>
  BY DEF Truncate, Write
<1>3. file' = file
  BY DEF Truncate, Write, Written
<1>4. \A s \in Requests : /\ pc'[s] = IF s = r THEN p ELSE pc[s]
                          /\ s # r => pc[s] \notin Locked
  BY <1>1, <1>2, OneWriter DEF TypeOK, Locked
<1>5. TypeOK' /\ file' # Torn
  <2>1. tmp' \in Configs \cup {Absent, Torn}
    BY <1>1 DEF TypeOK
  <2>2. pc' \in [Requests -> Places]
    BY <1>1 DEF TypeOK, Places, Locked
  <2> QED BY <1>2, <1>3, <2>1, <2>2 DEF TypeOK
<1>6. Exclusive'
  BY <1>2, <1>4 DEF Exclusive, Busy, Locked
<1>7. \A s \in Requests : pc'[s] \in Writing => s = r /\ pc[s] \in Writing
  BY <1>2, <1>4 DEF Writing, Locked
<1>8. Carried'
  BY <1>2, <1>3, <1>7, HasStays DEF Carried
<1>9. Written'
  BY <1>1, <1>2, <1>4, <1>7 DEF Written, Writing
<1>10. Later'
  BY <1>2, <1>3 DEF Later
<1>11. Answered'
  <2>1. \A s \in Requests : pc'[s] \in {"ok", "start"} => pc[s] = pc'[s]
    BY <1>1, <1>4
  <2> QED BY <1>2, <1>3, <2>1, HasStays DEF Answered
<1>12. Following'
  BY <1>2, <1>4 DEF Following, Writing, Locked
<1> QED BY <1>5, <1>6, <1>8, <1>9, <1>10, <1>11, <1>12

\* The new file takes the place of the old one, which it has all changes of.
LEMMA RenameIInv ==
    ASSUME IInv, NEW r \in Requests, Rename(r)
    PROVE  IInv'
<1> USE SettingsAssumption, FileAssumption DEF IInv, requests
<1>1. PICK p \in {"start", "ok"} :
          /\ pc' = [pc EXCEPT ![r] = p]
          /\ p = "start" => op[r] = "setup" /\ lock' = lock
          /\ lock' \in {lock, NoOne}
  BY DEF Rename, Move, Return
<1>2. /\ pc[r] = "written" /\ tmp = out[r] /\ file' = out[r] /\ tmp' = Absent
      /\ UNCHANGED <<up, mem, clock, requests, vmCfg, guest, node>>
      /\ tunnel' = IF op[r] = "tunnel" THEN mem.tunnel ELSE tunnel
      /\ restarts' = restarts \cup (IF op[r] = "tailscale" THEN {mem.tail} ELSE {})
  BY DEF Rename, Written
<1>3. \A s \in Requests : /\ pc'[s] = IF s = r THEN p ELSE pc[s]
                          /\ s # r => pc[s] \notin Locked
  BY <1>1, <1>2, OneWriter DEF TypeOK, Locked
<1>4. /\ op[r] # "login" /\ Has(out[r], r) /\ Newer(out[r], file)
      /\ UpTo(out[r], clock) /\ (op[r] # "cli" => out[r] = mem)
      /\ out[r] \in Configs /\ file \in Configs
  BY <1>2 DEF Carried, Writing, TypeOK
<1>5. TypeOK' /\ file' # Torn
  <2>1. pc' \in [Requests -> Places] /\ lock' \in Requests \cup {NoOne}
    BY <1>1 DEF TypeOK, Places, Locked, Done
  <2>2. tunnel' \in Nat /\ restarts' \subseteq Nat
    BY <1>2 DEF TypeOK, Configs
  <2> QED BY <1>2, <1>4, <2>1, <2>2 DEF TypeOK
<1>6. Exclusive'
  BY <1>1, <1>2, <1>3 DEF Exclusive, Busy, Locked
<1>7. \A s \in Requests : pc'[s] \notin Writing
  BY <1>3 DEF Writing, Locked
<1>8. Carried' /\ Written'
  BY <1>7 DEF Carried, Written, Writing
<1>9. Later'
  <2>1. up => Newer(mem, out[r])
    <3>1. ASSUME up PROVE op[r] # "cli"
      BY <1>2, <3>1 DEF Exclusive, Busy, Locked
    <3> QED BY <1>4, <3>1, NewerSelf
  <2> QED BY <1>2, <1>4, <2>1 DEF Later
<1>10. Answered'
  <2>1. SUFFICES ASSUME NEW s \in Requests, pc'[s] \in {"ok", "start"}, op'[s] # "login"
                 PROVE  Has(file, s)'
    BY DEF Answered
  <2>2. Has(out[r], s)
    <3>1. CASE s = r
      BY <1>4, <3>1
    <3>2. CASE s # r
      <4>1. Has(file, s) /\ mine[s] \in Nat
        BY <1>2, <1>3, <2>1, <3>2 DEF Answered, TypeOK
      <4> QED BY <1>4, <4>1, HasAfter
    <3> QED BY <3>1, <3>2
  <2> QED BY <1>2, <2>2 DEF Has
<1>11. Following'
  <2>1. ASSUME up PROVE vmCfg = mem.vm
    BY <2>1 DEF Following
  <2>2. ASSUME up, \A s \in Requests : pc'[s] # "error" PROVE tunnel' = mem.tunnel
    <3>1. tunnel = mem.tunnel \/ \E s \in Requests : op[s] = "tunnel" /\ pc[s] \in Writing
      BY <1>2, <1>3, <2>2 DEF Following
    <3>2. \A s \in Requests : pc[s] \in Writing => s = r
      BY <1>3 DEF Writing, Locked
    <3> QED BY <1>2, <3>1, <3>2
  <2> QED BY <1>2, <2>1, <2>2 DEF Following
<1> QED BY <1>5, <1>6, <1>8, <1>9, <1>10, <1>11

-----------------------------------------------------------------------------
\* The guest and the goroutines of apiTailscale touch nothing of the invariant but types.
LEMMA OtherIInv ==
    ASSUME IInv, UNCHANGED <<up, mem, lock, disk, clock, pc, requests, vmCfg, tunnel>>,
           node' \in Nat, guest' \in {"stopped", "started"}, restarts' \subseteq Nat
    PROVE  IInv'
<1> USE DEF IInv, disk, requests
<1>1. TypeOK' /\ file' # Torn
  BY DEF TypeOK
<1>2. Exclusive' /\ Written' /\ Later' /\ Following'
  BY DEF Exclusive, Written, Later, Following
<1>3. Carried' /\ Answered'
  BY HasStays DEF Carried, Answered
<1> QED BY <1>1, <1>2, <1>3

\* One step per action.
LEMMA StepIInv ==
    ASSUME IInv, CliBeside = FALSE, [Next]_vars
    PROVE  IInv'
<1> USE DEF IInv
<1>1. ASSUME NEW r \in Requests, NEW o \in Ops, NEW n \in Names, Arrive(r, o, n)
      PROVE  IInv'
  BY <1>1, ArriveIInv
<1>2. ASSUME NEW r \in Requests, NEW n \in Names, CliRuns(r, n)
      PROVE  IInv'
  BY <1>2, CliRunsIInv
<1>3. ASSUME NEW r \in Requests, Lock(r) \/ DiskThere(r)
      PROVE  IInv'
  <2>1. PICK p \in {"locked", "saving"} :
            /\ pc' = [pc EXCEPT ![r] = p]
            /\ p = "locked" => op[r] # "cli" /\ lock = NoOne /\ lock' = r
                              /\ pc[r] = "waiting"
            /\ p = "saving" => pc[r] = "disk" /\ lock' = lock
    BY <1>3 DEF Lock, DiskThere, Move
  <2>2. /\ guest' \in {"stopped", "started"} /\ lock' \in Requests \cup {NoOne}
        /\ p \in Places /\ p \in Busy /\ p # "ok"
    BY <1>3, <2>1 DEF Lock, DiskThere, managers, TypeOK, Places, Locked, Busy
  <2>3. \/ p = "locked" /\ op[r] # "cli" /\ lock = NoOne /\ lock' = r
        \/ p = "saving" /\ pc[r] = "disk" /\ lock' = lock
    BY <2>1
  <2>4. /\ UNCHANGED <<up, mem, disk, clock, requests, vmCfg, tunnel, node, restarts>>
        /\ pc[r] \notin {"idle"} \cup Done
        /\ pc[r] \in Writing => p \in {"saving", "error"}
    BY <1>3, <2>1 DEF Lock, DiskThere, managers, Done, Writing
  <2> QED BY <2>1, <2>2, <2>3, <2>4, MoveIInv
<1>4. ASSUME NEW r \in Requests,
             Lookup(r) \/ Invalid(r) \/ DiskFails(r) \/ SaveFails(r) \/ StartGuest(r)
      PROVE  IInv'
  <2>1. PICK p \in {"ok", "refused", "error"} :
            /\ pc' = [pc EXCEPT ![r] = p]
            /\ p = "ok" => op[r] = "login" \/ pc[r] = "start"
            /\ pc[r] \in Writing => p = "error"
            /\ pc[r] \in Busy
            /\ lock' = IF lock = r THEN NoOne ELSE lock
    BY <1>4, SettingsAssumption
       DEF Lookup, Invalid, DiskFails, SaveFails, StartGuest, Move, Return, Busy, Locked,
           Writing
  <2>2. guest' \in {"stopped", "started"} /\ lock' \in Requests \cup {NoOne}
        /\ p \in Places /\ p \notin Busy /\ p \in Done /\ pc[r] \notin {"idle"} \cup Done
    BY <1>4, <2>1
       DEF Lookup, Invalid, DiskFails, SaveFails, StartGuest, managers, TypeOK, Places, Locked,
           Busy, Done
  <2>3. UNCHANGED <<up, mem, disk, clock, requests, vmCfg, tunnel, node, restarts>>
    BY <1>4 DEF Lookup, Invalid, DiskFails, SaveFails, StartGuest, managers
  <2> QED BY <2>1, <2>2, <2>3, MoveIInv
<1>5. ASSUME NEW r \in Requests, Setup(r) \/ Eject(r) \/ SetSharing(r)
      PROVE  IInv'
  BY <1>5, SectionIInv
<1>6. ASSUME NEW r \in Requests, AddUser(r)
      PROVE  IInv'
  BY <1>6, UserIInv DEF AddUser
<1>7. ASSUME NEW r \in Requests, ChangePassword(r)
      PROVE  IInv'
  <2>1. CASE Known(mem, user[r])
    BY <1>7, <2>1, UserIInv DEF ChangePassword
  <2>2. CASE ~Known(mem, user[r])
    <3>1. /\ pc[r] = "locked" /\ Return(r, "refused")
          /\ UNCHANGED <<up, mem, disk, clock, requests, managers>>
      BY <1>7, <2>2 DEF ChangePassword, requests
    <3>2. guest' \in {"stopped", "started"} /\ lock' \in Requests \cup {NoOne}
          /\ "refused" \in Places /\ "refused" \notin Busy /\ "refused" \in Done
          /\ pc[r] \notin {"idle"} \cup Done /\ pc[r] \notin Writing
      BY <3>1 DEF Return, managers, TypeOK, Places, Locked, Busy, Done, Writing
    <3> QED BY <3>1, <3>2, MoveIInv DEF managers, Return, Move
  <2> QED BY <2>1, <2>2
<1>8. ASSUME NEW r \in Requests, CliChanges(r)
      PROVE  IInv'
  BY <1>8, CliChangesIInv
<1>9. ASSUME NEW r \in Requests, Truncate(r) \/ Write(r)
      PROVE  IInv'
  BY <1>9, WriteIInv
<1>10. ASSUME NEW r \in Requests, Rename(r)
       PROVE  IInv'
  BY <1>10, RenameIInv
<1>11. ASSUME NEW s \in restarts, StartNode(s)
       PROVE  IInv'
  BY <1>11, OtherIInv DEF StartNode, TypeOK
<1>12. CASE GuestChanges
  BY <1>12, OtherIInv DEF GuestChanges, TypeOK
<1>13. CASE Crash
  BY <1>13, CrashIInv
<1>14. CASE Boot
  BY <1>14, BootIInv
<1>15. CASE UNCHANGED vars
  BY <1>15, OtherIInv DEF vars, disk, requests, managers, TypeOK
<1> QED BY <1>1, <1>2, <1>3, <1>4, <1>5, <1>6, <1>7, <1>8, <1>9, <1>10, <1>11, <1>12,
           <1>13, <1>14, <1>15 DEF Next, Handler

-----------------------------------------------------------------------------
\* The configuration goes from hand to hand as IInv says, as long as the command
\* line is not used beside the server or another run of itself.
THEOREM SettingsInvariant == ASSUME CliBeside = FALSE PROVE Spec => []IInv
<1>1. IInv /\ [Next]_vars => IInv'
  BY StepIInv
<1> QED BY <1>1, InitIInv, PTL DEF Spec

\* A server or a command line that is killed at any step of Save leaves a config.yaml
\* that can be loaded: os.WriteFile only ever touches config.yaml.tmp.
THEOREM FileAlwaysComplete == ASSUME CliBeside = FALSE PROVE Spec => []FileComplete
<1>1. IInv => FileComplete
  BY DEF IInv, FileComplete
<1> QED BY <1>1, SettingsInvariant, PTL

\* A change that was answered with success stays in config.yaml until a later change
\* of the same thing: Save writes what the lock has kept from everybody else.
THEOREM AnswersAreStored == ASSUME CliBeside = FALSE PROVE Spec => []AnsweredIsStored
<1>1. IInv => AnsweredIsStored
  BY DEF IInv, Answered, AnsweredIsStored
<1> QED BY <1>1, SettingsInvariant, PTL

\* vm.Manager, and tunnel.Manager unless a request failed, have the settings in memory
\* whenever Config.mu is free.
THEOREM ManagersHaveSettings == ASSUME CliBeside = FALSE PROVE Spec => []ManagersFollow
<1>1. IInv => ManagersFollow
  <2>1. SUFFICES ASSUME IInv, up, lock = NoOne
                 PROVE  /\ vmCfg = mem.vm
                        /\ (\A r \in Requests : pc[r] # "error") => tunnel = mem.tunnel
    BY DEF ManagersFollow
  <2>2. \A r \in Requests : pc[r] \notin Writing
    BY <2>1, SettingsAssumption DEF IInv, Exclusive, Busy, Locked, Writing
  <2> QED BY <2>1, <2>2 DEF IInv, Following
<1> QED BY <1>1, SettingsInvariant, PTL
=============================================================================
