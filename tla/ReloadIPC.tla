------------------------------ MODULE ReloadIPC ------------------------------
(***************************************************************************)
(* The "apply changes" protocol between the two daemons of Vuurmuur and    *)
(* the configuration tools that talk to them.                              *)
(*                                                                         *)
(* Each daemon owns one shared memory table (struct SHM_TABLE) and one     *)
(* System V semaphore.  A tool sets backend_changed; the daemon takes the  *)
(* request in its main loop, reloads, publishes reload_result with         *)
(* reload_progress = 100 and waits for VR_RR_RESULT_ACK; the tool polls,   *)
(* and acknowledges in a critical section of its own.  SIGHUPs, changed    *)
(* dynamic addresses, time-outs of either side, a tool that dies (perhaps  *)
(* inside a critical section) and a daemon that stops or dies are actions. *)
(*                                                                         *)
(* Everything in the table is read and written under the semaphore, so one *)
(* critical section is one step (module ShmLock is the argument).  The     *)
(* configtool member of the table only feeds log messages and is left out; *)
(* so is VR_RR_NOCHANGES, which no daemon can publish: neither             *)
(* apply_changes nor the reload of vuurmuur_log ever yields 1.             *)
(***************************************************************************)
EXTENDS Integers, FiniteSets

CONSTANTS
    Clients,     \* the processes that apply changes
    Scripts,     \* those that run vuurmuur_script; the others run vuurmuur_conf
    Patient,     \* those whose 60 seconds never elapse
    Killable,    \* clients that may be killed
    Running,     \* daemons that are up at the start
    Stoppable,   \* daemons that may be stopped or killed
    MaxEdits,    \* bound: edits of the backend that are applied
    MaxEvents    \* bound: SIGHUPs from outside plus changes of a dynamic address

Vuurmuur == "vuurmuur"
Log      == "vuurmuur_log"
Servers  == {Vuurmuur, Log}

ASSUME ReloadAssumption ==
    /\ Scripts \subseteq Clients
    /\ Patient \subseteq Clients
    /\ Killable \subseteq Clients
    /\ Running \subseteq Servers
    /\ Stoppable \subseteq Servers
    /\ MaxEdits \in Nat
    /\ MaxEvents \in Nat

(* enum vrmr_reload_result, without VR_RR_NOCHANGES *)
NoResultYet == "no_result_yet"
Ready       == "ready"
Succes      == "succes"
Error       == "error"
Ack         == "result_ack"
Results     == {NoResultYet, Ready, Succes, Error, Ack}

Partway  == 50                  \* stands for the 5..95 of shm_update_progress
Progress == {0, Partway, 100}
Versions == 0..MaxEdits         \* states of the backend, in the order of the edits

VARIABLES
    sem,        \* per daemon: free, held (by a dead process), or gone (removed)
    changed,    \* shm_table->backend_changed
    result,     \* shm_table->reload_result
    progress,   \* shm_table->reload_progress
    spc,        \* where the daemon is in its main loop
    reloadShm,  \* local reload_shm / reload: this reload answers a request
    hup,        \* sighup_count > 0
    reloadDyn,  \* local reload_dyn of vuurmuur
    ok,         \* the outcome of the reload that is about to be published
    seen,       \* version of the backend the latest reload started from
    applied,    \* the same, of the latest reload that succeeded
    posted,     \* version of the latest edit somebody asked the daemon to load
    hupOwed,    \* a SIGHUP arrived and no reload started since
    backend,    \* current version of the backend
    events,     \* outside events so far
    cpc,        \* where the client is
    cur,        \* the daemon the client deals with now
    att,        \* the daemons the client is attached to
    want,       \* the version the client is applying
    cres,       \* vuurmuur_result, vuurmuurlog_result
    cprog,      \* vuurmuur_progress, vuurmuurlog_progress
    bad         \* the daemons the client takes to have failed

shm     == <<sem, changed, result, progress>>
local   == <<spc, reloadShm, hup, reloadDyn, ok>>
history == <<seen, applied, posted, hupOwed>>
client  == <<cpc, cur, att, want, cres, cprog, bad>>
vars    == <<shm, local, history, backend, events, client>>

ServerPCs == {"main", "begin", "load", "post", "ack", "reset", "down", "dead"}
ClientPCs == {"idle", "post", "poll", "finish", "done", "refused", "killed"}

TypeOK ==
    /\ sem \in [Servers -> {"free", "held", "gone"}]
    /\ changed \in [Servers -> BOOLEAN]
    /\ result \in [Servers -> Results]
    /\ progress \in [Servers -> Progress]
    /\ spc \in [Servers -> ServerPCs]
    /\ reloadShm \in [Servers -> BOOLEAN]
    /\ hup \in [Servers -> BOOLEAN]
    /\ reloadDyn \in BOOLEAN
    /\ ok \in [Servers -> BOOLEAN]
    /\ seen \in [Servers -> Versions]
    /\ applied \in [Servers -> Versions]
    /\ posted \in [Servers -> Versions]
    /\ hupOwed \in [Servers -> BOOLEAN]
    /\ backend \in Versions
    /\ events \in 0..MaxEvents
    /\ cpc \in [Clients -> ClientPCs]
    /\ cur \in [Clients -> Servers]
    /\ att \in [Clients -> SUBSET Servers]
    /\ want \in [Clients -> Versions]
    /\ cres \in [Clients -> [Servers -> Results]]
    /\ cprog \in [Clients -> [Servers -> Progress]]
    /\ bad \in [Clients -> SUBSET Servers]

(* The daemons in Running have set up their table and entered the loop; the
   others left no shared memory and no pidfile. *)
Init ==
    /\ sem = [s \in Servers |-> IF s \in Running THEN "free" ELSE "gone"]
    /\ changed = [s \in Servers |-> FALSE]
    /\ result = [s \in Servers |-> Ready]
    /\ progress = [s \in Servers |-> 0]
    /\ spc = [s \in Servers |-> IF s \in Running THEN "main" ELSE "down"]
    /\ reloadShm = [s \in Servers |-> FALSE]
    /\ hup = [s \in Servers |-> FALSE]
    /\ reloadDyn = FALSE
    /\ ok = [s \in Servers |-> TRUE]
    /\ seen = [s \in Servers |-> 0]
    /\ applied = [s \in Servers |-> 0]
    /\ posted = [s \in Servers |-> 0]
    /\ hupOwed = [s \in Servers |-> FALSE]
    /\ backend = 0
    /\ events = 0
    /\ cpc = [c \in Clients |-> "idle"]
    /\ cur = [c \in Clients |-> Vuurmuur]
    /\ att = [c \in Clients |-> {}]
    /\ want = [c \in Clients |-> 0]
    /\ cres = [c \in Clients |-> [s \in Servers |-> NoResultYet]]
    /\ cprog = [c \in Clients |-> [s \in Servers |-> 0]]
    /\ bad = [c \in Clients |-> {}]

-----------------------------------------------------------------------------
(* LockSHM: semop waits while somebody has the semaphore, and fails when it
   was removed.  There is no SEM_UNDO: what a dead process held stays held. *)
CanLock(s)   == sem[s] = "free"
LockFails(s) == sem[s] = "gone"
Alive(s)     == spc[s] \notin {"down", "dead"}

Goto(s, pc) == spc' = [spc EXCEPT ![s] = pc]

-----------------------------------------------------------------------------
(* The daemons. *)

(* Top of the main loop: take a request under the lock, then decide whether to
   reload.  Only vuurmuur looks for changed dynamic addresses. *)
Take(s) ==
    /\ changed' = [changed EXCEPT ![s] = FALSE]
    /\ reloadShm' = [reloadShm EXCEPT ![s] = changed[s]]
    /\ progress' = [progress EXCEPT ![s] = IF changed[s] THEN 0 ELSE @]

(* sighup_count > 0 || reload_shm == TRUE || reload_dyn == TRUE *)
MustReload_NoShm(s) == hup[s] \/ (s = Vuurmuur /\ reloadDyn')

MustReload(s) == hup[s] \/ reloadShm'[s] \/ (s = Vuurmuur /\ reloadDyn')

CheckDynamic(s) ==
    \E d \in BOOLEAN :
        /\ d => s = Vuurmuur /\ events < MaxEvents
        /\ reloadDyn' = IF s = Vuurmuur THEN d ELSE reloadDyn
        /\ events' = IF d THEN events + 1 ELSE events

Main(s) ==
    /\ spc[s] = "main"
    /\ CanLock(s)
    /\ Take(s)
    /\ CheckDynamic(s)
    /\ Goto(s, IF MustReload(s) THEN "begin" ELSE "main")
    /\ UNCHANGED <<sem, result, hup, ok, history, backend, client>>

(* The reload starts.  vuurmuur_log forgets the SIGHUP here, vuurmuur does so
   after the reload, in Reset. *)
Begin(s) ==
    /\ spc[s] = "begin"
    /\ CanLock(s)
    /\ progress' = [progress EXCEPT ![s] = Partway]
    /\ hup' = IF s = Log THEN [hup EXCEPT ![s] = FALSE] ELSE hup
    /\ hupOwed' = [hupOwed EXCEPT ![s] = FALSE]
    /\ seen' = [seen EXCEPT ![s] = backend]
    /\ Goto(s, "load")
    /\ UNCHANGED <<sem, changed, result, reloadShm, reloadDyn, ok, applied,
                   posted, backend, events, client>>

(* The rest of apply_changes_ruleset, or of the reload of vuurmuur_log.  A
   failure is an error result of vuurmuur, and the end of vuurmuur_log, which
   calls exit() and leaves its table, semaphore and pidfile behind. *)
Load(s) ==
    /\ spc[s] = "load"
    /\ CanLock(s)
    /\ \E r \in BOOLEAN :
        /\ ok' = [ok EXCEPT ![s] = r]
        /\ applied' = IF r THEN [applied EXCEPT ![s] = seen[s]] ELSE applied
        /\ Goto(s, IF ~r /\ s = Log THEN "dead"
                   ELSE IF reloadShm[s] THEN "post" ELSE "reset")
    /\ UNCHANGED <<shm, reloadShm, hup, reloadDyn, seen, posted, hupOwed,
                   backend, events, client>>

(* Progress and result are published in one critical section. *)
PostResult_AlwaysSucces(s) ==
    /\ spc[s] = "post"
    /\ CanLock(s)
    /\ progress' = [progress EXCEPT ![s] = 100]
    /\ result' = [result EXCEPT ![s] = Succes]
    /\ Goto(s, "ack")
    /\ UNCHANGED <<sem, changed, reloadShm, hup, reloadDyn, ok, history,
                   backend, events, client>>

PostResult(s) ==
    /\ spc[s] = "post"
    /\ CanLock(s)
    /\ progress' = [progress EXCEPT ![s] = 100]
    /\ result' = [result EXCEPT ![s] = IF ok[s] THEN Succes ELSE Error]
    /\ Goto(s, "ack")
    /\ UNCHANGED <<sem, changed, reloadShm, hup, reloadDyn, ok, history,
                   backend, events, client>>

ClearResult(s) ==
    /\ result' = [result EXCEPT ![s] = Ready]
    /\ progress' = [progress EXCEPT ![s] = 0]

(* Every second the daemon looks for the acknowledgement ... *)
GotAck(s) ==
    /\ spc[s] = "ack"
    /\ CanLock(s)
    /\ result[s] = Ack
    /\ ClearResult(s)
    /\ Goto(s, "reset")
    /\ UNCHANGED <<sem, changed, reloadShm, hup, reloadDyn, ok, history,
                   backend, events, client>>

(* ... and after 30 of them it stops waiting. *)
GiveUp(s) ==
    /\ spc[s] = "ack"
    /\ CanLock(s)
    /\ ClearResult(s)
    /\ Goto(s, "reset")
    /\ UNCHANGED <<sem, changed, reloadShm, hup, reloadDyn, ok, history,
                   backend, events, client>>

(* The end of the reload.  A reload for a changed address makes vuurmuur send
   a SIGHUP to vuurmuur_log, and vuurmuur clears its own SIGHUP here. *)
SendsHup(s) == s = Vuurmuur /\ reloadDyn /\ Alive(Log)

HupAfterReset_Both(s) ==
    [hup EXCEPT ![s] = FALSE, ![Log] = SendsHup(s) \/ (s # Log /\ @)]

HupAfterReset(s) ==
    IF s = Vuurmuur
    THEN [hup EXCEPT ![Vuurmuur] = FALSE, ![Log] = SendsHup(s) \/ @]
    ELSE hup

Reset(s) ==
    /\ spc[s] = "reset"
    /\ reloadShm' = [reloadShm EXCEPT ![s] = FALSE]
    /\ reloadDyn' = IF s = Vuurmuur THEN FALSE ELSE reloadDyn
    /\ ok' = [ok EXCEPT ![s] = TRUE]
    /\ hup' = HupAfterReset(s)
    /\ hupOwed' = IF SendsHup(s) THEN [hupOwed EXCEPT ![Log] = TRUE] ELSE hupOwed
    /\ Goto(s, "main")
    /\ UNCHANGED <<shm, seen, applied, posted, backend, events, client>>

(* What a daemon keeps in variables of its own goes away with it. *)
ForgetServer(s) ==
    /\ reloadShm' = [reloadShm EXCEPT ![s] = FALSE]
    /\ hup' = [hup EXCEPT ![s] = FALSE]
    /\ ok' = [ok EXCEPT ![s] = TRUE]
    /\ reloadDyn' = IF s = Vuurmuur THEN FALSE ELSE reloadDyn

(* SIGINT or SIGTERM, which the loop looks at between two rounds: the table,
   the semaphore and the pidfile are removed. *)
Stop(s) ==
    /\ s \in Stoppable
    /\ spc[s] = "main"
    /\ sem' = [sem EXCEPT ![s] = "gone"]
    /\ Goto(s, "down")
    /\ ForgetServer(s)
    /\ UNCHANGED <<changed, result, progress, history, backend, events, client>>

(* The daemon dies outside any critical section: everything stays behind. *)
Die(s) ==
    /\ s \in Stoppable
    /\ Alive(s)
    /\ Goto(s, "dead")
    /\ ForgetServer(s)
    /\ UNCHANGED <<shm, history, backend, events, client>>

(* A SIGHUP from the administrator; the handler sets sighup_count to 1. *)
Hup(s) ==
    /\ Alive(s)
    /\ events < MaxEvents
    /\ events' = events + 1
    /\ hup' = [hup EXCEPT ![s] = TRUE]
    /\ hupOwed' = [hupOwed EXCEPT ![s] = TRUE]
    /\ UNCHANGED <<shm, spc, reloadShm, reloadDyn, ok, seen, applied, posted,
                   backend, client>>

-----------------------------------------------------------------------------
(* The clients. *)

Attachable == {s \in Servers : sem[s] # "gone"}

(* vc_apply_changes takes a failed last reload for a missing daemon: its status
   is 1 only if the lock works and last_vuurmuur_result is not 0. *)
MayApply(c) ==
    c \in Scripts \/ (Vuurmuur \in Attachable /\ Vuurmuur \notin bad[c])

(* An edit was saved and is applied.  Both tools (re)connect first, which needs
   the lock of every daemon they find. *)
Apply(c) ==
    /\ cpc[c] = "idle"
    /\ backend < MaxEdits
    /\ \A s \in Attachable : CanLock(s)
    /\ MayApply(c)
    /\ backend' = backend + 1
    /\ want' = [want EXCEPT ![c] = backend + 1]
    /\ att' = [att EXCEPT ![c] = Attachable]
    /\ cpc' = [cpc EXCEPT ![c] = "post"]
    /\ cur' = [cur EXCEPT ![c] = Vuurmuur]
    /\ cres' = [cres EXCEPT ![c] = [s \in Servers |-> NoResultYet]]
    /\ cprog' = [cprog EXCEPT ![c] = [s \in Servers |-> 0]]
    /\ bad' = [bad EXCEPT ![c] = {}]
    /\ UNCHANGED <<shm, local, history, events>>

(* "Vuurmuur daemon not running. Can't notify it of any changes." *)
Refuse(c) ==
    /\ cpc[c] = "idle"
    /\ backend < MaxEdits
    /\ \A s \in Attachable : CanLock(s)
    /\ ~MayApply(c)
    /\ backend' = backend + 1
    /\ cpc' = [cpc EXCEPT ![c] = "refused"]
    /\ UNCHANGED <<shm, local, history, events, cur, att, want, cres, cprog, bad>>

Pending(r) == \E s \in Servers : r[s] \in {NoResultYet, Ack}

(* On to vuurmuur_log, or to the test at the end of the loop body. *)
Advance(c, pc, r) ==
    IF cur[c] = Vuurmuur
    THEN /\ cur' = [cur EXCEPT ![c] = Log]
         /\ cpc' = [cpc EXCEPT ![c] = pc]
    ELSE /\ cur' = [cur EXCEPT ![c] = Vuurmuur]
         /\ cpc' = [cpc EXCEPT ![c] = IF Pending(r) THEN "poll" ELSE "finish"]

(* backend_changed = 1 under the lock.  The result variables start at 0, which
   is VR_RR_NO_RESULT_YET, so a failed LOCK looks like a posted request. *)
PostChange(c) ==
    /\ cpc[c] = "post"
    /\ cur[c] \in att[c]
    /\ CanLock(cur[c]) \/ LockFails(cur[c])
    /\ IF CanLock(cur[c])
       THEN /\ changed' = [changed EXCEPT ![cur[c]] = TRUE]
            /\ posted' = [posted EXCEPT ![cur[c]] = IF @ < want[c] THEN want[c] ELSE @]
       ELSE UNCHANGED <<changed, posted>>
    /\ Advance(c, "post", cres[c])
    /\ UNCHANGED <<sem, result, progress, local, seen, applied, hupOwed, backend,
                   events, att, want, cres, cprog, bad>>

(* No connection: nothing to wait for.  vuurmuur_conf calls that 100%. *)
PostNowhere(c) ==
    /\ cpc[c] = "post"
    /\ cur[c] \notin att[c]
    /\ cres' = [cres EXCEPT ![c][cur[c]] = Ready]
    /\ cprog' = IF c \in Scripts THEN cprog ELSE [cprog EXCEPT ![c][cur[c]] = 100]
    /\ Advance(c, "post", cres'[c])
    /\ UNCHANGED <<shm, local, history, backend, events, att, want, bad>>

(* script_apply ends the body for vuurmuur_log with an else that belongs to the
   test for 100%: anything less is taken for a failure, at the first look. *)
ScriptDropsLog(c, p) == c \in Scripts /\ cur[c] = Log /\ p # 100

(* One look at the table; with 100% the acknowledgement follows. *)
PollRead(c) ==
    LET s == cur[c]
        p == progress[s]
        r == IF ScriptDropsLog(c, p) THEN Ready
             ELSE IF result[s] # Ready THEN result[s] ELSE cres[c][s]
    IN  /\ cpc[c] = "poll"
        /\ s \in att[c]
        /\ cprog[c][s] < 100
        /\ CanLock(s)
        /\ cprog' = [cprog EXCEPT ![c][s] = p]
        /\ cres' = [cres EXCEPT ![c][s] = r]
        /\ bad' = [bad EXCEPT ![c] = IF ScriptDropsLog(c, p) THEN @ \cup {s} ELSE @]
        /\ IF p = 100 THEN UNCHANGED <<cpc, cur>> ELSE Advance(c, "poll", cres'[c])
        /\ UNCHANGED <<shm, local, history, backend, events, att, want>>

(* The daemon removed its semaphore: LOCK fails and the body does nothing. *)
PollLockFails_Again(c) ==
    LET s == cur[c]
    IN  /\ cpc[c] = "poll"
        /\ s \in att[c]
        /\ LockFails(s)
        /\ UNCHANGED <<shm, local, history, backend, events, client>>

PollLockFails(c) ==
    LET s == cur[c]
    IN  /\ cpc[c] = "poll"
        /\ s \in att[c]
        /\ LockFails(s)
        /\ IF ScriptDropsLog(c, cprog[c][s])
           THEN /\ cres' = [cres EXCEPT ![c][s] = Ready]
                /\ bad' = [bad EXCEPT ![c] = @ \cup {s}]
           ELSE UNCHANGED <<cres, bad>>
        /\ Advance(c, "poll", cres'[c])
        /\ UNCHANGED <<shm, local, history, backend, events, att, want, cprog>>

(* 100% was read: acknowledge.  As long as the other daemon is not ready this
   is repeated in every round, whatever the table holds by then. *)
PollAck(c) ==
    LET s == cur[c]
        failed == cres[c][s] # Succes
    IN  /\ cpc[c] = "poll"
        /\ s \in att[c]
        /\ cprog[c][s] = 100
        /\ CanLock(s)
        /\ result' = [result EXCEPT ![s] = Ack]
        /\ bad' = [bad EXCEPT ![c] = IF failed THEN @ \cup {s} ELSE @]
        /\ cres' = IF failed /\ c \in Scripts
                   THEN [cres EXCEPT ![c][s] = Ready] ELSE cres
        /\ Advance(c, "poll", cres'[c])
        /\ UNCHANGED <<sem, changed, progress, local, history, backend, events,
                       att, want, cprog>>

(* Not attached: script_apply only counts a missing vuurmuur as a failure here,
   mm_reload_shm either daemon. *)
PollNowhere(c) ==
    /\ cpc[c] = "poll"
    /\ cur[c] \notin att[c]
    /\ bad' = [bad EXCEPT ![c] = IF c \in Scripts /\ cur[c] = Log
                                 THEN @ ELSE @ \cup {cur[c]}]
    /\ Advance(c, "poll", cres[c])
    /\ UNCHANGED <<shm, local, history, backend, events, att, want, cres, cprog>>

(* The 60 seconds are over; tested at the top of the loop. *)
TimeOut(c) ==
    /\ c \notin Patient
    /\ cpc[c] = "poll"
    /\ cur[c] = Vuurmuur
    /\ cpc' = [cpc EXCEPT ![c] = "finish"]
    /\ UNCHANGED <<shm, local, history, backend, events, cur, att, want, cres,
                   cprog, bad>>

(* After the loop: whoever is not at 100% timed out. *)
Finish(c) ==
    /\ cpc[c] = "finish"
    /\ bad' = [bad EXCEPT ![c] = @ \cup {s \in Servers : cprog[c][s] < 100}]
    /\ cpc' = [cpc EXCEPT ![c] = "done"]
    /\ UNCHANGED <<shm, local, history, backend, events, cur, att, want, cres, cprog>>

(* The outcome was shown; of the variables only last_vuurmuur_result and
   last_vuurmuur_log_result of vuurmuur_conf survive. *)
ForgetClient(c) ==
    /\ cur' = [cur EXCEPT ![c] = Vuurmuur]
    /\ att' = [att EXCEPT ![c] = {}]
    /\ want' = [want EXCEPT ![c] = 0]
    /\ cres' = [cres EXCEPT ![c] = [s \in Servers |-> NoResultYet]]
    /\ cprog' = [cprog EXCEPT ![c] = [s \in Servers |-> 0]]

Return(c) ==
    /\ cpc[c] \in {"done", "refused"}
    /\ cpc' = [cpc EXCEPT ![c] = "idle"]
    /\ ForgetClient(c)
    /\ bad' = [bad EXCEPT ![c] = IF c \in Scripts THEN {} ELSE @]
    /\ UNCHANGED <<shm, local, history, backend, events>>

(* A client is killed between two critical sections, or inside one: then
   nobody ever gives the semaphore back. *)
Killed(c) ==
    /\ c \in Killable
    /\ cpc[c] \in {"post", "poll"}
    /\ cpc' = [cpc EXCEPT ![c] = "killed"]
    /\ \/ UNCHANGED sem
       \/ cur[c] \in att[c] /\ CanLock(cur[c]) /\ sem' = [sem EXCEPT ![cur[c]] = "held"]
    /\ ForgetClient(c)
    /\ bad' = [bad EXCEPT ![c] = {}]
    /\ UNCHANGED <<changed, result, progress, local, history, backend, events>>

-----------------------------------------------------------------------------
Server(s) ==
    \/ Main(s) \/ Begin(s) \/ Load(s) \/ PostResult(s)
    \/ GotAck(s) \/ GiveUp(s) \/ Reset(s)

Client(c) ==
    \/ PostChange(c) \/ PostNowhere(c) \/ PollRead(c) \/ PollLockFails(c)
    \/ PollAck(c) \/ PollNowhere(c) \/ Finish(c) \/ Return(c)

Next ==
    \/ \E s \in Servers : Server(s) \/ Stop(s) \/ Die(s) \/ Hup(s)
    \/ \E c \in Clients : Client(c) \/ Apply(c) \/ Refuse(c) \/ TimeOut(c) \/ Killed(c)

Spec == Init /\ [][Next]_vars

(* The processes are scheduled.  A client that keeps polling passes the test of
   its 60 seconds again and again, and waittime only grows: strong fairness.
   Nobody is obliged to apply, to signal, to stop or to die. *)
Fairness ==
    /\ \A s \in Servers : WF_vars(Server(s))
    /\ \A c \in Clients : WF_vars(Client(c)) /\ SF_vars(TimeOut(c))

FairSpec == Spec /\ Fairness

-----------------------------------------------------------------------------
(* What the protocol promises. *)

(* A posted change is never forgotten: until a reload has started after it, the
   flag is up or the daemon is about to start one.  The main loop takes the
   flag under the lock, before it reloads, so a request that arrives during a
   reload stays for the next round. *)
NoLostRequest ==
    \A s \in Servers :
        Alive(s) => \/ posted[s] <= seen[s]
                    \/ changed[s]
                    \/ reloadShm[s] /\ spc[s] = "begin"

(* A tool finds a result only together with 100%, and 100% only while the
   daemon waits for the acknowledgement (or died waiting): both are set in one
   critical section and both are cleared in one. *)
ResultOnlyWhileWaiting ==
    \A s \in Servers :
        /\ result[s] \in {Succes, Error} => progress[s] = 100
        /\ progress[s] = 100 => spc[s] \in {"ack", "dead"}

(* The same, of what a tool keeps from its last look: an outcome is never taken
   from a reload that is still under way. *)
OutcomeIsComplete ==
    \A c \in Clients, s \in Servers :
        cres[c][s] \in {Succes, Error} => cprog[c][s] = 100

(* A SIGHUP is answered by a reload that starts after it.  vuurmuur_log resets
   sighup_count before it reads anything; vuurmuur does so when it has finished,
   and forgets what arrived meanwhile. *)
NoLostHup(s) == Alive(s) /\ hupOwed[s] => hup[s]

LogHearsHup == NoLostHup(Log)

(* Who is told that a daemon succeeded has his edit in force: the daemon
   started a reload after the edit, and that reload succeeded. *)
SuccessMeansLoaded ==
    \A c \in Clients, s \in Servers :
        cpc[c] = "done" /\ cres[c][s] = Succes => applied[s] >= want[c]

(* Nobody is ahead of the backend: requests ask for edits that were made, a
   reload covers edits that were made, and a success is a reload that began. *)
VersionsInOrder ==
    /\ \A s \in Servers : posted[s] <= backend /\ applied[s] <= seen[s] /\ seen[s] <= backend
    /\ \A c \in Clients : want[c] <= backend

(* The inductive invariant of the proofs. *)
IInv ==
    /\ TypeOK
    /\ VersionsInOrder
    /\ NoLostRequest
    /\ ResultOnlyWhileWaiting
    /\ OutcomeIsComplete
    /\ LogHearsHup

(* Applying changes comes to an end, also when a daemon stops, so that the lock
   of the polling loop fails, or dies and never answers. *)
ApplyReturns == \A c \in Clients : cpc[c] = "post" ~> cpc[c] \in {"idle", "killed"}

(* Each daemon implements the service: handshake, time-outs and signals are
   stuttering steps of it, and Begin is its Serve. *)
VuurmuurService == INSTANCE ReloadService
    WITH asked <- posted[Vuurmuur], covered <- seen[Vuurmuur], up <- Alive(Vuurmuur)

LogService == INSTANCE ReloadService
    WITH asked <- posted[Log], covered <- seen[Log], up <- Alive(Log)

VuurmuurServes == VuurmuurService!Spec
LogServes      == LogService!Spec
=============================================================================
