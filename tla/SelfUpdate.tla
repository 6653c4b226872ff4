----------------------------- MODULE SelfUpdate -----------------------------
(***************************************************************************)
(* The self-update of a git install (src/src/beaconmcp/updates.py).        *)
(*                                                                         *)
(* Four actors share the checkout, its dependencies, the service and the   *)
(* status file: upstream, which publishes; threads of the server (the      *)
(* dashboard button and the MCP tool), which run apply_update one          *)
(* subprocess after another; the watchdog that apply_update leaves behind, *)
(* a shell script in a systemd unit of its own, which restarts the         *)
(* service, polls /health and undoes the update when nobody answers; and   *)
(* systemd, which runs whatever is on disk whenever the service starts.    *)
(*                                                                         *)
(* Revisions are numbered in their order upstream.  A commit or a          *)
(* subprocess is atomic, except pip, which can stop half-way.  Any git or  *)
(* pip command may fail.  The server also checks for updates and caches    *)
(* what it found.  Left out: installs that are no clean git checkout       *)
(* (refused before anything happens).                                      *)
(***************************************************************************)
EXTENDS Integers, FiniteSets

CONSTANTS
  Updater,         \* threads that call apply_update
  Nobody,          \* no thread
  MaxRev,          \* bound on the revisions upstream
  Signed,          \* revisions signed by a trusted key
  Starts,          \* revisions that pass check-startup on this host
  Healthy,         \* revisions that answer /health once they run
  require_signed,  \* features.updates.require_signed
  MaxDog,          \* bound on the restarts that apply_update schedules
  MaxEvent         \* bound on the restarts by hand or after a crash and the checks, together

Rev == 0..MaxRev

ASSUME RevAssumption ==
  /\ MaxRev \in Nat /\ MaxDog \in Nat /\ MaxEvent \in Nat
  /\ Signed \subseteq Rev /\ Starts \subseteq Rev /\ Healthy \subseteq Starts
  /\ 0 \in Healthy
  /\ require_signed \in BOOLEAN
  /\ Nobody \notin Updater

VARIABLES
  remote,       \* what the channel's target is upstream
  head,         \* HEAD of the checkout
  deps,         \* the revision whose dependencies are installed, or Mixed
  service,      \* the revision and dependencies of the running process
  status,       \* outcome in STATUS_FILE
  dogs,         \* the watchdogs
  plain,        \* restarts scheduled without a watchdog
  apply_lock,   \* _apply_lock, in the memory of the server
  upd,          \* where each thread is in _apply_update_locked
  cached,       \* _cached: what the last check found
  check,        \* the check that holds _check_lock
  checks,       \* how many checks began
  crashes,
  interrupted,  \* history: a restart cut an update short after its merge
  unnoted,      \* history: a restart came between a watchdog's start and its status
  reported      \* history: a rollback told the operator that it failed

diskVars    == <<head, deps, status>>
checkVars   == <<cached, check, checks>>
historyVars == <<interrupted, unnoted, reported>>
vars == <<remote, diskVars, service, dogs, plain, apply_lock, upd, checkVars, crashes, historyVars>>

Mixed   == -1
Dog     == 1..MaxDog
Process == [rev : Rev, deps : Rev \cup {Mixed}]
Thread  == [pc : {"idle", "read_head", "fetch", "verify", "merge", "pip", "check", "schedule",
                  "status", "rollback", "rollback_pip", "invalidate"},
            from : Rev, to : Rev]
Verdict == {"healthy", "superseded", "rolled_back", "rollback_unhealthy", "rollback_failed"}
Outcome == {"none", "pending", "unwatched"} \cup Verdict
Script  == [pc : {"unused", "sleep", "wait", "compare", "reset", "pip", "restart", "rewait", "done"},
            from : Rev, to : Rev, verdict : {"none"} \cup Verdict]

\* overlapped is history: an update moved HEAD after the check had looked at it.
Found   == [to : Rev, available : BOOLEAN, overlapped : BOOLEAN]
Check   == [pc : {"idle", "compare", "store"}, to : Rev, available : BOOLEAN,
            overlapped : BOOLEAN]

Nothing   == [to |-> 0, available |-> FALSE, overlapped |-> FALSE]
IdleCheck == [pc |-> "idle", to |-> 0, available |-> FALSE, overlapped |-> FALSE]
IdleThread == [pc |-> "idle", from |-> 0, to |-> 0]
NoScript   == [pc |-> "unused", from |-> 0, to |-> 0, verdict |-> "none"]

SelfTypeOK ==
  /\ remote \in Rev /\ head \in Rev /\ deps \in Rev \cup {Mixed}
  /\ service \in Process
  /\ status \in Outcome
  /\ dogs \in [Dog -> Script]
  /\ plain \in 0..MaxDog
  /\ apply_lock \in Updater \cup {Nobody}
  /\ upd \in [Updater -> Thread]
  /\ cached \in Found /\ check \in Check /\ checks \in 0..MaxEvent
  /\ crashes \in 0..MaxEvent
  /\ interrupted \in BOOLEAN /\ unnoted \in BOOLEAN /\ reported \in BOOLEAN

Init ==
  /\ remote = 0 /\ head = 0 /\ deps = 0
  /\ service = [rev |-> 0, deps |-> 0]
  /\ status = "none"
  /\ dogs = [d \in Dog |-> NoScript]
  /\ plain = 0
  /\ apply_lock = Nobody
  /\ upd = [u \in Updater |-> IdleThread]
  /\ cached = Nothing /\ check = IdleCheck /\ checks = 0
  /\ crashes = 0
  /\ interrupted = FALSE /\ unnoted = FALSE /\ reported = FALSE

\* A process comes up only with the dependencies of its own revision.
Up(p)    == p.rev \in Starts /\ p.deps = p.rev
Serving  == Up(service) /\ service.rev \in Healthy

\* A newer tip of the branch, or a newer release tag.
publish(r) ==
  /\ r > remote
  /\ remote' = r
  /\ UNCHANGED <<checkVars, diskVars, service, dogs, plain, apply_lock, upd, crashes, historyVars>>

-----------------------------------------------------------------------------
(* The service.                                                            *)

At(pcs)    == \E u \in Updater : upd[u].pc \in pcs
Scheduled  == Cardinality({d \in Dog : dogs[d].pc # "unused"}) + plain

\* systemctl restart kills every process of the service, an update's pip and
\* a sleeping unwatched restart included, and starts what is on disk.
RestartService ==
  /\ deps' \in IF At({"pip", "rollback_pip"}) THEN {deps, Mixed} ELSE {deps}
  /\ service' = [rev |-> head, deps |-> deps']
  /\ apply_lock' = Nobody
  /\ upd' = [u \in Updater |-> IdleThread]
  /\ plain' = 0
  /\ cached' = Nothing /\ check' = IdleCheck /\ UNCHANGED checks
  /\ interrupted' = (interrupted \/ At({"pip", "check", "rollback", "rollback_pip"}))
  /\ unnoted' = (unnoted \/ At({"status"}))
  /\ UNCHANGED <<remote, head, reported>>

\* By hand, or after a crash that has nothing to do with the update.
crash ==
  /\ crashes + checks < MaxEvent
  /\ crashes' = crashes + 1
  /\ RestartService
  /\ UNCHANGED <<status, dogs>>

\* The unit restarts a process that does not come up.
respawn ==
  /\ ~Up(service)
  /\ service' = [rev |-> head, deps |-> deps]
  /\ UNCHANGED <<checkVars, remote, diskVars, dogs, plain, apply_lock, upd, crashes, historyVars>>

plain_restart ==
  /\ plain > 0
  /\ RestartService
  /\ UNCHANGED <<status, dogs, crashes>>

-----------------------------------------------------------------------------
(* apply_update, in a thread of the server.                                *)

(* Definitions whose names end in Bug are not part of the specification:   *)
(* each is a defect the property named in PROJECT.json must detect.        *)

\* _watchdog_in_flight.  The window it grants a pending watchdog is taken to
\* be long enough for the script, so it ends with it.
InFlightBug == FALSE
InFlight    == status = "pending" /\ \E d \in Dog : dogs[d].pc \notin {"unused", "done"}

Goto(u, pc) == upd' = [upd EXCEPT ![u].pc = pc]
Return(u)   == apply_lock' = Nobody /\ upd' = [upd EXCEPT ![u] = [IdleThread EXCEPT !.pc = "invalidate"]]

\* A second updater is told that one is running, and a pending watchdog
\* refuses them all; neither changes anything.
preflight(u) ==
  /\ Serving
  /\ upd[u].pc = "idle"
  /\ apply_lock = Nobody
  /\ ~InFlight
  /\ apply_lock' = u
  /\ Goto(u, "read_head")
  /\ UNCHANGED <<checkVars, remote, diskVars, service, dogs, plain, crashes, historyVars>>

read_head(u) ==
  /\ upd[u].pc = "read_head"
  /\ upd' = [upd EXCEPT ![u].pc = "fetch", ![u].from = head]
  /\ UNCHANGED <<checkVars, remote, diskVars, service, dogs, plain, apply_lock, crashes, historyVars>>

\* _resolve_target
fetch(u) ==
  /\ upd[u].pc = "fetch"
  /\ upd' = [upd EXCEPT ![u].pc = "verify", ![u].to = remote]
  /\ UNCHANGED <<checkVars, remote, diskVars, service, dogs, plain, apply_lock, crashes, historyVars>>

\* The ways out before anything changed: nothing to fetch or to compare with,
\* nothing newer, no signature.
give_up(u) ==
  /\ upd[u].pc \in {"read_head", "fetch", "verify", "merge"}
  /\ Return(u)
  /\ UNCHANGED <<checkVars, remote, diskVars, service, dogs, plain, crashes, historyVars>>

Trusted(r) == require_signed => r \in Signed

verify(u) ==
  /\ upd[u].pc = "verify"
  /\ upd[u].to > head
  /\ Trusted(upd[u].to)
  /\ Goto(u, "merge")
  /\ UNCHANGED <<checkVars, remote, diskVars, service, dogs, plain, apply_lock, crashes, historyVars>>

\* git merge --ff-only of the very commit that was verified.
MergedBug(t) == remote
Merged(t)    == t.to

merge(u) ==
  /\ upd[u].pc = "merge"
  /\ Merged(upd[u]) > head
  /\ head' = Merged(upd[u])
  /\ upd' = [upd EXCEPT ![u].pc = "pip", ![u].to = head']
  /\ check' = [check EXCEPT !.overlapped = @ \/ check.pc = "store"]
  /\ UNCHANGED <<cached, checks, remote, deps, status, service, dogs, plain, apply_lock, crashes, historyVars>>

pip_install(u) ==
  /\ upd[u].pc = "pip"
  /\ \/ deps' = head /\ Goto(u, "check")
     \/ deps' \in {deps, Mixed} /\ Goto(u, "rollback")
  /\ UNCHANGED <<checkVars, remote, head, status, service, dogs, plain, apply_lock, crashes, historyVars>>

check_startup(u) ==
  /\ upd[u].pc = "check"
  /\ Goto(u, IF Up([rev |-> head, deps |-> deps]) THEN "schedule" ELSE "rollback")
  /\ UNCHANGED <<checkVars, remote, diskVars, service, dogs, plain, apply_lock, crashes, historyVars>>

rollback(u) ==
  /\ upd[u].pc = "rollback"
  /\ \/ head' = upd[u].from /\ Goto(u, "rollback_pip") /\ UNCHANGED <<apply_lock, reported>>
     \/ reported' = TRUE /\ Return(u) /\ UNCHANGED head
  /\ UNCHANGED <<checkVars, remote, deps, status, service, dogs, plain, crashes, interrupted, unnoted>>

RestoredBug(d) == {d}
Restored(d)    == {head}

rollback_pip(u) ==
  /\ upd[u].pc = "rollback_pip"
  /\ \/ deps' \in Restored(deps) /\ UNCHANGED reported
     \/ deps' \in {deps, Mixed} /\ reported' = TRUE
  /\ Return(u)
  /\ UNCHANGED <<checkVars, remote, head, status, service, dogs, plain, crashes, interrupted, unnoted>>

\* _schedule_restart: watched if systemd-run starts the script.
schedule_watched(u) ==
  /\ upd[u].pc = "schedule"
  /\ Scheduled < MaxDog
  /\ \E d \in Dog :
       /\ dogs[d].pc = "unused"
       /\ \A e \in Dog : e < d => dogs[e].pc # "unused"
       /\ dogs' = [dogs EXCEPT ![d] = [pc |-> "sleep", from |-> upd[u].from, to |-> upd[u].to,
                                       verdict |-> "none"]]
  /\ Goto(u, "status")
  /\ UNCHANGED <<checkVars, remote, diskVars, service, plain, apply_lock, crashes, historyVars>>

note_pending(u) ==
  /\ upd[u].pc = "status"
  /\ status' = "pending"
  /\ Return(u)
  /\ UNCHANGED <<checkVars, remote, head, deps, service, dogs, plain, crashes, historyVars>>

schedule_unwatched(u) ==
  /\ upd[u].pc = "schedule"
  /\ Scheduled < MaxDog
  /\ plain' = plain + 1
  /\ status' = "unwatched"
  /\ Return(u)
  /\ UNCHANGED <<checkVars, remote, head, deps, service, dogs, crashes, historyVars>>

\* restart=False, or a server that systemd did not start.
no_restart(u) ==
  /\ upd[u].pc = "schedule"
  /\ Return(u)
  /\ UNCHANGED <<checkVars, remote, diskVars, service, dogs, plain, crashes, historyVars>>

-----------------------------------------------------------------------------
(* check_for_update, in a thread of the server, and its cache.             *)

\* Whoever called apply_update drops the cache after it returned.
DroppedBug == cached
Dropped    == Nothing

invalidate_cache(u) ==
  /\ upd[u].pc = "invalidate"
  /\ cached' = Dropped
  /\ upd' = [upd EXCEPT ![u] = IdleThread]
  /\ UNCHANGED <<check, checks, remote, diskVars, service, dogs, plain, apply_lock, crashes, historyVars>>

UnchangedByCheck ==
  UNCHANGED <<remote, diskVars, service, dogs, plain, apply_lock, upd, crashes, historyVars>>

\* Nothing fresh is cached, or the caller forces; _check_lock lets one through.
\* What comes before the fetch is for display.
check_for_update ==
  /\ Serving
  /\ check.pc = "idle"
  /\ crashes + checks < MaxEvent /\ checks' = checks + 1
  /\ check' = [IdleCheck EXCEPT !.pc = "compare", !.to = remote]
  /\ UNCHANGED cached /\ UnchangedByCheck

\* _check_uncached, once the target is known
check_compare ==
  /\ check.pc = "compare"
  /\ check' = IF check.to > head THEN [check EXCEPT !.pc = "store", !.available = TRUE]
                                 ELSE [IdleCheck EXCEPT !.pc = "store"]
  /\ UNCHANGED <<cached, checks>> /\ UnchangedByCheck

\* An error, and a result that offers nothing, are cached too; to the caller
\* they are as good as no result.
check_store ==
  /\ check.pc = "store"
  /\ cached' = IF check.available
                 THEN [to |-> check.to, available |-> TRUE, overlapped |-> check.overlapped]
                 ELSE Nothing
  /\ check' = IdleCheck
  /\ UNCHANGED checks /\ UnchangedByCheck

\* The remote cannot be reached, or git cannot compare.
check_fails ==
  /\ check.pc = "compare"
  /\ check' = [IdleCheck EXCEPT !.pc = "store"]
  /\ UNCHANGED <<cached, checks>> /\ UnchangedByCheck

\* _fresh: a result of six hours ago is as good as none.
cache_expires ==
  /\ cached # Nothing
  /\ cached' = Nothing
  /\ UNCHANGED <<check, checks>> /\ UnchangedByCheck

-----------------------------------------------------------------------------
(* _WATCHDOG_SCRIPT.                                                       *)

DogGoto(d, pc) == dogs' = [dogs EXCEPT ![d].pc = pc]
write_status(d, v) ==
  /\ status' = v
  /\ dogs' = [dogs EXCEPT ![d].pc = "done", ![d].verdict = v]

\* The script sleeps first, long enough for apply_update to note it.
dog_restart(d) ==
  /\ dogs[d].pc = "sleep"
  /\ ~At({"status"})
  /\ RestartService
  /\ DogGoto(d, "wait")
  /\ UNCHANGED <<status, crashes>>

\* wait_healthy: a process that is slow to answer counts as dead.
AnswersBug(ok) == TRUE
Answers(ok)    == ok => Serving

dog_wait(d) ==
  /\ dogs[d].pc = "wait"
  /\ \/ Answers(TRUE) /\ write_status(d, "healthy")
     \/ Answers(FALSE) /\ DogGoto(d, "compare") /\ UNCHANGED status
  /\ UNCHANGED <<checkVars, remote, head, deps, service, plain, apply_lock, upd, crashes, historyVars>>

dog_compare(d) ==
  /\ dogs[d].pc = "compare"
  /\ IF head # dogs[d].to
       THEN write_status(d, "superseded")
       ELSE DogGoto(d, "reset") /\ UNCHANGED status
  /\ UNCHANGED <<checkVars, remote, head, deps, service, plain, apply_lock, upd, crashes, historyVars>>

dog_reset(d) ==
  /\ dogs[d].pc = "reset"
  /\ \/ /\ head' = dogs[d].from
        /\ DogGoto(d, "pip")
        /\ UNCHANGED <<status, reported>>
     \/ /\ write_status(d, "rollback_failed")
        /\ reported' = TRUE
        /\ UNCHANGED head
  /\ UNCHANGED <<checkVars, remote, deps, service, plain, apply_lock, upd, crashes, interrupted, unnoted>>

dog_pip(d) ==
  /\ dogs[d].pc = "pip"
  /\ \/ deps' = head /\ UNCHANGED reported
     \/ deps' \in {deps, Mixed} /\ reported' = TRUE
  /\ DogGoto(d, "restart")
  /\ UNCHANGED <<checkVars, remote, head, status, service, plain, apply_lock, upd, crashes, interrupted,
                 unnoted>>

dog_restart_again(d) ==
  /\ dogs[d].pc = "restart"
  /\ RestartService
  /\ DogGoto(d, "rewait")
  /\ UNCHANGED <<status, crashes>>

dog_rewait(d) ==
  /\ dogs[d].pc = "rewait"
  /\ \/ Answers(TRUE) /\ write_status(d, "rolled_back")
     \/ Answers(FALSE) /\ write_status(d, "rollback_unhealthy")
  /\ UNCHANGED <<checkVars, remote, head, deps, service, plain, apply_lock, upd, crashes, historyVars>>

-----------------------------------------------------------------------------
DogStep(d) ==
  \/ dog_restart(d) \/ dog_wait(d) \/ dog_compare(d) \/ dog_reset(d) \/ dog_pip(d)
  \/ dog_restart_again(d) \/ dog_rewait(d)

UpdaterStep(u) ==
  \/ preflight(u) \/ read_head(u) \/ fetch(u) \/ give_up(u) \/ verify(u) \/ merge(u)
  \/ pip_install(u) \/ check_startup(u) \/ rollback(u) \/ rollback_pip(u)
  \/ schedule_watched(u) \/ note_pending(u) \/ schedule_unwatched(u) \/ no_restart(u)
  \/ invalidate_cache(u)

CheckStep ==
  \/ check_for_update \/ check_compare \/ check_fails \/ check_store
  \/ cache_expires

Next ==
  \/ \E r \in Rev : publish(r)
  \/ \E u \in Updater : UpdaterStep(u)
  \/ CheckStep
  \/ \E d \in Dog : DogStep(d)
  \/ plain_restart
  \/ respawn
  \/ crash

\* systemd runs the script and the restarts it was asked for, and threads of
\* the server go on.
Fairness ==
  /\ \A d \in Dog : WF_vars(DogStep(d))
  /\ WF_vars(plain_restart) /\ WF_vars(respawn)
  /\ \A u \in Updater : WF_vars(note_pending(u))

Spec == Init /\ [][Next]_vars /\ Fairness

-----------------------------------------------------------------------------
(* Properties.                                                             *)

\* With require_signed nothing unsigned gets onto the disk, although upstream
\* may move between the check of the signature and the merge.
SignedOnly == require_signed => head \in Signed \cup {0}

MidUpdate   == At({"pip", "check", "rollback", "rollback_pip"})
MidRollback == \E d \in Dog : dogs[d].pc = "pip"

\* Between updates the checkout is whole: HEAD passed check-startup and has its
\* own dependencies, so whoever starts the service gets something that starts.
\* The exceptions are an update that a restart cut short and a rollback that
\* reported its failure.
CheckoutIsWhole ==
  interrupted \/ reported \/ MidUpdate \/ MidRollback \/ Up([rev |-> head, deps |-> deps])

\* The server and a watchdog never work on the checkout at the same time (the
\* window between starting a watchdog and noting it excepted, when a restart
\* falls into it): a rollback cannot undo a newer update.
OneHandOnCheckout ==
  unnoted \/ \A d \in Dog :
    dogs[d].pc \in {"compare", "reset", "pip", "restart"} => apply_lock = Nobody

\* The cache offers a revision that is installed already only while the update
\* that installed it has yet to drop the cache, or when the check that found it
\* overlapped with that update.  (A restart that hid a watchdog excepted: then
\* two rollbacks can race, and one of them move HEAD forward again.)
OfferIsNews ==
  cached.available /\ cached.to <= head =>
    unnoted \/ cached.overlapped \/ \E u \in Updater : upd[u].pc # "idle"

\* An update that takes the server down undoes itself: once its restart leaves
\* nobody answering, the server comes back, or the watchdog says why not.
ServiceComesBack ==
  \A d \in Dog :
    (dogs[d].pc = "wait" /\ ~Serving) ~>
      (Serving \/ dogs[d].verdict \in {"superseded", "rollback_failed", "rollback_unhealthy"})

\* The startup check is a hard gate: no restart of apply_update or of its
\* watchdog ever starts a revision that has not passed it with its own
\* dependencies, a reported rollback failure excepted.
HardGate == crashes = 0 /\ ~reported => Up(service)
=============================================================================
