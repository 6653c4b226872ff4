-------------------------- MODULE SelfUpdateProofs --------------------------
(***************************************************************************)
(* The self-update, for every history upstream, every number of threads,   *)
(* watchdogs, crashes and checks: nothing unsigned reaches the disk, the   *)
(* checkout is whole between updates, the server and a watchdog never work *)
(* on it together, and the cached offer is news.                           *)
(*                                                                         *)
(* None of these is inductive.  What is behind them:                       *)
(*   LockGood    a thread inside _apply_update_locked holds _apply_lock;   *)
(*   SignedGood  what a thread is about to merge was verified, and what a  *)
(*               rollback would go back to was on the disk before;         *)
(*   WholeGood   HEAD fails the startup check, or lacks its dependencies,  *)
(*               only while somebody is on the way to mend it, and every   *)
(*               revision to go back to has passed the check;              *)
(*   HandGood    one watchdog at a time, and STATUS_FILE says so unless    *)
(*               the thread that started it is just about to note it;      *)
(*   NewsGood    HEAD overtakes the revision a check found only by an      *)
(*               update, which then has yet to drop the cache or overlaps  *)
(*               with the check.                                           *)
(* On top of them, PlainGood tells which restarts start something whole.   *)
(***************************************************************************)
EXTENDS SelfUpdate, TLAPS, FiniteSetTheorems

ThreadTypes ==
  /\ apply_lock \in Updater \cup {Nobody}
  /\ upd \in [Updater -> Thread]

DogTypes ==
  /\ status \in Outcome
  /\ dogs \in [Dog -> Script]

DiskTypes ==
  /\ remote \in Rev /\ head \in Rev /\ deps \in Rev \cup {Mixed}
  /\ service \in Process
  /\ plain \in 0..MaxDog
  /\ interrupted \in BOOLEAN /\ unnoted \in BOOLEAN /\ reported \in BOOLEAN

CheckTypes ==
  /\ cached \in Found /\ check \in Check /\ checks \in 0..MaxEvent
  /\ crashes \in 0..MaxEvent

LockGood ==
  \A u \in Updater : upd[u].pc \notin {"idle", "invalidate"} => apply_lock = u

SignedGood ==
  require_signed =>
    /\ head \in Signed \cup {0}
    /\ \A u \in Updater : /\ upd[u].from \in Signed \cup {0}
                          /\ upd[u].pc = "merge" => upd[u].to \in Signed
    /\ \A d \in Dog : dogs[d].from \in Signed \cup {0}

WholeGood ==
  \/ interrupted \/ reported
  \/ /\ head \in Starts \/ At({"pip", "check", "rollback"})
     /\ deps = head \/ At({"pip", "rollback", "rollback_pip"}) \/ MidRollback
     /\ \A u \in Updater : upd[u].from \in Starts
     /\ \A d \in Dog : dogs[d].from \in Starts

Active(d) == dogs[d].pc \notin {"unused", "done"}

HandGood ==
  \/ unnoted
  \/ /\ \A d, e \in Dog : Active(d) /\ Active(e) => d = e
     /\ \A d \in Dog : Active(d) =>
          \/ status = "pending" /\ apply_lock = Nobody
          \/ dogs[d].pc = "sleep" /\ At({"status"})
     /\ \A u \in Updater :
          upd[u].pc \notin {"idle", "invalidate", "read_head"} => upd[u].from <= head
     /\ \A d \in Dog :
          dogs[d].pc \in {"sleep", "wait", "compare", "reset"} => dogs[d].from <= head

NewsGood ==
  /\ OfferIsNews
  /\ unnoted \/ (check.pc = "store" /\ check.available /\ check.to <= head => check.overlapped)

Inv ==
  /\ ThreadTypes /\ DogTypes /\ DiskTypes /\ CheckTypes
  /\ LockGood /\ SignedGood /\ WholeGood /\ HandGood /\ NewsGood

-----------------------------------------------------------------------------
\* Two steps of the watchdog end in a choice that depends on whether the service
\* answers; here is what either choice does to the script.

\* Script d goes to p and keeps its revisions; the others are left alone.
Moves(d, p) ==
  /\ dogs'[d].pc = p
  /\ dogs'[d].from = dogs[d].from /\ dogs'[d].to = dogs[d].to
  /\ \A e \in Dog : e # d => dogs'[e] = dogs[e]

LEMMA GotoMoves ==
  ASSUME dogs \in [Dog -> Script], NEW d \in Dog, NEW p, DogGoto(d, p)
  PROVE  Moves(d, p)
BY DEF DogGoto, Moves, Script

LEMMA StatusMoves ==
  ASSUME dogs \in [Dog -> Script], NEW d \in Dog, NEW v \in Verdict, write_status(d, v)
  PROVE  /\ status' = v /\ Moves(d, "done")
         /\ dogs' \in [Dog -> Script] /\ status' \in Outcome
<1>1. status' = v /\ dogs' = [dogs EXCEPT ![d] = [@ EXCEPT !.pc = "done", !.verdict = v]]
  BY DEF write_status
<1>2. Moves(d, "done")
  BY <1>1 DEF Moves, Script
<1>3. dogs' \in [Dog -> Script] /\ status' \in Outcome
  BY <1>1 DEF Script, Outcome
<1> QED BY <1>1, <1>2, <1>3

LEMMA DogWaits ==
  ASSUME dogs \in [Dog -> Script], NEW d \in Dog, dog_wait(d)
  PROVE  /\ dogs[d].pc = "wait"
         /\ Moves(d, "done") \/ (Moves(d, "compare") /\ UNCHANGED status)
         /\ DogTypes => DogTypes'
         /\ UNCHANGED <<remote, head, deps, service, plain, apply_lock, upd, cached, check, checks,
                        crashes, interrupted, unnoted, reported>>
<1>1. /\ dogs[d].pc = "wait"
      /\ write_status(d, "healthy") \/ (DogGoto(d, "compare") /\ UNCHANGED status)
      /\ UNCHANGED <<remote, head, deps, service, plain, apply_lock, upd, cached, check, checks,
                     crashes, interrupted, unnoted, reported>>
  BY Zenon DEF dog_wait, checkVars, historyVars
<1>2. "healthy" \in Verdict
  BY DEF Verdict
<1>3. CASE write_status(d, "healthy")
  BY <1>1, <1>2, <1>3, StatusMoves DEF DogTypes
<1>4. CASE DogGoto(d, "compare") /\ UNCHANGED status
  <2>1. dogs' \in [Dog -> Script]
    BY <1>4 DEF DogGoto, Script
  <2> QED BY <1>1, <1>4, <2>1, GotoMoves DEF DogTypes
<1> QED BY <1>1, <1>3, <1>4

LEMMA DogRewaits ==
  ASSUME dogs \in [Dog -> Script], NEW d \in Dog, dog_rewait(d)
  PROVE  /\ dogs[d].pc = "rewait"
         /\ Moves(d, "done")
         /\ DogTypes => DogTypes'
         /\ UNCHANGED <<remote, head, deps, service, plain, apply_lock, upd, cached, check, checks,
                        crashes, interrupted, unnoted, reported>>
<1>1. /\ dogs[d].pc = "rewait"
      /\ write_status(d, "rolled_back") \/ write_status(d, "rollback_unhealthy")
      /\ UNCHANGED <<remote, head, deps, service, plain, apply_lock, upd, cached, check, checks,
                     crashes, interrupted, unnoted, reported>>
  BY Zenon DEF dog_rewait, checkVars, historyVars
<1>2. "rolled_back" \in Verdict /\ "rollback_unhealthy" \in Verdict
  BY DEF Verdict
<1> QED BY <1>1, <1>2, StatusMoves DEF DogTypes

-----------------------------------------------------------------------------
LEMMA ThreadTypesKept ==
  ASSUME ThreadTypes, dogs \in [Dog -> Script], head \in Rev, remote \in Rev, [Next]_vars
  PROVE  ThreadTypes'
<1> USE RevAssumption DEF diskVars, checkVars, historyVars, ThreadTypes, Rev, Thread
<1>1. ASSUME NEW r \in Rev, publish(r) PROVE ThreadTypes'
  BY <1>1 DEF publish
<1>2. ASSUME NEW u \in Updater, preflight(u) PROVE ThreadTypes'
  BY <1>2 DEF preflight, Goto
<1>3. ASSUME NEW u \in Updater, read_head(u) PROVE ThreadTypes'
  BY <1>3 DEF read_head
<1>4. ASSUME NEW u \in Updater, fetch(u) PROVE ThreadTypes'
  BY <1>4 DEF fetch
<1>5. ASSUME NEW u \in Updater, give_up(u) PROVE ThreadTypes'
  BY <1>5 DEF give_up, Return, IdleThread
<1>6. ASSUME NEW u \in Updater, verify(u) PROVE ThreadTypes'
  BY <1>6 DEF verify, Goto
<1>7. ASSUME NEW u \in Updater, merge(u) PROVE ThreadTypes'
  BY <1>7 DEF merge, Merged
<1>8. ASSUME NEW u \in Updater, pip_install(u) PROVE ThreadTypes'
  BY <1>8 DEF pip_install, Goto
<1>9. ASSUME NEW u \in Updater, check_startup(u) PROVE ThreadTypes'
  BY <1>9 DEF check_startup, Goto
<1>10. ASSUME NEW u \in Updater, rollback(u) PROVE ThreadTypes'
  BY <1>10 DEF rollback, Goto, Return, IdleThread
<1>11. ASSUME NEW u \in Updater, rollback_pip(u) PROVE ThreadTypes'
  BY <1>11 DEF rollback_pip, Restored, Return, IdleThread
<1>12. ASSUME NEW u \in Updater, schedule_watched(u) PROVE ThreadTypes'
  BY <1>12 DEF schedule_watched, Goto
<1>13. ASSUME NEW u \in Updater, note_pending(u) PROVE ThreadTypes'
  BY <1>13 DEF note_pending, Return, IdleThread
<1>14. ASSUME NEW u \in Updater, schedule_unwatched(u) PROVE ThreadTypes'
  BY <1>14 DEF schedule_unwatched, Return, IdleThread
<1>15. ASSUME NEW u \in Updater, no_restart(u) PROVE ThreadTypes'
  BY <1>15 DEF no_restart, Return, IdleThread
<1>16. ASSUME NEW u \in Updater, invalidate_cache(u) PROVE ThreadTypes'
  BY <1>16 DEF invalidate_cache, Dropped, IdleThread, Nothing
<1>17. CASE check_for_update
  BY <1>17 DEF check_for_update, UnchangedByCheck, IdleCheck, Nothing
<1>18. CASE check_compare
  BY <1>18 DEF check_compare, UnchangedByCheck, IdleCheck, Nothing
<1>19. CASE check_fails
  BY <1>19 DEF check_fails, UnchangedByCheck, IdleCheck, Nothing
<1>20. CASE check_store
  BY <1>20 DEF check_store, UnchangedByCheck, IdleCheck, Nothing
<1>21. CASE cache_expires
  BY <1>21 DEF cache_expires, UnchangedByCheck, IdleCheck, Nothing
<1>22. ASSUME NEW d \in Dog, dog_restart(d) PROVE ThreadTypes'
  BY <1>22 DEF dog_restart, DogGoto, RestartService, IdleThread, Nothing, IdleCheck, At
<1>23. ASSUME NEW d \in Dog, dog_wait(d) PROVE ThreadTypes'
  BY <1>23, DogWaits DEF Moves
<1>24. ASSUME NEW d \in Dog, dog_compare(d) PROVE ThreadTypes'
  BY <1>24 DEF dog_compare, DogGoto, write_status
<1>25. ASSUME NEW d \in Dog, dog_reset(d) PROVE ThreadTypes'
  BY <1>25 DEF dog_reset, DogGoto, write_status
<1>26. ASSUME NEW d \in Dog, dog_pip(d) PROVE ThreadTypes'
  BY <1>26 DEF dog_pip, DogGoto
<1>27. ASSUME NEW d \in Dog, dog_restart_again(d) PROVE ThreadTypes'
  BY <1>27 DEF dog_restart_again, DogGoto, RestartService, IdleThread, Nothing, IdleCheck,
         At
<1>28. ASSUME NEW d \in Dog, dog_rewait(d) PROVE ThreadTypes'
  BY <1>28, DogRewaits DEF Moves
<1>29. CASE plain_restart
  BY <1>29 DEF plain_restart, RestartService, IdleThread, Nothing, IdleCheck, At
<1>30. CASE respawn
  BY <1>30 DEF respawn
<1>31. CASE crash
  BY <1>31 DEF crash, RestartService, IdleThread, Nothing, IdleCheck, At
<1>32. CASE UNCHANGED vars
  BY <1>32 DEF vars
<1> QED BY <1>1, <1>2, <1>3, <1>4, <1>5, <1>6, <1>7, <1>8, <1>9, <1>10, <1>11, <1>12, <1>13,
         <1>14, <1>15, <1>16, <1>17, <1>18, <1>19, <1>20, <1>21, <1>22, <1>23, <1>24, <1>25,
         <1>26, <1>27, <1>28, <1>29, <1>30, <1>31, <1>32
        DEF Next, UpdaterStep, CheckStep, DogStep

LEMMA DogTypesKept ==
  ASSUME DogTypes, head \in Rev, upd \in [Updater -> Thread], [Next]_vars
  PROVE  DogTypes'
<1> USE RevAssumption DEF diskVars, checkVars, historyVars, DogTypes, Rev, Thread, Script,
         Outcome, Verdict
<1>1. ASSUME NEW r \in Rev, publish(r) PROVE DogTypes'
  BY <1>1 DEF publish
<1>2. ASSUME NEW u \in Updater, preflight(u) PROVE DogTypes'
  BY <1>2 DEF preflight, Goto
<1>3. ASSUME NEW u \in Updater, read_head(u) PROVE DogTypes'
  BY <1>3 DEF read_head
<1>4. ASSUME NEW u \in Updater, fetch(u) PROVE DogTypes'
  BY <1>4 DEF fetch
<1>5. ASSUME NEW u \in Updater, give_up(u) PROVE DogTypes'
  BY <1>5 DEF give_up, Return, IdleThread
<1>6. ASSUME NEW u \in Updater, verify(u) PROVE DogTypes'
  BY <1>6 DEF verify, Goto
<1>7. ASSUME NEW u \in Updater, merge(u) PROVE DogTypes'
  BY <1>7 DEF merge, Merged
<1>8. ASSUME NEW u \in Updater, pip_install(u) PROVE DogTypes'
  BY <1>8 DEF pip_install, Goto
<1>9. ASSUME NEW u \in Updater, check_startup(u) PROVE DogTypes'
  BY <1>9 DEF check_startup, Goto
<1>10. ASSUME NEW u \in Updater, rollback(u) PROVE DogTypes'
  BY <1>10 DEF rollback, Goto, Return, IdleThread
<1>11. ASSUME NEW u \in Updater, rollback_pip(u) PROVE DogTypes'
  BY <1>11 DEF rollback_pip, Restored, Return, IdleThread
<1>12. ASSUME NEW u \in Updater, schedule_watched(u) PROVE DogTypes'
  BY <1>12 DEF schedule_watched, Goto
<1>13. ASSUME NEW u \in Updater, note_pending(u) PROVE DogTypes'
  BY <1>13 DEF note_pending, Return, IdleThread
<1>14. ASSUME NEW u \in Updater, schedule_unwatched(u) PROVE DogTypes'
  BY <1>14 DEF schedule_unwatched, Return, IdleThread
<1>15. ASSUME NEW u \in Updater, no_restart(u) PROVE DogTypes'
  BY <1>15 DEF no_restart, Return, IdleThread
<1>16. ASSUME NEW u \in Updater, invalidate_cache(u) PROVE DogTypes'
  BY <1>16 DEF invalidate_cache, Dropped, IdleThread, Nothing
<1>17. CASE check_for_update
  BY <1>17 DEF check_for_update, UnchangedByCheck, IdleCheck, Nothing
<1>18. CASE check_compare
  BY <1>18 DEF check_compare, UnchangedByCheck, IdleCheck, Nothing
<1>19. CASE check_fails
  BY <1>19 DEF check_fails, UnchangedByCheck, IdleCheck, Nothing
<1>20. CASE check_store
  BY <1>20 DEF check_store, UnchangedByCheck, IdleCheck, Nothing
<1>21. CASE cache_expires
  BY <1>21 DEF cache_expires, UnchangedByCheck, IdleCheck, Nothing
<1>22. ASSUME NEW d \in Dog, dog_restart(d) PROVE DogTypes'
  BY <1>22 DEF dog_restart, DogGoto, RestartService, IdleThread, Nothing, IdleCheck, At
<1>23. ASSUME NEW d \in Dog, dog_wait(d) PROVE DogTypes'
  BY <1>23, DogWaits
<1>24. ASSUME NEW d \in Dog, dog_compare(d) PROVE DogTypes'
  <2>1. CASE write_status(d, "superseded")
    BY <2>1, StatusMoves
  <2>2. CASE DogGoto(d, "reset") /\ UNCHANGED status
    BY <2>2 DEF DogGoto
  <2> QED BY <1>24, <2>1, <2>2 DEF dog_compare
<1>25. ASSUME NEW d \in Dog, dog_reset(d) PROVE DogTypes'
  BY <1>25 DEF dog_reset, DogGoto, write_status
<1>26. ASSUME NEW d \in Dog, dog_pip(d) PROVE DogTypes'
  BY <1>26 DEF dog_pip, DogGoto
<1>27. ASSUME NEW d \in Dog, dog_restart_again(d) PROVE DogTypes'
  BY <1>27 DEF dog_restart_again, DogGoto, RestartService, IdleThread, Nothing, IdleCheck,
         At
<1>28. ASSUME NEW d \in Dog, dog_rewait(d) PROVE DogTypes'
  BY <1>28, DogRewaits
<1>29. CASE plain_restart
  BY <1>29 DEF plain_restart, RestartService, IdleThread, Nothing, IdleCheck, At
<1>30. CASE respawn
  BY <1>30 DEF respawn
<1>31. CASE crash
  BY <1>31 DEF crash, RestartService, IdleThread, Nothing, IdleCheck, At
<1>32. CASE UNCHANGED vars
  BY <1>32 DEF vars
<1> QED BY <1>1, <1>2, <1>3, <1>4, <1>5, <1>6, <1>7, <1>8, <1>9, <1>10, <1>11, <1>12, <1>13,
         <1>14, <1>15, <1>16, <1>17, <1>18, <1>19, <1>20, <1>21, <1>22, <1>23, <1>24, <1>25,
         <1>26, <1>27, <1>28, <1>29, <1>30, <1>31, <1>32
        DEF Next, UpdaterStep, CheckStep, DogStep

LEMMA DiskTypesKept ==
  ASSUME DiskTypes, ThreadTypes, dogs \in [Dog -> Script], [Next]_vars
  PROVE  DiskTypes'
<1> USE RevAssumption DEF diskVars, checkVars, historyVars, DiskTypes, ThreadTypes, Rev,
         Thread, Script, Process
<1>1. ASSUME NEW r \in Rev, publish(r) PROVE DiskTypes'
  BY <1>1 DEF publish
<1>2. ASSUME NEW u \in Updater, preflight(u) PROVE DiskTypes'
  BY <1>2 DEF preflight, Goto
<1>3. ASSUME NEW u \in Updater, read_head(u) PROVE DiskTypes'
  BY <1>3 DEF read_head
<1>4. ASSUME NEW u \in Updater, fetch(u) PROVE DiskTypes'
  BY <1>4 DEF fetch
<1>5. ASSUME NEW u \in Updater, give_up(u) PROVE DiskTypes'
  BY <1>5 DEF give_up, Return, IdleThread
<1>6. ASSUME NEW u \in Updater, verify(u) PROVE DiskTypes'
  BY <1>6 DEF verify, Goto
<1>7. ASSUME NEW u \in Updater, merge(u) PROVE DiskTypes'
  BY <1>7 DEF merge, Merged
<1>8. ASSUME NEW u \in Updater, pip_install(u) PROVE DiskTypes'
  BY <1>8 DEF pip_install, Goto
<1>9. ASSUME NEW u \in Updater, check_startup(u) PROVE DiskTypes'
  BY <1>9 DEF check_startup, Goto
<1>10. ASSUME NEW u \in Updater, rollback(u) PROVE DiskTypes'
  <2>1. upd[u].from \in Rev
    BY DEF Thread
  <2> QED BY <1>10, <2>1 DEF rollback
<1>11. ASSUME NEW u \in Updater, rollback_pip(u) PROVE DiskTypes'
  BY <1>11 DEF rollback_pip, Restored, Return, IdleThread
<1>12. ASSUME NEW u \in Updater, schedule_watched(u) PROVE DiskTypes'
  BY <1>12 DEF schedule_watched, Goto
<1>13. ASSUME NEW u \in Updater, note_pending(u) PROVE DiskTypes'
  BY <1>13 DEF note_pending, Return, IdleThread
<1>14. ASSUME NEW u \in Updater, schedule_unwatched(u) PROVE DiskTypes'
  <2>1. Cardinality({d \in Dog : dogs[d].pc # "unused"}) \in Nat
    <3>1. IsFiniteSet(Dog)
      BY FS_Interval DEF Dog
    <3> QED BY <3>1, FS_Subset, FS_CardinalityType
  <2>2. plain + 1 \in 0..MaxDog
    BY <1>14, <2>1 DEF schedule_unwatched, Scheduled
  <2> QED BY <1>14, <2>2 DEF schedule_unwatched
<1>15. ASSUME NEW u \in Updater, no_restart(u) PROVE DiskTypes'
  BY <1>15 DEF no_restart, Return, IdleThread
<1>16. ASSUME NEW u \in Updater, invalidate_cache(u) PROVE DiskTypes'
  BY <1>16 DEF invalidate_cache, Dropped, IdleThread, Nothing
<1>17. CASE check_for_update
  BY <1>17 DEF check_for_update, UnchangedByCheck, IdleCheck, Nothing
<1>18. CASE check_compare
  BY <1>18 DEF check_compare, UnchangedByCheck, IdleCheck, Nothing
<1>19. CASE check_fails
  BY <1>19 DEF check_fails, UnchangedByCheck, IdleCheck, Nothing
<1>20. CASE check_store
  BY <1>20 DEF check_store, UnchangedByCheck, IdleCheck, Nothing
<1>21. CASE cache_expires
  BY <1>21 DEF cache_expires, UnchangedByCheck, IdleCheck, Nothing
<1>22. ASSUME NEW d \in Dog, dog_restart(d) PROVE DiskTypes'
  BY <1>22 DEF dog_restart, DogGoto, RestartService, IdleThread, Nothing, IdleCheck, At
<1>23. ASSUME NEW d \in Dog, dog_wait(d) PROVE DiskTypes'
  BY <1>23, DogWaits DEF Moves
<1>24. ASSUME NEW d \in Dog, dog_compare(d) PROVE DiskTypes'
  BY <1>24 DEF dog_compare, DogGoto, write_status
<1>25. ASSUME NEW d \in Dog, dog_reset(d) PROVE DiskTypes'
  <2>1. dogs[d].from \in Rev
    BY DEF Script
  <2>2. head' \in {head, dogs[d].from} /\ reported' \in {reported, TRUE}
    BY <1>25 DEF dog_reset
  <2>3. UNCHANGED <<remote, deps, service, plain, interrupted, unnoted>>
    BY <1>25 DEF dog_reset
  <2> QED BY <2>1, <2>2, <2>3
<1>26. ASSUME NEW d \in Dog, dog_pip(d) PROVE DiskTypes'
  <2>1. deps' \in {head, deps, Mixed} /\ reported' \in {reported, TRUE}
    BY <1>26 DEF dog_pip
  <2>2. UNCHANGED <<remote, head, service, plain, interrupted, unnoted>>
    BY <1>26 DEF dog_pip
  <2> QED BY <2>1, <2>2
<1>27. ASSUME NEW d \in Dog, dog_restart_again(d) PROVE DiskTypes'
  BY <1>27 DEF dog_restart_again, DogGoto, RestartService, IdleThread, Nothing, IdleCheck,
         At
<1>28. ASSUME NEW d \in Dog, dog_rewait(d) PROVE DiskTypes'
  BY <1>28, DogRewaits DEF Moves
<1>29. CASE plain_restart
  BY <1>29 DEF plain_restart, RestartService, IdleThread, Nothing, IdleCheck, At
<1>30. CASE respawn
  BY <1>30 DEF respawn
<1>31. CASE crash
  BY <1>31 DEF crash, RestartService, IdleThread, Nothing, IdleCheck, At
<1>32. CASE UNCHANGED vars
  BY <1>32 DEF vars
<1> QED BY <1>1, <1>2, <1>3, <1>4, <1>5, <1>6, <1>7, <1>8, <1>9, <1>10, <1>11, <1>12, <1>13,
         <1>14, <1>15, <1>16, <1>17, <1>18, <1>19, <1>20, <1>21, <1>22, <1>23, <1>24, <1>25,
         <1>26, <1>27, <1>28, <1>29, <1>30, <1>31, <1>32
        DEF Next, UpdaterStep, CheckStep, DogStep

LEMMA CheckTypesKept ==
  ASSUME CheckTypes, ThreadTypes, DogTypes, DiskTypes, [Next]_vars
  PROVE  CheckTypes'
<1> USE RevAssumption DEF diskVars, checkVars, historyVars, CheckTypes, DogTypes, DiskTypes,
         Rev, Found, Check
<1>1. ASSUME NEW r \in Rev, publish(r) PROVE CheckTypes'
  BY <1>1 DEF publish
<1>2. ASSUME NEW u \in Updater, preflight(u) PROVE CheckTypes'
  BY <1>2 DEF preflight, Goto
<1>3. ASSUME NEW u \in Updater, read_head(u) PROVE CheckTypes'
  BY <1>3 DEF read_head
<1>4. ASSUME NEW u \in Updater, fetch(u) PROVE CheckTypes'
  BY <1>4 DEF fetch
<1>5. ASSUME NEW u \in Updater, give_up(u) PROVE CheckTypes'
  BY <1>5 DEF give_up, Return, IdleThread
<1>6. ASSUME NEW u \in Updater, verify(u) PROVE CheckTypes'
  BY <1>6 DEF verify, Goto
<1>7. ASSUME NEW u \in Updater, merge(u) PROVE CheckTypes'
  BY <1>7 DEF merge, Merged
<1>8. ASSUME NEW u \in Updater, pip_install(u) PROVE CheckTypes'
  BY <1>8 DEF pip_install, Goto
<1>9. ASSUME NEW u \in Updater, check_startup(u) PROVE CheckTypes'
  BY <1>9 DEF check_startup, Goto
<1>10. ASSUME NEW u \in Updater, rollback(u) PROVE CheckTypes'
  BY <1>10 DEF rollback, Goto, Return, IdleThread
<1>11. ASSUME NEW u \in Updater, rollback_pip(u) PROVE CheckTypes'
  BY <1>11 DEF rollback_pip, Restored, Return, IdleThread
<1>12. ASSUME NEW u \in Updater, schedule_watched(u) PROVE CheckTypes'
  BY <1>12 DEF schedule_watched, Goto
<1>13. ASSUME NEW u \in Updater, note_pending(u) PROVE CheckTypes'
  BY <1>13 DEF note_pending, Return, IdleThread
<1>14. ASSUME NEW u \in Updater, schedule_unwatched(u) PROVE CheckTypes'
  BY <1>14 DEF schedule_unwatched, Return, IdleThread
<1>15. ASSUME NEW u \in Updater, no_restart(u) PROVE CheckTypes'
  BY <1>15 DEF no_restart, Return, IdleThread
<1>16. ASSUME NEW u \in Updater, invalidate_cache(u) PROVE CheckTypes'
  BY <1>16 DEF invalidate_cache, Dropped, IdleThread, Nothing
<1>17. CASE check_for_update
  <2>1. checks' = checks + 1 /\ checks' \in 0..MaxEvent /\ UNCHANGED <<cached, crashes>>
    BY <1>17 DEF check_for_update, UnchangedByCheck
  <2>2. check' = [pc |-> "compare", to |-> remote, available |-> FALSE, overlapped |-> FALSE]
    BY <1>17 DEF check_for_update, IdleCheck
  <2> QED BY <2>1, <2>2
<1>18. CASE check_compare
  BY <1>18 DEF check_compare, UnchangedByCheck, IdleCheck, Nothing
<1>19. CASE check_fails
  BY <1>19 DEF check_fails, UnchangedByCheck, IdleCheck, Nothing
<1>20. CASE check_store
  BY <1>20 DEF check_store, UnchangedByCheck, IdleCheck, Nothing
<1>21. CASE cache_expires
  BY <1>21 DEF cache_expires, UnchangedByCheck, IdleCheck, Nothing
<1>22. ASSUME NEW d \in Dog, dog_restart(d) PROVE CheckTypes'
  BY <1>22 DEF dog_restart, DogGoto, RestartService, IdleThread, Nothing, IdleCheck, At
<1>23. ASSUME NEW d \in Dog, dog_wait(d) PROVE CheckTypes'
  BY <1>23, DogWaits DEF Moves
<1>24. ASSUME NEW d \in Dog, dog_compare(d) PROVE CheckTypes'
  BY <1>24 DEF dog_compare, DogGoto, write_status
<1>25. ASSUME NEW d \in Dog, dog_reset(d) PROVE CheckTypes'
  BY <1>25 DEF dog_reset, DogGoto, write_status
<1>26. ASSUME NEW d \in Dog, dog_pip(d) PROVE CheckTypes'
  BY <1>26 DEF dog_pip, DogGoto
<1>27. ASSUME NEW d \in Dog, dog_restart_again(d) PROVE CheckTypes'
  BY <1>27 DEF dog_restart_again, DogGoto, RestartService, IdleThread, Nothing, IdleCheck,
         At
<1>28. ASSUME NEW d \in Dog, dog_rewait(d) PROVE CheckTypes'
  BY <1>28, DogRewaits DEF Moves
<1>29. CASE plain_restart
  BY <1>29 DEF plain_restart, RestartService, IdleThread, Nothing, IdleCheck, At
<1>30. CASE respawn
  BY <1>30 DEF respawn
<1>31. CASE crash
  BY <1>31 DEF crash, RestartService, IdleThread, Nothing, IdleCheck, At
<1>32. CASE UNCHANGED vars
  BY <1>32 DEF vars
<1> QED BY <1>1, <1>2, <1>3, <1>4, <1>5, <1>6, <1>7, <1>8, <1>9, <1>10, <1>11, <1>12, <1>13,
         <1>14, <1>15, <1>16, <1>17, <1>18, <1>19, <1>20, <1>21, <1>22, <1>23, <1>24, <1>25,
         <1>26, <1>27, <1>28, <1>29, <1>30, <1>31, <1>32
        DEF Next, UpdaterStep, CheckStep, DogStep

\* Only preflight takes the lock, and nobody goes on without it.
LEMMA LockKept ==
  ASSUME ThreadTypes, DogTypes, DiskTypes, LockGood, [Next]_vars
  PROVE  LockGood'
<1> USE RevAssumption DEF diskVars, checkVars, historyVars, ThreadTypes, DogTypes, DiskTypes,
         LockGood, Thread
<1>1. ASSUME NEW r \in Rev, publish(r) PROVE LockGood'
  BY <1>1 DEF publish
<1>2. ASSUME NEW u \in Updater, preflight(u) PROVE LockGood'
  BY <1>2 DEF preflight, Goto
<1>3. ASSUME NEW u \in Updater, read_head(u) PROVE LockGood'
  BY <1>3 DEF read_head
<1>4. ASSUME NEW u \in Updater, fetch(u) PROVE LockGood'
  BY <1>4 DEF fetch
<1>5. ASSUME NEW u \in Updater, give_up(u) PROVE LockGood'
  BY <1>5 DEF give_up, Return, IdleThread
<1>6. ASSUME NEW u \in Updater, verify(u) PROVE LockGood'
  BY <1>6 DEF verify, Goto
<1>7. ASSUME NEW u \in Updater, merge(u) PROVE LockGood'
  BY <1>7 DEF merge, Merged
<1>8. ASSUME NEW u \in Updater, pip_install(u) PROVE LockGood'
  BY <1>8 DEF pip_install, Goto
<1>9. ASSUME NEW u \in Updater, check_startup(u) PROVE LockGood'
  BY <1>9 DEF check_startup, Goto
<1>10. ASSUME NEW u \in Updater, rollback(u) PROVE LockGood'
  BY <1>10 DEF rollback, Goto, Return, IdleThread
<1>11. ASSUME NEW u \in Updater, rollback_pip(u) PROVE LockGood'
  BY <1>11 DEF rollback_pip, Restored, Return, IdleThread
<1>12. ASSUME NEW u \in Updater, schedule_watched(u) PROVE LockGood'
  BY <1>12 DEF schedule_watched, Goto
<1>13. ASSUME NEW u \in Updater, note_pending(u) PROVE LockGood'
  BY <1>13 DEF note_pending, Return, IdleThread
<1>14. ASSUME NEW u \in Updater, schedule_unwatched(u) PROVE LockGood'
  BY <1>14 DEF schedule_unwatched, Return, IdleThread
<1>15. ASSUME NEW u \in Updater, no_restart(u) PROVE LockGood'
  BY <1>15 DEF no_restart, Return, IdleThread
<1>16. ASSUME NEW u \in Updater, invalidate_cache(u) PROVE LockGood'
  BY <1>16 DEF invalidate_cache, Dropped, IdleThread, Nothing
<1>17. CASE check_for_update
  BY <1>17 DEF check_for_update, UnchangedByCheck, IdleCheck, Nothing
<1>18. CASE check_compare
  BY <1>18 DEF check_compare, UnchangedByCheck, IdleCheck, Nothing
<1>19. CASE check_fails
  BY <1>19 DEF check_fails, UnchangedByCheck, IdleCheck, Nothing
<1>20. CASE check_store
  BY <1>20 DEF check_store, UnchangedByCheck, IdleCheck, Nothing
<1>21. CASE cache_expires
  BY <1>21 DEF cache_expires, UnchangedByCheck, IdleCheck, Nothing
<1>22. ASSUME NEW d \in Dog, dog_restart(d) PROVE LockGood'
  BY <1>22 DEF dog_restart, DogGoto, RestartService, IdleThread, Nothing, IdleCheck, At
<1>23. ASSUME NEW d \in Dog, dog_wait(d) PROVE LockGood'
  BY <1>23, DogWaits DEF Moves
<1>24. ASSUME NEW d \in Dog, dog_compare(d) PROVE LockGood'
  BY <1>24 DEF dog_compare, DogGoto, write_status
<1>25. ASSUME NEW d \in Dog, dog_reset(d) PROVE LockGood'
  BY <1>25 DEF dog_reset, DogGoto, write_status
<1>26. ASSUME NEW d \in Dog, dog_pip(d) PROVE LockGood'
  BY <1>26 DEF dog_pip, DogGoto
<1>27. ASSUME NEW d \in Dog, dog_restart_again(d) PROVE LockGood'
  BY <1>27 DEF dog_restart_again, DogGoto, RestartService, IdleThread, Nothing, IdleCheck,
         At
<1>28. ASSUME NEW d \in Dog, dog_rewait(d) PROVE LockGood'
  BY <1>28, DogRewaits DEF Moves
<1>29. CASE plain_restart
  BY <1>29 DEF plain_restart, RestartService, IdleThread, Nothing, IdleCheck, At
<1>30. CASE respawn
  BY <1>30 DEF respawn
<1>31. CASE crash
  BY <1>31 DEF crash, RestartService, IdleThread, Nothing, IdleCheck, At
<1>32. CASE UNCHANGED vars
  BY <1>32 DEF vars
<1> QED BY <1>1, <1>2, <1>3, <1>4, <1>5, <1>6, <1>7, <1>8, <1>9, <1>10, <1>11, <1>12, <1>13,
         <1>14, <1>15, <1>16, <1>17, <1>18, <1>19, <1>20, <1>21, <1>22, <1>23, <1>24, <1>25,
         <1>26, <1>27, <1>28, <1>29, <1>30, <1>31, <1>32
        DEF Next, UpdaterStep, CheckStep, DogStep

\* The signature is checked of the commit that is merged.
LEMMA SignedKept ==
  ASSUME ThreadTypes, DogTypes, DiskTypes, SignedGood, [Next]_vars
  PROVE  SignedGood'
<1> USE RevAssumption DEF diskVars, checkVars, historyVars, ThreadTypes, DogTypes, DiskTypes,
         SignedGood, Thread, Script, Trusted
<1>1. ASSUME NEW r \in Rev, publish(r) PROVE SignedGood'
  BY <1>1 DEF publish
<1>2. ASSUME NEW u \in Updater, preflight(u) PROVE SignedGood'
  BY <1>2 DEF preflight, Goto
<1>3. ASSUME NEW u \in Updater, read_head(u) PROVE SignedGood'
  BY <1>3 DEF read_head
<1>4. ASSUME NEW u \in Updater, fetch(u) PROVE SignedGood'
  BY <1>4 DEF fetch
<1>5. ASSUME NEW u \in Updater, give_up(u) PROVE SignedGood'
  BY <1>5 DEF give_up, Return, IdleThread
<1>6. ASSUME NEW u \in Updater, verify(u) PROVE SignedGood'
  BY <1>6 DEF verify, Goto
<1>7. ASSUME NEW u \in Updater, merge(u) PROVE SignedGood'
  BY <1>7 DEF merge, Merged
<1>8. ASSUME NEW u \in Updater, pip_install(u) PROVE SignedGood'
  BY <1>8 DEF pip_install, Goto
<1>9. ASSUME NEW u \in Updater, check_startup(u) PROVE SignedGood'
  BY <1>9 DEF check_startup, Goto
<1>10. ASSUME NEW u \in Updater, rollback(u) PROVE SignedGood'
  BY <1>10 DEF rollback, Goto, Return, IdleThread
<1>11. ASSUME NEW u \in Updater, rollback_pip(u) PROVE SignedGood'
  BY <1>11 DEF rollback_pip, Restored, Return, IdleThread
<1>12. ASSUME NEW u \in Updater, schedule_watched(u) PROVE SignedGood'
  BY <1>12 DEF schedule_watched, Goto
<1>13. ASSUME NEW u \in Updater, note_pending(u) PROVE SignedGood'
  BY <1>13 DEF note_pending, Return, IdleThread
<1>14. ASSUME NEW u \in Updater, schedule_unwatched(u) PROVE SignedGood'
  BY <1>14 DEF schedule_unwatched, Return, IdleThread
<1>15. ASSUME NEW u \in Updater, no_restart(u) PROVE SignedGood'
  BY <1>15 DEF no_restart, Return, IdleThread
<1>16. ASSUME NEW u \in Updater, invalidate_cache(u) PROVE SignedGood'
  BY <1>16 DEF invalidate_cache, Dropped, IdleThread, Nothing
<1>17. CASE check_for_update
  BY <1>17 DEF check_for_update, UnchangedByCheck, IdleCheck, Nothing
<1>18. CASE check_compare
  BY <1>18 DEF check_compare, UnchangedByCheck, IdleCheck, Nothing
<1>19. CASE check_fails
  BY <1>19 DEF check_fails, UnchangedByCheck, IdleCheck, Nothing
<1>20. CASE check_store
  BY <1>20 DEF check_store, UnchangedByCheck, IdleCheck, Nothing
<1>21. CASE cache_expires
  BY <1>21 DEF cache_expires, UnchangedByCheck, IdleCheck, Nothing
<1>22. ASSUME NEW d \in Dog, dog_restart(d) PROVE SignedGood'
  BY <1>22 DEF dog_restart, DogGoto, RestartService, IdleThread, Nothing, IdleCheck, At
<1>23. ASSUME NEW d \in Dog, dog_wait(d) PROVE SignedGood'
  BY <1>23, DogWaits DEF Moves
<1>24. ASSUME NEW d \in Dog, dog_compare(d) PROVE SignedGood'
  BY <1>24 DEF dog_compare, DogGoto, write_status
<1>25. ASSUME NEW d \in Dog, dog_reset(d) PROVE SignedGood'
  BY <1>25 DEF dog_reset, DogGoto, write_status
<1>26. ASSUME NEW d \in Dog, dog_pip(d) PROVE SignedGood'
  BY <1>26 DEF dog_pip, DogGoto
<1>27. ASSUME NEW d \in Dog, dog_restart_again(d) PROVE SignedGood'
  BY <1>27 DEF dog_restart_again, DogGoto, RestartService, IdleThread, Nothing, IdleCheck,
         At
<1>28. ASSUME NEW d \in Dog, dog_rewait(d) PROVE SignedGood'
  BY <1>28, DogRewaits DEF Moves
<1>29. CASE plain_restart
  BY <1>29 DEF plain_restart, RestartService, IdleThread, Nothing, IdleCheck, At
<1>30. CASE respawn
  BY <1>30 DEF respawn
<1>31. CASE crash
  BY <1>31 DEF crash, RestartService, IdleThread, Nothing, IdleCheck, At
<1>32. CASE UNCHANGED vars
  BY <1>32 DEF vars
<1> QED BY <1>1, <1>2, <1>3, <1>4, <1>5, <1>6, <1>7, <1>8, <1>9, <1>10, <1>11, <1>12, <1>13,
         <1>14, <1>15, <1>16, <1>17, <1>18, <1>19, <1>20, <1>21, <1>22, <1>23, <1>24, <1>25,
         <1>26, <1>27, <1>28, <1>29, <1>30, <1>31, <1>32
        DEF Next, UpdaterStep, CheckStep, DogStep

\* Whoever moves HEAD or the dependencies is on the way to mend them.
LEMMA WholeKept ==
  ASSUME ThreadTypes, DogTypes, DiskTypes, LockGood, WholeGood, [Next]_vars
  PROVE  WholeGood'
<1> USE RevAssumption DEF diskVars, checkVars, historyVars, ThreadTypes, DogTypes, DiskTypes,
         LockGood, Thread, Script, Rev, WholeGood, At, MidRollback, Up
<1>1. ASSUME NEW r \in Rev, publish(r) PROVE WholeGood'
  BY <1>1 DEF publish
<1>2. ASSUME NEW u \in Updater, preflight(u) PROVE WholeGood'
  BY <1>2 DEF preflight, Goto
<1>3. ASSUME NEW u \in Updater, read_head(u) PROVE WholeGood'
  BY <1>3 DEF read_head
<1>4. ASSUME NEW u \in Updater, fetch(u) PROVE WholeGood'
  BY <1>4 DEF fetch
<1>5. ASSUME NEW u \in Updater, give_up(u) PROVE WholeGood'
  BY <1>5 DEF give_up, Return, IdleThread
<1>6. ASSUME NEW u \in Updater, verify(u) PROVE WholeGood'
  BY <1>6 DEF verify, Goto
<1>7. ASSUME NEW u \in Updater, merge(u) PROVE WholeGood'
  BY <1>7 DEF merge, Merged
<1>8. ASSUME NEW u \in Updater, pip_install(u) PROVE WholeGood'
  BY <1>8 DEF pip_install, Goto
<1>9. ASSUME NEW u \in Updater, check_startup(u) PROVE WholeGood'
  BY <1>9 DEF check_startup, Goto
<1>10. ASSUME NEW u \in Updater, rollback(u) PROVE WholeGood'
  BY <1>10 DEF rollback, Goto, Return, IdleThread
<1>11. ASSUME NEW u \in Updater, rollback_pip(u) PROVE WholeGood'
  BY <1>11 DEF rollback_pip, Restored, Return, IdleThread
<1>12. ASSUME NEW u \in Updater, schedule_watched(u) PROVE WholeGood'
  BY <1>12 DEF schedule_watched, Goto
<1>13. ASSUME NEW u \in Updater, note_pending(u) PROVE WholeGood'
  BY <1>13 DEF note_pending, Return, IdleThread
<1>14. ASSUME NEW u \in Updater, schedule_unwatched(u) PROVE WholeGood'
  BY <1>14 DEF schedule_unwatched, Return, IdleThread
<1>15. ASSUME NEW u \in Updater, no_restart(u) PROVE WholeGood'
  BY <1>15 DEF no_restart, Return, IdleThread
<1>16. ASSUME NEW u \in Updater, invalidate_cache(u) PROVE WholeGood'
  BY <1>16 DEF invalidate_cache, Dropped, IdleThread, Nothing
<1>17. CASE check_for_update
  BY <1>17 DEF check_for_update, UnchangedByCheck, IdleCheck, Nothing
<1>18. CASE check_compare
  BY <1>18 DEF check_compare, UnchangedByCheck, IdleCheck, Nothing
<1>19. CASE check_fails
  BY <1>19 DEF check_fails, UnchangedByCheck, IdleCheck, Nothing
<1>20. CASE check_store
  BY <1>20 DEF check_store, UnchangedByCheck, IdleCheck, Nothing
<1>21. CASE cache_expires
  BY <1>21 DEF cache_expires, UnchangedByCheck, IdleCheck, Nothing
<1>22. ASSUME NEW d \in Dog, dog_restart(d) PROVE WholeGood'
  BY <1>22 DEF dog_restart, DogGoto, RestartService, IdleThread, Nothing, IdleCheck
<1>23. ASSUME NEW d \in Dog, dog_wait(d) PROVE WholeGood'
  BY <1>23, DogWaits DEF Moves
<1>24. ASSUME NEW d \in Dog, dog_compare(d) PROVE WholeGood'
  BY <1>24 DEF dog_compare, DogGoto, write_status
<1>25. ASSUME NEW d \in Dog, dog_reset(d) PROVE WholeGood'
  <2>1. CASE head' = dogs[d].from /\ DogGoto(d, "pip") /\ UNCHANGED reported
    <3>1. Moves(d, "pip") /\ UNCHANGED <<upd, deps, interrupted, reported>>
      BY <1>25, <2>1, GotoMoves DEF dog_reset
    <3> QED BY <2>1, <3>1 DEF Moves
  <2>2. CASE reported'
    BY <2>2
  <2> QED BY <1>25, <2>1, <2>2 DEF dog_reset
<1>26. ASSUME NEW d \in Dog, dog_pip(d) PROVE WholeGood'
  BY <1>26 DEF dog_pip, DogGoto
<1>27. ASSUME NEW d \in Dog, dog_restart_again(d) PROVE WholeGood'
  BY <1>27 DEF dog_restart_again, DogGoto, RestartService, IdleThread, Nothing, IdleCheck
<1>28. ASSUME NEW d \in Dog, dog_rewait(d) PROVE WholeGood'
  BY <1>28, DogRewaits DEF Moves
<1>29. CASE plain_restart
  BY <1>29 DEF plain_restart, RestartService, IdleThread, Nothing, IdleCheck
<1>30. CASE respawn
  BY <1>30 DEF respawn
<1>31. CASE crash
  BY <1>31 DEF crash, RestartService, IdleThread, Nothing, IdleCheck
<1>32. CASE UNCHANGED vars
  BY <1>32 DEF vars
<1> QED BY <1>1, <1>2, <1>3, <1>4, <1>5, <1>6, <1>7, <1>8, <1>9, <1>10, <1>11, <1>12, <1>13,
         <1>14, <1>15, <1>16, <1>17, <1>18, <1>19, <1>20, <1>21, <1>22, <1>23, <1>24, <1>25,
         <1>26, <1>27, <1>28, <1>29, <1>30, <1>31, <1>32
        DEF Next, UpdaterStep, CheckStep, DogStep

\* A pending watchdog keeps the threads out, and a restart ends those inside.
LEMMA HandKept ==
  ASSUME ThreadTypes, DogTypes, DiskTypes, LockGood, HandGood, [Next]_vars
  PROVE  HandGood'
<1> USE RevAssumption DEF diskVars, checkVars, historyVars, ThreadTypes, DogTypes, DiskTypes,
         LockGood, Thread, Script, Rev, HandGood, Active, InFlight, At
<1>1. ASSUME NEW r \in Rev, publish(r) PROVE HandGood'
  BY <1>1 DEF publish
<1>2. ASSUME NEW u \in Updater, preflight(u) PROVE HandGood'
  BY <1>2 DEF preflight, Goto
<1>3. ASSUME NEW u \in Updater, read_head(u) PROVE HandGood'
  BY <1>3 DEF read_head
<1>4. ASSUME NEW u \in Updater, fetch(u) PROVE HandGood'
  BY <1>4 DEF fetch
<1>5. ASSUME NEW u \in Updater, give_up(u) PROVE HandGood'
  BY <1>5 DEF give_up, Return, IdleThread
<1>6. ASSUME NEW u \in Updater, verify(u) PROVE HandGood'
  BY <1>6 DEF verify, Goto
<1>7. ASSUME NEW u \in Updater, merge(u) PROVE HandGood'
  BY <1>7 DEF merge, Merged
<1>8. ASSUME NEW u \in Updater, pip_install(u) PROVE HandGood'
  BY <1>8 DEF pip_install, Goto
<1>9. ASSUME NEW u \in Updater, check_startup(u) PROVE HandGood'
  BY <1>9 DEF check_startup, Goto
<1>10. ASSUME NEW u \in Updater, rollback(u) PROVE HandGood'
  BY <1>10 DEF rollback, Goto, Return, IdleThread
<1>11. ASSUME NEW u \in Updater, rollback_pip(u) PROVE HandGood'
  BY <1>11 DEF rollback_pip, Restored, Return, IdleThread
<1>12. ASSUME NEW u \in Updater, schedule_watched(u) PROVE HandGood'
  <2>1. CASE unnoted
    BY <1>12, <2>1 DEF schedule_watched
  <2>2. CASE ~unnoted
    <3>1. apply_lock = u /\ apply_lock # Nobody /\ upd[u].pc = "schedule" /\ upd[u].from <= head
      BY <1>12, <2>2 DEF schedule_watched
    <3>2. \A e \in Dog : ~Active(e)
      BY <2>2, <3>1
    <3>3. PICK d \in Dog :
            dogs' = [dogs EXCEPT ![d] = [pc |-> "sleep", from |-> upd[u].from, to |-> upd[u].to,
                                         verdict |-> "none"]]
      BY <1>12 DEF schedule_watched
    <3>4. /\ \A e \in Dog : e # d => dogs'[e] = dogs[e]
          /\ dogs'[d].pc = "sleep" /\ dogs'[d].from = upd[u].from
      BY <3>3
    <3>5. /\ upd' = [upd EXCEPT ![u].pc = "status"]
          /\ UNCHANGED <<head, status, apply_lock, unnoted>>
      BY <1>12 DEF schedule_watched, Goto
    <3>6. upd'[u].pc = "status" /\ upd'[u].from = upd[u].from
          /\ \A v \in Updater : v # u => upd'[v] = upd[v]
      BY <3>5
    <3> QED BY <2>2, <3>1, <3>2, <3>4, <3>5, <3>6
  <2> QED BY <2>1, <2>2
<1>13. ASSUME NEW u \in Updater, note_pending(u) PROVE HandGood'
  BY <1>13 DEF note_pending, Return, IdleThread
<1>14. ASSUME NEW u \in Updater, schedule_unwatched(u) PROVE HandGood'
  BY <1>14 DEF schedule_unwatched, Return, IdleThread
<1>15. ASSUME NEW u \in Updater, no_restart(u) PROVE HandGood'
  BY <1>15 DEF no_restart, Return, IdleThread
<1>16. ASSUME NEW u \in Updater, invalidate_cache(u) PROVE HandGood'
  BY <1>16 DEF invalidate_cache, Dropped, IdleThread, Nothing
<1>17. CASE check_for_update
  BY <1>17 DEF check_for_update, UnchangedByCheck, IdleCheck, Nothing
<1>18. CASE check_compare
  BY <1>18 DEF check_compare, UnchangedByCheck, IdleCheck, Nothing
<1>19. CASE check_fails
  BY <1>19 DEF check_fails, UnchangedByCheck, IdleCheck, Nothing
<1>20. CASE check_store
  BY <1>20 DEF check_store, UnchangedByCheck, IdleCheck, Nothing
<1>21. CASE cache_expires
  BY <1>21 DEF cache_expires, UnchangedByCheck, IdleCheck, Nothing
<1>22. ASSUME NEW d \in Dog, dog_restart(d) PROVE HandGood'
  BY <1>22 DEF dog_restart, DogGoto, RestartService, IdleThread, Nothing, IdleCheck
<1>23. ASSUME NEW d \in Dog, dog_wait(d) PROVE HandGood'
  <2>1. dogs[d].pc = "wait" /\ UNCHANGED <<head, apply_lock, upd, unnoted>>
    BY <1>23, DogWaits
  <2>2. CASE Moves(d, "done")
    BY <2>1, <2>2 DEF Moves
  <2>3. CASE Moves(d, "compare") /\ UNCHANGED status
    BY <2>1, <2>3 DEF Moves
  <2> QED BY <1>23, <2>2, <2>3, DogWaits
<1>24. ASSUME NEW d \in Dog, dog_compare(d) PROVE HandGood'
  BY <1>24 DEF dog_compare, DogGoto, write_status
<1>25. ASSUME NEW d \in Dog, dog_reset(d) PROVE HandGood'
  BY <1>25 DEF dog_reset, DogGoto, write_status
<1>26. ASSUME NEW d \in Dog, dog_pip(d) PROVE HandGood'
  BY <1>26 DEF dog_pip, DogGoto
<1>27. ASSUME NEW d \in Dog, dog_restart_again(d) PROVE HandGood'
  BY <1>27 DEF dog_restart_again, DogGoto, RestartService, IdleThread, Nothing, IdleCheck
<1>28. ASSUME NEW d \in Dog, dog_rewait(d) PROVE HandGood'
  <2>1. dogs[d].pc = "rewait" /\ Moves(d, "done") /\ UNCHANGED <<head, apply_lock, upd, unnoted>>
    BY <1>28, DogRewaits
  <2> QED BY <2>1 DEF Moves
<1>29. CASE plain_restart
  BY <1>29 DEF plain_restart, RestartService, IdleThread, Nothing, IdleCheck
<1>30. CASE respawn
  BY <1>30 DEF respawn
<1>31. CASE crash
  BY <1>31 DEF crash, RestartService, IdleThread, Nothing, IdleCheck
<1>32. CASE UNCHANGED vars
  BY <1>32 DEF vars
<1> QED BY <1>1, <1>2, <1>3, <1>4, <1>5, <1>6, <1>7, <1>8, <1>9, <1>10, <1>11, <1>12, <1>13,
         <1>14, <1>15, <1>16, <1>17, <1>18, <1>19, <1>20, <1>21, <1>22, <1>23, <1>24, <1>25,
         <1>26, <1>27, <1>28, <1>29, <1>30, <1>31, <1>32
        DEF Next, UpdaterStep, CheckStep, DogStep

\* HEAD goes forward in merge only.
LEMMA NewsKept ==
  ASSUME ThreadTypes, DogTypes, DiskTypes, CheckTypes, LockGood, HandGood, NewsGood, [Next]_vars
  PROVE  NewsGood'
<1> USE RevAssumption DEF diskVars, checkVars, historyVars, ThreadTypes, DogTypes, DiskTypes,
         CheckTypes, LockGood, Thread, Script, Rev, HandGood, Active, NewsGood, OfferIsNews,
         Check, Found, At
<1>1. ASSUME NEW r \in Rev, publish(r) PROVE NewsGood'
  BY <1>1 DEF publish
<1>2. ASSUME NEW u \in Updater, preflight(u) PROVE NewsGood'
  BY <1>2 DEF preflight, Goto
<1>3. ASSUME NEW u \in Updater, read_head(u) PROVE NewsGood'
  BY <1>3 DEF read_head
<1>4. ASSUME NEW u \in Updater, fetch(u) PROVE NewsGood'
  BY <1>4 DEF fetch
<1>5. ASSUME NEW u \in Updater, give_up(u) PROVE NewsGood'
  BY <1>5 DEF give_up, Return, IdleThread
<1>6. ASSUME NEW u \in Updater, verify(u) PROVE NewsGood'
  BY <1>6 DEF verify, Goto
<1>7. ASSUME NEW u \in Updater, merge(u) PROVE NewsGood'
  BY <1>7 DEF merge, Merged
<1>8. ASSUME NEW u \in Updater, pip_install(u) PROVE NewsGood'
  BY <1>8 DEF pip_install, Goto
<1>9. ASSUME NEW u \in Updater, check_startup(u) PROVE NewsGood'
  BY <1>9 DEF check_startup, Goto
<1>10. ASSUME NEW u \in Updater, rollback(u) PROVE NewsGood'
  BY <1>10 DEF rollback, Goto, Return, IdleThread
<1>11. ASSUME NEW u \in Updater, rollback_pip(u) PROVE NewsGood'
  BY <1>11 DEF rollback_pip, Restored, Return, IdleThread
<1>12. ASSUME NEW u \in Updater, schedule_watched(u) PROVE NewsGood'
  BY <1>12 DEF schedule_watched, Goto
<1>13. ASSUME NEW u \in Updater, note_pending(u) PROVE NewsGood'
  BY <1>13 DEF note_pending, Return, IdleThread
<1>14. ASSUME NEW u \in Updater, schedule_unwatched(u) PROVE NewsGood'
  BY <1>14 DEF schedule_unwatched, Return, IdleThread
<1>15. ASSUME NEW u \in Updater, no_restart(u) PROVE NewsGood'
  BY <1>15 DEF no_restart, Return, IdleThread
<1>16. ASSUME NEW u \in Updater, invalidate_cache(u) PROVE NewsGood'
  BY <1>16 DEF invalidate_cache, Dropped, IdleThread, Nothing
<1>17. CASE check_for_update
  BY <1>17 DEF check_for_update, UnchangedByCheck, IdleCheck, Nothing
<1>18. CASE check_compare
  BY <1>18 DEF check_compare, UnchangedByCheck, IdleCheck, Nothing
<1>19. CASE check_fails
  BY <1>19 DEF check_fails, UnchangedByCheck, IdleCheck, Nothing
<1>20. CASE check_store
  BY <1>20 DEF check_store, UnchangedByCheck, IdleCheck, Nothing
<1>21. CASE cache_expires
  BY <1>21 DEF cache_expires, UnchangedByCheck, IdleCheck, Nothing
<1>22. ASSUME NEW d \in Dog, dog_restart(d) PROVE NewsGood'
  BY <1>22 DEF dog_restart, DogGoto, RestartService, IdleThread, Nothing, IdleCheck
<1>23. ASSUME NEW d \in Dog, dog_wait(d) PROVE NewsGood'
  BY <1>23, DogWaits DEF Moves
<1>24. ASSUME NEW d \in Dog, dog_compare(d) PROVE NewsGood'
  BY <1>24 DEF dog_compare, DogGoto, write_status
<1>25. ASSUME NEW d \in Dog, dog_reset(d) PROVE NewsGood'
  BY <1>25 DEF dog_reset, DogGoto, write_status
<1>26. ASSUME NEW d \in Dog, dog_pip(d) PROVE NewsGood'
  BY <1>26 DEF dog_pip, DogGoto
<1>27. ASSUME NEW d \in Dog, dog_restart_again(d) PROVE NewsGood'
  BY <1>27 DEF dog_restart_again, DogGoto, RestartService, IdleThread, Nothing, IdleCheck
<1>28. ASSUME NEW d \in Dog, dog_rewait(d) PROVE NewsGood'
  BY <1>28, DogRewaits DEF Moves
<1>29. CASE plain_restart
  BY <1>29 DEF plain_restart, RestartService, IdleThread, Nothing, IdleCheck
<1>30. CASE respawn
  BY <1>30 DEF respawn
<1>31. CASE crash
  BY <1>31 DEF crash, RestartService, IdleThread, Nothing, IdleCheck
<1>32. CASE UNCHANGED vars
  BY <1>32 DEF vars
<1> QED BY <1>1, <1>2, <1>3, <1>4, <1>5, <1>6, <1>7, <1>8, <1>9, <1>10, <1>11, <1>12, <1>13,
         <1>14, <1>15, <1>16, <1>17, <1>18, <1>19, <1>20, <1>21, <1>22, <1>23, <1>24, <1>25,
         <1>26, <1>27, <1>28, <1>29, <1>30, <1>31, <1>32
        DEF Next, UpdaterStep, CheckStep, DogStep

-----------------------------------------------------------------------------
LEMMA InvStarts == Init => Inv
<1> SUFFICES ASSUME Init PROVE Inv
  OBVIOUS
<1> USE RevAssumption DEF Init, IdleThread, NoScript, IdleCheck, Nothing
<1>1. ThreadTypes /\ DogTypes
  BY DEF ThreadTypes, DogTypes, Rev, Thread, Script, Outcome
<1>2. DiskTypes /\ CheckTypes
  <2>1. interrupted \in BOOLEAN /\ unnoted \in BOOLEAN /\ reported \in BOOLEAN
    BY Zenon
  <2>2. 0 \in Rev /\ service \in Process
    BY DEF Rev, Process
  <2>3. DiskTypes
    BY <2>1, <2>2 DEF DiskTypes
  <2>4. CheckTypes
    BY DEF CheckTypes, Rev, Found, Check
  <2> QED BY <2>3, <2>4
<1>3. LockGood /\ SignedGood /\ WholeGood
  BY DEF LockGood, SignedGood, WholeGood
<1>4. HandGood /\ NewsGood
  BY DEF HandGood, Active, NewsGood, OfferIsNews
<1> QED BY <1>1, <1>2, <1>3, <1>4 DEF Inv

LEMMA InvImplies ==
  Inv => SelfTypeOK /\ SignedOnly /\ CheckoutIsWhole /\ OneHandOnCheckout /\ OfferIsNews
<1> SUFFICES ASSUME Inv
             PROVE  SelfTypeOK /\ SignedOnly /\ CheckoutIsWhole /\ OneHandOnCheckout /\ OfferIsNews
  OBVIOUS
<1> USE DEF Inv
<1>1. SelfTypeOK
  BY DEF ThreadTypes, DogTypes, DiskTypes, CheckTypes, SelfTypeOK
<1>2. SignedOnly
  BY DEF SignedGood, SignedOnly
<1>3. CheckoutIsWhole
  BY DEF WholeGood, CheckoutIsWhole, MidUpdate, At, Up
<1>4. OneHandOnCheckout
  BY DEF HandGood, Active, OneHandOnCheckout
<1>5. OfferIsNews
  BY DEF NewsGood
<1> QED BY <1>1, <1>2, <1>3, <1>4, <1>5

\* The invariant of the self-update, behind every property below.
THEOREM SelfUpdateInductive == Spec => []Inv
<1>1. Init => Inv
  BY InvStarts
<1>2. Inv /\ [Next]_vars => Inv'
  <2> SUFFICES ASSUME Inv, [Next]_vars PROVE Inv'
    OBVIOUS
  <2>1. /\ ThreadTypes /\ DogTypes /\ DiskTypes /\ CheckTypes
        /\ LockGood /\ SignedGood /\ WholeGood /\ HandGood /\ NewsGood
        /\ head \in Rev /\ remote \in Rev /\ upd \in [Updater -> Thread]
        /\ dogs \in [Dog -> Script]
    BY DEF Inv, ThreadTypes, DogTypes, DiskTypes
  <2>2. ThreadTypes' /\ DogTypes' /\ DiskTypes' /\ CheckTypes'
    BY <2>1, ThreadTypesKept, DogTypesKept, DiskTypesKept, CheckTypesKept
  <2>3. LockGood' /\ SignedGood' /\ WholeGood'
    BY <2>1, LockKept, SignedKept, WholeKept
  <2>4. HandGood' /\ NewsGood'
    BY <2>1, HandKept, NewsKept
  <2> QED BY <2>2, <2>3, <2>4 DEF Inv
<1> QED BY <1>1, <1>2, PTL DEF Spec

\* Every variable of the update keeps its type.
THEOREM SelfUpdateTypeCorrect == Spec => []SelfTypeOK
BY SelfUpdateInductive, InvImplies, PTL

\* With require_signed, apply_update never puts an unsigned revision on the disk,
\* whatever upstream publishes between the check of a signature and the merge.
THEOREM OnlySignedInstalled == Spec => []SignedOnly
BY SelfUpdateInductive, InvImplies, PTL

\* Unless a restart cut an update short or a rollback reported its failure, the
\* checkout starts and has its own dependencies whenever nobody works on it.
THEOREM CheckoutStaysWhole == Spec => []CheckoutIsWhole
BY SelfUpdateInductive, InvImplies, PTL

\* _apply_lock and _watchdog_in_flight together keep a thread and the rollback of
\* a watchdog from working on the checkout at once.
THEOREM ThreadAndDogExclude == Spec => []OneHandOnCheckout
BY SelfUpdateInductive, InvImplies, PTL

\* invalidate_cache after every update keeps the cached offer news.
THEOREM CachedOfferIsNews == Spec => []OfferIsNews
BY SelfUpdateInductive, InvImplies, PTL

-----------------------------------------------------------------------------
(* The startup check as a gate.  Without exceptions HardGate does not hold *)
(* (the run self_update_gate): a restart that was scheduled without a      *)
(* watchdog does not keep the next update from starting, and may cut it    *)
(* short or hide its watchdog.  Those two are the only ways past the gate. *)

\* While a watchdog is at work no other restart is scheduled.
PlainGood ==
  unnoted \/ \A d \in Dog :
    dogs[d].pc \in {"wait", "compare", "reset", "pip", "restart", "rewait"} => plain = 0

GateUnlessCut == HardGate \/ interrupted \/ unnoted

\* A step that schedules no restart and keeps the watchdogs keeps PlainGood.
LEMMA PlainAlone ==
  ASSUME PlainGood, UNCHANGED <<dogs, plain, unnoted>>
  PROVE  PlainGood'
BY DEF PlainGood

\* A watchdog that has begun goes on, and nothing is scheduled meanwhile.
LEMMA PlainGoesOn ==
  ASSUME PlainGood, NEW d \in Dog, NEW p, Moves(d, p), UNCHANGED <<plain, unnoted>>,
         dogs[d].pc \in {"wait", "compare", "reset", "pip", "restart", "rewait"}
  PROVE  PlainGood'
BY DEF PlainGood, Moves

\* PlainGood is kept: who schedules a restart holds the lock, so no watchdog runs.
LEMMA PlainKept ==
  ASSUME Inv, PlainGood, [Next]_vars
  PROVE  PlainGood'
<1> USE DEF diskVars, checkVars, historyVars
<1>0. dogs \in [Dog -> Script]
  BY DEF Inv, DogTypes
<1>1. ASSUME NEW r \in Rev, publish(r) PROVE PlainGood'
  BY <1>1, PlainAlone DEF publish
<1>2. ASSUME NEW u \in Updater,
             \/ preflight(u) \/ read_head(u) \/ fetch(u) \/ give_up(u) \/ verify(u) \/ merge(u)
             \/ pip_install(u) \/ check_startup(u) \/ rollback(u) \/ rollback_pip(u)
             \/ note_pending(u) \/ no_restart(u) \/ invalidate_cache(u)
      PROVE  PlainGood'
  BY <1>2, PlainAlone
     DEF preflight, read_head, fetch, give_up, verify, merge, pip_install, check_startup,
         rollback, rollback_pip, note_pending, no_restart, invalidate_cache
<1>3. ASSUME NEW u \in Updater, schedule_watched(u) PROVE PlainGood'
  <2>1. PICK d \in Dog :
          dogs' = [dogs EXCEPT ![d] = [pc |-> "sleep", from |-> upd[u].from, to |-> upd[u].to,
                                       verdict |-> "none"]]
    BY <1>3 DEF schedule_watched
  <2>2. dogs'[d].pc = "sleep" /\ \A e \in Dog : e # d => dogs'[e] = dogs[e]
    BY <1>0, <2>1
  <2>3. UNCHANGED <<plain, unnoted>>
    BY <1>3 DEF schedule_watched
  <2> QED BY <2>2, <2>3 DEF PlainGood
<1>4. ASSUME NEW u \in Updater, schedule_unwatched(u) PROVE PlainGood'
  <2>1. UNCHANGED <<dogs, unnoted>> /\ upd[u].pc = "schedule"
    BY <1>4 DEF schedule_unwatched
  <2>2. apply_lock = u /\ apply_lock # Nobody
    BY <2>1, RevAssumption DEF Inv, LockGood
  <2>3. unnoted \/ \A d \in Dog : dogs[d].pc \in {"unused", "done", "sleep"}
    BY <2>2 DEF Inv, HandGood, Active
  <2> QED BY <2>1, <2>3 DEF PlainGood
<1>5. CASE CheckStep
  BY <1>5, PlainAlone
     DEF CheckStep, check_for_update, check_compare, check_fails, check_store, cache_expires,
         UnchangedByCheck
<1>6. ASSUME NEW d \in Dog, dog_restart(d) \/ dog_restart_again(d) PROVE PlainGood'
  <2>1. plain' = 0
    BY <1>6 DEF dog_restart, dog_restart_again, RestartService
  <2> QED BY <2>1 DEF PlainGood
<1>7. CASE plain_restart \/ crash
  <2>1. plain' = 0
    BY <1>7 DEF plain_restart, crash, RestartService
  <2> QED BY <2>1 DEF PlainGood
<1>8. ASSUME NEW d \in Dog, dog_wait(d) PROVE PlainGood'
  BY <1>0, <1>8, DogWaits, PlainGoesOn
<1>9. ASSUME NEW d \in Dog, dog_rewait(d) PROVE PlainGood'
  BY <1>0, <1>9, DogRewaits, PlainGoesOn
<1>10. ASSUME NEW d \in Dog, dog_compare(d) PROVE PlainGood'
  <2>1. "superseded" \in Verdict
    BY DEF Verdict
  <2>2. /\ dogs[d].pc = "compare" /\ UNCHANGED <<plain, unnoted>>
        /\ write_status(d, "superseded") \/ DogGoto(d, "reset")
    BY <1>10 DEF dog_compare
  <2> QED BY <1>0, <2>1, <2>2, GotoMoves, StatusMoves, PlainGoesOn
<1>11. ASSUME NEW d \in Dog, dog_reset(d) PROVE PlainGood'
  <2>1. "rollback_failed" \in Verdict
    BY DEF Verdict
  <2>2. /\ dogs[d].pc = "reset" /\ UNCHANGED <<plain, unnoted>>
        /\ write_status(d, "rollback_failed") \/ DogGoto(d, "pip")
    BY <1>11 DEF dog_reset
  <2> QED BY <1>0, <2>1, <2>2, GotoMoves, StatusMoves, PlainGoesOn
<1>12. ASSUME NEW d \in Dog, dog_pip(d) PROVE PlainGood'
  <2>1. dogs[d].pc = "pip" /\ UNCHANGED <<plain, unnoted>> /\ DogGoto(d, "restart")
    BY <1>12 DEF dog_pip
  <2> QED BY <1>0, <2>1, GotoMoves, PlainGoesOn
<1>13. CASE respawn
  BY <1>13, PlainAlone DEF respawn
<1>14. CASE UNCHANGED vars
  BY <1>14, PlainAlone DEF vars
<1> QED BY <1>1, <1>2, <1>3, <1>4, <1>5, <1>6, <1>7, <1>8, <1>9, <1>10, <1>11, <1>12, <1>13, <1>14
        DEF Next, UpdaterStep, DogStep

\* A restart that falls into no update and no rollback starts what is whole.
LEMMA RestartIsWhole ==
  ASSUME Inv, RestartService, ~MidRollback, ~interrupted', ~reported
  PROVE  Up(service')
<1>1. ~interrupted /\ ~At({"pip", "check", "rollback", "rollback_pip"})
  BY DEF RestartService, Inv, DiskTypes
<1>2. ~At({"pip", "check", "rollback"}) /\ ~At({"pip", "rollback", "rollback_pip"}) /\ ~At({"pip", "rollback_pip"})
  BY <1>1 DEF At
<1>3. head \in Starts /\ deps = head
  BY <1>1, <1>2 DEF Inv, WholeGood
<1>4. service' = [rev |-> head, deps |-> deps]
  BY <1>2 DEF RestartService
<1> QED BY <1>3, <1>4 DEF Up

\* A step that leaves the service alone cannot open the gate.
LEMMA GateAlone ==
  ASSUME GateUnlessCut, UNCHANGED <<service, crashes, interrupted, unnoted>>, reported => reported'
  PROVE  GateUnlessCut'
BY DEF GateUnlessCut, HardGate, Up

\* The gate is kept.
LEMMA GateKept ==
  ASSUME Inv, PlainGood, GateUnlessCut, [Next]_vars
  PROVE  GateUnlessCut'
<1> USE DEF diskVars, checkVars, historyVars
<1>1. ASSUME NEW r \in Rev, publish(r) PROVE GateUnlessCut'
  BY <1>1, GateAlone DEF publish
<1>2. ASSUME NEW u \in Updater, UpdaterStep(u) PROVE GateUnlessCut'
  <2>1. UNCHANGED <<service, crashes, interrupted, unnoted>> /\ (reported => reported')
    BY <1>2
       DEF UpdaterStep, preflight, read_head, fetch, give_up, verify, merge, pip_install,
           check_startup, rollback, rollback_pip, schedule_watched, schedule_unwatched,
           note_pending, no_restart, invalidate_cache
  <2> QED BY <2>1, GateAlone
<1>3. CASE CheckStep
  BY <1>3, GateAlone
     DEF CheckStep, check_for_update, check_compare, check_fails, check_store, cache_expires,
         UnchangedByCheck
<1>4. ASSUME NEW d \in Dog, dog_wait(d) \/ dog_compare(d) \/ dog_reset(d) \/ dog_pip(d) \/ dog_rewait(d)
      PROVE  GateUnlessCut'
  <2>1. UNCHANGED <<service, crashes, interrupted, unnoted>> /\ (reported => reported')
    <3>1. dogs \in [Dog -> Script]
      BY DEF Inv, DogTypes
    <3>2. CASE dog_wait(d) \/ dog_rewait(d)
      BY <3>1, <3>2, DogWaits, DogRewaits
    <3>3. CASE dog_compare(d)
      BY <3>3 DEF dog_compare
    <3>4. CASE dog_reset(d) \/ dog_pip(d)
      <4>1. UNCHANGED <<service, crashes, interrupted, unnoted>>
        BY <3>4 DEF dog_reset, dog_pip
      <4>2. UNCHANGED reported \/ reported' = TRUE
        BY <3>4 DEF dog_reset, dog_pip
      <4>3. reported => reported'
        BY <4>2, Zenon
      <4> QED BY <4>1, <4>3
    <3> QED BY <1>4, <3>2, <3>3, <3>4
  <2> QED BY <2>1, GateAlone
<1>5. ASSUME RestartService, UNCHANGED crashes, unnoted \/ ~MidRollback PROVE GateUnlessCut'
  <2>1. unnoted => unnoted'
    BY <1>5 DEF RestartService, Inv, DiskTypes
  <2>2. UNCHANGED reported
    BY <1>5 DEF RestartService
  <2> QED BY <1>5, <2>1, <2>2, RestartIsWhole DEF GateUnlessCut, HardGate, Up
<1>6. ASSUME NEW d \in Dog, dog_restart(d) \/ dog_restart_again(d) PROVE GateUnlessCut'
  <2>1. /\ dogs[d].pc \in {"sleep", "restart"}
        /\ RestartService /\ UNCHANGED crashes
    BY <1>6 DEF dog_restart, dog_restart_again
  <2>2. unnoted \/ ~MidRollback
    BY <2>1 DEF Inv, HandGood, Active, MidRollback
  <2> QED BY <1>5, <2>1, <2>2
<1>7. CASE plain_restart
  <2>1. plain > 0 /\ RestartService /\ UNCHANGED crashes
    BY <1>7 DEF plain_restart
  <2>2. plain # 0
    BY <2>1, RevAssumption DEF Inv, DiskTypes
  <2>3. unnoted \/ ~MidRollback
    BY <2>2 DEF PlainGood, MidRollback
  <2> QED BY <1>5, <2>1, <2>3
<1>8. CASE crash
  <2>1. crashes' # 0
    BY <1>8, RevAssumption DEF crash, Inv, CheckTypes
  <2> QED BY <2>1 DEF GateUnlessCut, HardGate
<1>9. CASE respawn
  <2>1. ~Up(service) /\ UNCHANGED <<crashes, interrupted, unnoted, reported>>
    BY <1>9 DEF respawn
  <2> QED BY <2>1 DEF GateUnlessCut, HardGate
<1>10. CASE UNCHANGED vars
  BY <1>10, GateAlone DEF vars
<1> QED BY <1>1, <1>2, <1>3, <1>4, <1>6, <1>7, <1>8, <1>9, <1>10 DEF Next, DogStep

\* The startup check is a gate that only two things get past: a restart that
\* cuts an update short after its merge, and one that comes between the start
\* of a watchdog and its note in STATUS_FILE.  Otherwise no restart of
\* apply_update or of its watchdog starts a revision that did not pass the check
\* with its own dependencies, unless a rollback reported its failure.
THEOREM GateHoldsUnlessCut == Spec => []GateUnlessCut
<1>1. Init => PlainGood /\ GateUnlessCut
  BY RevAssumption DEF Init, NoScript, PlainGood, GateUnlessCut, HardGate, Up
<1>2. Inv /\ PlainGood /\ GateUnlessCut /\ [Next]_vars => PlainGood' /\ GateUnlessCut'
  BY PlainKept, GateKept
<1> QED BY <1>1, <1>2, SelfUpdateInductive, PTL DEF Spec

-----------------------------------------------------------------------------
(* The watchdog.  That it ends needs fairness and is left to TLC           *)
(* (ServiceComesBack); that its script only goes forward, and what it has  *)
(* seen when it ends, is proved.                                           *)

\* How many steps a script at place p has ahead of it, at most.
Ahead(p) ==
  CASE p = "unused"  -> 8
    [] p = "sleep"   -> 7
    [] p = "wait"    -> 6
    [] p = "compare" -> 5
    [] p = "reset"   -> 4
    [] p = "pip"     -> 3
    [] p = "restart" -> 2
    [] p = "rewait"  -> 1
    [] p = "done"    -> 0

\* Nobody sends a script back; each of its own steps brings it forward; and when
\* it ends, the service answers or the verdict says that it was not mended.
DogsWindDown ==
  \A d \in Dog :
    /\ Ahead(dogs'[d].pc) <= Ahead(dogs[d].pc)
    /\ DogStep(d) => Ahead(dogs'[d].pc) < Ahead(dogs[d].pc)
    /\ DogStep(d) /\ dogs'[d].pc = "done" =>
         Serving \/ dogs'[d].verdict \in {"superseded", "rollback_failed", "rollback_unhealthy"}

\* The places, in numbers.
LEMMA AheadIs ==
  /\ Ahead("unused") = 8 /\ Ahead("sleep") = 7 /\ Ahead("wait") = 6 /\ Ahead("compare") = 5
  /\ Ahead("reset") = 4 /\ Ahead("pip") = 3 /\ Ahead("restart") = 2 /\ Ahead("rewait") = 1
  /\ Ahead("done") = 0
BY DEF Ahead

\* A script writes its verdict as it ends.
LEMMA VerdictWritten ==
  ASSUME dogs \in [Dog -> Script], NEW d \in Dog, NEW v, write_status(d, v)
  PROVE  dogs'[d].pc = "done" /\ dogs'[d].verdict = v /\ \A e \in Dog : e # d => dogs'[e] = dogs[e]
<1>1. dogs' = [dogs EXCEPT ![d] = [@ EXCEPT !.pc = "done", !.verdict = v]]
  BY DEF write_status
<1> QED BY <1>1 DEF Script

\* Where a step of script d takes it, and with which verdict it ends.
DogMove(d) ==
  /\ \A e \in Dog : e # d => dogs'[e] = dogs[e]
  /\ \/ dogs[d].pc = "sleep" /\ dogs'[d].pc = "wait"
     \/ dogs[d].pc = "wait" /\ dogs'[d].pc = "compare"
     \/ dogs[d].pc = "wait" /\ dogs'[d].pc = "done" /\ Serving
     \/ dogs[d].pc = "compare" /\ dogs'[d].pc = "reset"
     \/ dogs[d].pc = "compare" /\ dogs'[d].pc = "done" /\ dogs'[d].verdict = "superseded"
     \/ dogs[d].pc = "reset" /\ dogs'[d].pc = "pip"
     \/ dogs[d].pc = "reset" /\ dogs'[d].pc = "done" /\ dogs'[d].verdict = "rollback_failed"
     \/ dogs[d].pc = "pip" /\ dogs'[d].pc = "restart"
     \/ dogs[d].pc = "restart" /\ dogs'[d].pc = "rewait"
     \/ dogs[d].pc = "rewait" /\ dogs'[d].pc = "done" /\ Serving
     \/ dogs[d].pc = "rewait" /\ dogs'[d].pc = "done" /\ dogs'[d].verdict = "rollback_unhealthy"

\* Every step of the script is one of these.
LEMMA DogMoves ==
  ASSUME dogs \in [Dog -> Script], NEW d \in Dog, DogStep(d)
  PROVE  DogMove(d)
<1>1. CASE dog_restart(d)
  <2>1. dogs[d].pc = "sleep" /\ DogGoto(d, "wait")
    BY <1>1 DEF dog_restart
  <2> QED BY <2>1, GotoMoves DEF Moves, DogMove
<1>2. CASE dog_wait(d)
  <2>1. /\ dogs[d].pc = "wait"
        /\ (Serving /\ write_status(d, "healthy")) \/ DogGoto(d, "compare")
    BY <1>2, Zenon DEF dog_wait, Answers
  <2> QED BY <2>1, GotoMoves, VerdictWritten DEF Moves, DogMove
<1>3. CASE dog_compare(d)
  <2>1. dogs[d].pc = "compare" /\ (write_status(d, "superseded") \/ DogGoto(d, "reset"))
    BY <1>3 DEF dog_compare
  <2> QED BY <2>1, GotoMoves, VerdictWritten DEF Moves, DogMove
<1>4. CASE dog_reset(d)
  <2>1. dogs[d].pc = "reset" /\ (write_status(d, "rollback_failed") \/ DogGoto(d, "pip"))
    BY <1>4 DEF dog_reset
  <2> QED BY <2>1, GotoMoves, VerdictWritten DEF Moves, DogMove
<1>5. CASE dog_pip(d)
  <2>1. dogs[d].pc = "pip" /\ DogGoto(d, "restart")
    BY <1>5 DEF dog_pip
  <2> QED BY <2>1, GotoMoves DEF Moves, DogMove
<1>6. CASE dog_restart_again(d)
  <2>1. dogs[d].pc = "restart" /\ DogGoto(d, "rewait")
    BY <1>6 DEF dog_restart_again
  <2> QED BY <2>1, GotoMoves DEF Moves, DogMove
<1>7. CASE dog_rewait(d)
  <2>1. /\ dogs[d].pc = "rewait"
        /\ (Serving /\ write_status(d, "rolled_back")) \/ write_status(d, "rollback_unhealthy")
    BY <1>7, Zenon DEF dog_rewait, Answers
  <2> QED BY <2>1, VerdictWritten DEF DogMove
<1> QED BY <1>1, <1>2, <1>3, <1>4, <1>5, <1>6, <1>7 DEF DogStep

\* The steps that are no script's: they start one, or leave them all alone.
LEMMA OthersAndDogs ==
  ASSUME dogs \in [Dog -> Script], [Next]_vars, ~(\E d \in Dog : DogStep(d))
  PROVE  \A e \in Dog : dogs'[e] = dogs[e] \/ (dogs[e].pc = "unused" /\ dogs'[e].pc = "sleep")
<1> USE DEF diskVars, checkVars, historyVars
<1>1. ASSUME UNCHANGED dogs
      PROVE  \A e \in Dog : dogs'[e] = dogs[e] \/ (dogs[e].pc = "unused" /\ dogs'[e].pc = "sleep")
  BY <1>1
<1>2. ASSUME NEW u \in Updater, schedule_watched(u)
      PROVE  \A e \in Dog : dogs'[e] = dogs[e] \/ (dogs[e].pc = "unused" /\ dogs'[e].pc = "sleep")
  <2>1. PICK d \in Dog :
          /\ dogs[d].pc = "unused"
          /\ dogs' = [dogs EXCEPT ![d] = [pc |-> "sleep", from |-> upd[u].from, to |-> upd[u].to,
                                          verdict |-> "none"]]
    BY <1>2 DEF schedule_watched
  <2> QED BY <2>1
<1>3. ASSUME NEW u \in Updater, UpdaterStep(u), ~schedule_watched(u) PROVE UNCHANGED dogs
  BY <1>3
     DEF UpdaterStep, preflight, read_head, fetch, give_up, verify, merge, pip_install,
         check_startup, rollback, rollback_pip, schedule_unwatched, note_pending, no_restart,
         invalidate_cache
<1>4. ASSUME CheckStep PROVE UNCHANGED dogs
  BY <1>4 DEF CheckStep, check_for_update, check_compare, check_fails, check_store, cache_expires,
              UnchangedByCheck
<1>5. ASSUME plain_restart \/ respawn \/ crash \/ UNCHANGED vars PROVE UNCHANGED dogs
  BY <1>5 DEF plain_restart, respawn, crash, vars
<1>6. ASSUME NEW r \in Rev, publish(r) PROVE UNCHANGED dogs
  BY <1>6 DEF publish
<1> QED BY <1>1, <1>2, <1>3, <1>4, <1>5, <1>6 DEF Next

\* Every script goes forward only.
LEMMA DogsForward ==
  ASSUME Inv, [Next]_vars
  PROVE  DogsWindDown
<1>0. dogs \in [Dog -> Script]
  BY DEF Inv, DogTypes
<1>1. ASSUME NEW d \in Dog, DogMove(d) PROVE Ahead(dogs'[d].pc) < Ahead(dogs[d].pc)
                                             /\ Ahead(dogs'[d].pc) <= Ahead(dogs[d].pc)
  BY <1>1, AheadIs DEF DogMove
<1>2. \A d \in Dog : Ahead(dogs[d].pc) \in Nat
  <2> SUFFICES ASSUME NEW d \in Dog PROVE Ahead(dogs[d].pc) \in Nat
    OBVIOUS
  <2>1. dogs[d].pc \in {"unused", "sleep", "wait", "compare", "reset", "pip", "restart", "rewait", "done"}
    BY <1>0 DEF Script
  <2> QED BY <2>1, AheadIs
<1>3. ASSUME NEW e \in Dog PROVE Ahead(dogs'[e].pc) <= Ahead(dogs[e].pc)
  <2>1. CASE DogStep(e)
    BY <1>0, <1>1, <2>1, DogMoves
  <2>2. ASSUME NEW d \in Dog, d # e, DogStep(d) PROVE Ahead(dogs'[e].pc) <= Ahead(dogs[e].pc)
    <3>1. dogs'[e] = dogs[e]
      BY <1>0, <2>2, DogMoves DEF DogMove
    <3> QED BY <1>2, <3>1
  <2>3. CASE ~(\E d \in Dog : DogStep(d))
    <3>1. dogs'[e] = dogs[e] \/ (dogs[e].pc = "unused" /\ dogs'[e].pc = "sleep")
      BY <1>0, <2>3, OthersAndDogs
    <3> QED BY <1>2, <3>1, AheadIs
  <2> QED BY <2>1, <2>2, <2>3
<1>4. ASSUME NEW d \in Dog, DogStep(d) PROVE Ahead(dogs'[d].pc) < Ahead(dogs[d].pc)
  BY <1>0, <1>1, <1>4, DogMoves
<1>5. ASSUME NEW d \in Dog, DogStep(d), dogs'[d].pc = "done"
      PROVE  Serving \/ dogs'[d].verdict \in {"superseded", "rollback_failed", "rollback_unhealthy"}
  BY <1>0, <1>5, DogMoves DEF DogMove
<1> QED BY <1>3, <1>4, <1>5 DEF DogsWindDown

\* A watchdog takes at most seven steps, whatever updates, crashes and other
\* watchdogs do meanwhile, and it ends only when the service answers or with a
\* verdict that tells the operator.  This is why ServiceComesBack, which TLC
\* checks, holds.
THEOREM WatchdogsWindDown == Spec => [][DogsWindDown]_vars
<1>1. Inv /\ [Next]_vars => [DogsWindDown]_vars
  BY DogsForward
<1> QED BY <1>1, SelfUpdateInductive, PTL DEF Spec
=============================================================================
