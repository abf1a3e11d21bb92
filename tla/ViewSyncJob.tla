---------------------------- MODULE ViewSyncJob ----------------------------
(***************************************************************************)
(* sync_post_views_to_db (app/core/scheduler.py), beside the reads of      *)
(* ViewCounter.  A run of the job iterates over the Redis counters.  After *)
(* each key it writes every value it has collected since the run began to  *)
(* posts.views, in one unit of work, and goes on whether that failed or    *)
(* not.  A collected value is thus written again and again while the       *)
(* background tasks of reads copy newer ones.                              *)
(*                                                                         *)
(* Nothing in the repository schedules the job; here it may start at any   *)
(* moment at which it is not running.                                      *)
(***************************************************************************)
EXTENDS ViewCounter

ASSUME ActorsAssumption == Tasks \cap Posts = {}

VARIABLES
    job,       \* "idle", "scan" or "write"
    due,       \* keys that SCAN has yet to return
    updates,   \* updates: the value collected for each post, or Nil
    written,   \* posts the job's open transaction has updated
    (* History: *)
    got,       \* the values GET has answered in this run
    flushed,   \* the run's last unit of work committed
    overtaken  \* tasks, and posts of updates, whose value was read before
               \* the value now in posts.views was written

jobVars == <<job, due, updates, written, got, flushed, overtaken>>
allVars == <<vars, jobVars>>

Nothing == [p \in Posts |-> Nil]

(* Plausible bug: the dictionary outlives the run. *)
OldUpdates == updates

(* updates = {} *)
NewUpdates == Nothing

Collected == {p \in Posts : updates[p] # Nil}

JobInit ==
    /\ Init
    /\ job = "idle"
    /\ due = {}
    /\ updates = Nothing
    /\ written = {}
    /\ got = Nothing
    /\ flushed = TRUE
    /\ overtaken = {}

(* The tasks that hold a value for one of the posts in ps, not yet written.*)
Carriers(ps) == {t \in Tasks : pc[t] \in {"sync", "commit"} /\ post[t] \in ps}

(* The posts a step of ViewCounter writes or locks. *)
Touched ==
    {post'[t] : t \in {s \in Tasks : pc[s] # "commit" /\ pc'[s] = "commit"}}
        \cup (deleted' \ deleted)

(* A step of a read, of its background task, of Redis or of an author.  A  *)
(* row the job has updated makes its next writer wait. *)
Beside(Action) ==
    /\ Action
    /\ Touched \cap written = {}
    /\ LET synced == {post[t] : t \in {s \in Tasks : CommitSync(s)}}
           carriers == {t \in Tasks : pc'[t] \in {"sync", "commit"}}
       IN  overtaken' = (overtaken \cap (Posts \cup carriers))
                            \cup (Carriers(synced) \cap carriers)
                            \cup {p \in synced : got[p] # Nil}
    /\ UNCHANGED <<job, due, updates, written, got, flushed>>

(* sync_post_views_to_db is called: updates = {}, and a SCAN that will     *)
(* return at least the keys present from now to its end. *)
BeginJob ==
    /\ useCache
    /\ job = "idle"
    /\ job' = "scan"
    /\ due' = {p \in Posts : cache[p] # Nil}
    /\ flushed' = TRUE
    /\ UNCHANGED <<vars, updates, written, got, overtaken>>

(* The run is over. *)
EndJob ==
    /\ job' = "idle"
    /\ due' = {}
    /\ updates' = NewUpdates
    /\ written' = {}
    /\ got' = Nothing
    /\ overtaken' = overtaken \ Posts

(* The next key, GET, and the tests of views and of updates.  The key may  *)
(* be younger than the run, or gone by now, and a GET that raises is       *)
(* logged and passed over; with nothing collected yet the job returns,     *)
(* whatever SCAN has left. *)
CollectKey(p) ==
    /\ job = "scan"
    /\ p \in due \/ (cache[p] # Nil /\ got[p] = Nil)
    /\ \E value \in {cache[p]} \cup (IF "job" \in Faults THEN {Nil} ELSE {}) :
          IF value = Nil /\ Collected = {}
          THEN EndJob
          ELSE /\ job' = "write"
               /\ due' = due \ {p}
               /\ IF value = Nil
                  THEN UNCHANGED <<updates, got, overtaken>>
                  ELSE /\ updates' = [updates EXCEPT ![p] = value]
                       /\ got' = [got EXCEPT ![p] = value]
                       /\ overtaken' = overtaken \ {p}
               /\ UNCHANGED written
    /\ flushed' = FALSE
    /\ UNCHANGED vars

(* What the unit of work has yet to write. *)
Unwritten == Collected \ written

(* sync_views of one collected value.  The dictionary is written in its    *)
(* order; any order is admitted here. *)
WriteCollected(p) ==
    /\ job = "write"
    /\ p \in Unwritten
    /\ ~PostLocked(p)
    /\ written' = written \cup {p}
    /\ UNCHANGED <<vars, job, due, updates, got, flushed, overtaken>>

(* Plausible bugs: the values are added to posts.views; they are dropped   *)
(* after each unit of work, even after one that failed. *)
SyncedAdded(p) == views[p] + updates[p]
DroppedAfterUnit == Nothing

Synced(p) == updates[p]

(* The values stay collected for the next unit of work. *)
AfterUnit == updates

(* The transaction commits, and the scan goes on. *)
CommitJob ==
    /\ job = "write"
    /\ Unwritten = {}
    /\ views' = [p \in Posts |-> IF p \in written THEN Synced(p) ELSE views[p]]
    /\ job' = "scan"
    /\ written' = {}
    /\ updates' = AfterUnit
    /\ flushed' = TRUE
    /\ overtaken' = overtaken \cup Carriers(written)
    /\ UNCHANGED <<useCache, deleted, cache, locals, history, due, got>>

(* The unit of work raises: rollback, and the error is logged. *)
FailUnit ==
    /\ "job" \in Faults
    /\ job = "write"
    /\ job' = "scan"
    /\ written' = {}
    /\ updates' = AfterUnit
    /\ UNCHANGED <<vars, due, got, flushed, overtaken>>

(* SCAN is exhausted; of the keys that were there when it began those that *)
(* Redis has lost since need not have come. *)
FinishScan ==
    /\ job = "scan"
    /\ \A p \in due : cache[p] = Nil
    /\ EndJob
    /\ UNCHANGED <<vars, flushed>>

(* The process dies, or SCAN raises. *)
KillJob ==
    /\ "job" \in Faults
    /\ job # "idle"
    /\ EndJob
    /\ UNCHANGED <<vars, flushed>>

JobNext ==
    \/ Beside(Next)
    \/ BeginJob
    \/ \E p \in Posts : CollectKey(p) \/ WriteCollected(p)
    \/ CommitJob
    \/ FinishScan
    \/ FailUnit
    \/ KillJob

JobSpec == JobInit /\ [][JobNext]_allVars
-----------------------------------------------------------------------------
(* The job counts no view twice either: no value it has collected, however *)
(* late it is written, is above the number of views. *)
NoOvercountByJob == NoOvercount /\ \A p \in Collected : updates[p] <= hits[p]

JobTypeOK ==
    /\ job \in {"idle", "scan", "write"}
    /\ updates \in [Posts -> Nat \cup {Nil}]
    /\ written \subseteq Collected
    /\ flushed \in BOOLEAN
    /\ overtaken \subseteq Tasks \cup Posts

(* What the job has in hand where it is: nothing between its runs, and all *)
(* that GET has answered within one, which is on its way while a unit of   *)
(* work is open. *)
JobPhaseOK ==
    /\ got = updates
    /\ job = "idle" => updates = Nothing
    /\ job # "idle" => useCache
    /\ job # "write" => written = {}
    /\ job = "write" => ~flushed

(* A value that nobody has overtaken, the job's or a task's, is not older  *)
(* than the one in posts.views, as long as the counter is not disturbed. *)
CurrentUnlessOvertaken ==
    /\ \A p \in Collected \ (disturbed \cup overtaken) : views[p] <= updates[p]
    /\ \A t \in Carriers(Posts \ disturbed) \ overtaken :
          useCache => views[post[t]] <= newViews[t]

(* What the last unit of work has written is still there. *)
FlushedStays ==
    job = "scan" /\ flushed => \A p \in Collected \ overtaken : views[p] >= updates[p]

(* The inductive invariant of the job beside the reads. *)
JobInv ==
    /\ IInv /\ NoOvercountByJob
    /\ JobTypeOK /\ JobPhaseOK /\ CurrentUnlessOvertaken /\ FlushedStays

(* posts.views goes back only when a value older than the one it holds is  *)
(* written late: by a background task another sync has overtaken, or by    *)
(* the job, which writes what it collected before others wrote newer       *)
(* values (sync_post_views_to_db, increment_views_background). *)
ViewsBackOnlyOvertaken ==
    [][\A p \in Posts \ disturbed :
         views'[p] < views[p] =>
            \/ p \in overtaken
            \/ \E t \in Tasks \cap overtaken : post[t] = p /\ pc[t] = "commit"]_allVars

(* A run whose last unit of work committed has brought posts.views at      *)
(* least to every value it collected, although units of work before it     *)
(* failed: rewriting old values is also what repairs those.  Only values   *)
(* overtaken by other syncs are exempt. *)
FlushedAtEnd ==
    [][FinishScan /\ flushed =>
         \A p \in Posts \ overtaken : got[p] # Nil => views[p] >= got[p]]_allVars
=============================================================================
