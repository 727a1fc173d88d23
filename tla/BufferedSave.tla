----------------------------- MODULE BufferedSave -----------------------------
(***************************************************************************)
(* Transactions of the change set persisters that the threads of one       *)
(* process share: ChangeSetPersister::Basic#buffer_into_index, and         *)
(* IndexingAdapter::Persister#buffer_into_index below it.                  *)
(*                                                                         *)
(* Two kinds of transactions run.  CreateDerivativesJob saves a file set   *)
(* with the persister of DefaultDerivativeService; when it fails, the      *)
(* error message is saved after the rollback.  Everything else saves a     *)
(* work with ChangeSetPersister.default; a work is also indexed in Solr.   *)
(*                                                                         *)
(* The version of a resource is its lock token.  The two saves of one      *)
(* transaction count as one version.  Array#each calls the blocks of a     *)
(* queue in their order; here any order will do.                           *)
(***************************************************************************)
EXTENDS Integers, FiniteSets

CONSTANTS
    FileSets, Works,
    Threads,         \* of the process
    Queues,          \* DelayedQueues; as many as can be in use at once
    NoQueue,         \* nil
    InstantQueue,
    MaxAttempts,     \* bound: how often Sidekiq runs a job
    MaxSaves         \* bound: transactions that save one work

ASSUME BufferedAssumption ==
    /\ FileSets \cap Works = {}
    /\ NoQueue \notin Queues /\ InstantQueue \notin Queues /\ NoQueue # InstantQueue
    /\ MaxAttempts \in Nat \ {0} /\ MaxSaves \in Nat

VARIABLES
    database,        \* committed rows
    solr,            \* the version of each work that Solr shows
    preserved,       \* the version of each resource PreserveResource last queued
    afterRollback,   \* @after_rollback of the shared persisters
    blocks,          \* the file sets whose error message a DelayedQueue will save
    thread,
    job,             \* CreateDerivativesJob of each file set
    told,            \* works whose saver has got an error after the commit
    saves

vars == <<database, solr, preserved, afterRollback, blocks, thread, job, told, saves>>

Resources      == FileSets \cup Works
Persisters     == {"derivatives", "default"}
PersisterOf(r) == IF r \in FileSets THEN "derivatives" ELSE "default"
Rows           == [version : Nat, made : BOOLEAN, error : BOOLEAN]
Jobs           == [state : {"waiting", "running", "processed", "dead"},
                   attempts : Nat]

\* What a thread knows at a step: `read' is a row it has read, `queue' the
\* after_rollback that the persister of its transaction was given, or the one it
\* runs in the rescue; `left' are the blocks it has still to call, and it is `live'
\* while the array it goes through is still the one of the queue.
Idle    == [step |-> "idle"]
Bare    == [step : {"processing", "raised", "rescued"}, of : Resources]
Reader  == [step : {"begun", "marking", "marked"}, of : Resources, read : Rows]
Open    == [step : {"open", "written", "indexed", "committed"},
            of : Resources, read : Rows, queue : Queues \cup {InstantQueue}]
Calling == [step : {"calling"}, of : Resources, queue : Queues \cup {InstantQueue},
            left : SUBSET FileSets, live : BOOLEAN]
Writing == [step : {"writing"}, of : Resources, queue : Queues \cup {InstantQueue},
            left : SUBSET FileSets, live : BOOLEAN, file : FileSets, read : Rows]

ThreadStates == {Idle} \cup Bare \cup Reader \cup Open \cup Calling \cup Writing

TypeOK == /\ database \in [Resources -> Rows]
          /\ solr \in [Works -> Nat]
          /\ preserved \in [Resources -> Nat]
          /\ afterRollback \in [Persisters -> Queues \cup {NoQueue, InstantQueue}]
          /\ blocks \in [Queues -> SUBSET FileSets]
          /\ thread \in [Threads -> ThreadStates]
          /\ job \in [FileSets -> Jobs]
          /\ told \subseteq Works
          /\ saves \in [Works -> 0 .. MaxSaves]

Init == /\ database = [r \in Resources |-> [version |-> 1, made |-> FALSE, error |-> FALSE]]
        /\ solr = [w \in Works |-> 1]
        /\ preserved = [r \in Resources |-> 1]
        /\ afterRollback = [p \in Persisters |-> NoQueue]
        /\ blocks = [q \in Queues |-> {}]
        /\ thread = [t \in Threads |-> Idle]
        /\ job = [f \in FileSets |-> [state |-> "waiting", attempts |-> 0]]
        /\ told = {}
        /\ saves = [w \in Works |-> 0]

At(t, step) == thread[t].step = step
Of(t)       == thread[t].of
Shared(t)   == PersisterOf(Of(t))
Bared(t, step) == [step |-> step, of |-> Of(t)]
Goto(t, step)  == thread' = [thread EXCEPT ![t].step = step]

\* A row that was written is locked until its transaction ends.
Holds(t, r) == (At(t, "written") \/ At(t, "indexed")) /\ Of(t) = r
Locked(r)   == \E t \in Threads : Holds(t, r)

\* Slip: a resource without optimistic locking.
AnyRow(r, row) == ~Locked(r)

\* The optimistic lock: the row is as it was read, and nobody else has written it.
Current(r, row) == ~Locked(r) /\ database[r].version = row.version

Referenced == {afterRollback[p] : p \in Persisters}
              \cup {thread[t].queue : t \in {u \in Threads : "queue" \in DOMAIN thread[u]}}

------------------------------------------------------------------------------
(* What the threads take up.                                               *)

\* buffer_into_index makes a new queue and leaves it in the shared persister.  (What
\* nobody refers to is garbage.)
Begin(t, r) ==
    \E q \in Queues \ Referenced :
       /\ At(t, "idle")
       /\ afterRollback' = [afterRollback EXCEPT ![PersisterOf(r)] = q]
       /\ blocks' = [p \in Queues |-> IF p \in Referenced THEN blocks[p] ELSE {}]
       /\ thread' = [thread EXCEPT ![t] = [step |-> "begun", of |-> r, read |-> database[r]]]

\* Sidekiq runs the job of a file set.
StartJob(t) ==
    \E f \in FileSets :
       /\ job[f].state = "waiting"
       /\ Begin(t, f)
       /\ job' = [job EXCEPT ![f] = [state |-> "running", attempts |-> @.attempts + 1]]
       /\ UNCHANGED <<database, solr, preserved, told, saves>>

\* A request or another job saves a work it has read.
StartSave(t) ==
    \E w \in Works :
       /\ saves[w] < MaxSaves
       /\ Begin(t, w)
       /\ saves' = [saves EXCEPT ![w] = @ + 1]
       /\ UNCHANGED <<database, solr, preserved, job, told>>

------------------------------------------------------------------------------
(* A transaction.                                                          *)

\* The accessor after_rollback of the shared persister: nil becomes an InstantQueue.
AfterRollback(p) == IF afterRollback[p] = NoQueue THEN InstantQueue ELSE afterRollback[p]

\* The queue that `with' hands to the persister of the transaction is the one it
\* finds in the shared persister.
\* DefaultDerivativeService reads the file set once it is in the transaction.
Enter(t) ==
    /\ At(t, "begun")
    /\ LET q == AfterRollback(Shared(t))
       IN  /\ afterRollback' = [afterRollback EXCEPT ![Shared(t)] = q]
           /\ thread' = [thread EXCEPT ![t] =
                            [step |-> "open", of |-> Of(t), queue |-> q,
                             read |-> IF Of(t) \in FileSets THEN database[Of(t)]
                                      ELSE thread[t].read]]
    /\ UNCHANGED <<database, solr, preserved, blocks, job, told, saves>>

Save(t) ==
    /\ At(t, "open") /\ Current(Of(t), thread[t].read)
    /\ Goto(t, "written")
    /\ UNCHANGED <<database, solr, preserved, afterRollback, blocks, job, told, saves>>

\* Array#each meets what is appended to the array it goes through.
GoesThrough(u, q) ==
    /\ At(u, "calling") \/ At(u, "writing")
    /\ thread[u].queue = q /\ thread[u].live

\* The derivatives cannot be made, the row is stale, or the old message cannot be
\* cleared: the derivative service adds a message to the queue it was given.  (An
\* InstantQueue saves it at once, in the transaction that will be rolled back.)
FailService(t) ==
    /\ At(t, "open") \/ (At(t, "written") /\ thread[t].read.error)
    /\ Of(t) \in FileSets
    /\ LET q == thread[t].queue
       IN  /\ blocks' = [r \in Queues |-> IF r = q THEN blocks[r] \cup {Of(t)} ELSE blocks[r]]
           /\ thread' = [u \in Threads |->
                 IF u = t THEN Bared(t, "raised")
                 ELSE IF q \in Queues /\ GoesThrough(u, q)
                      THEN [thread[u] EXCEPT !.left = @ \cup {Of(t)}] ELSE thread[u]]
    /\ UNCHANGED <<database, solr, preserved, afterRollback, job, told, saves>>

\* The row is stale, a handler raises, Solr does not answer or the commit is refused.
Fail(t) ==
    /\ At(t, "open") \/ At(t, "written") \/ At(t, "indexed")
    /\ thread' = [thread EXCEPT ![t] = Bared(t, "raised")]
    /\ UNCHANGED <<database, solr, preserved, afterRollback, blocks, job, told, saves>>

\* Solr is written inside the transaction, a file set not at all.
Index(t) ==
    /\ At(t, "written") /\ Of(t) \in Works
    /\ solr' = [solr EXCEPT ![Of(t)] = thread[t].read.version + 1]
    /\ Goto(t, "indexed")
    /\ UNCHANGED <<database, preserved, afterRollback, blocks, job, told, saves>>

\* Slip: Solr is written after the transaction.
ReadyUnindexed(t) == At(t, "written") \/ At(t, "indexed")

Ready(t) == At(t, "indexed") \/ (At(t, "written") /\ Of(t) \in FileSets)

\* The row that is committed: a derivative clears the error message.
Written(t) == [version |-> thread[t].read.version + 1, made |-> Of(t) \in FileSets,
               error |-> FALSE]

Commit(t) ==
    /\ Ready(t)
    /\ database' = [database EXCEPT ![Of(t)] = Written(t)]
    /\ afterRollback' = [afterRollback EXCEPT ![Shared(t)] = NoQueue]
    /\ Goto(t, "committed")
    /\ UNCHANGED <<solr, preserved, blocks, job, told, saves>>

------------------------------------------------------------------------------
(* After the commit.                                                       *)

\* Slip: PreserveResource does not read the resource again.
ReloadedNot(t) == thread[t].read.version + 1

\* The version PreserveResource queues: it reads the resource again.
Reloaded(t) == database[Of(t)].version

\* All blocks of the delayed queue run; PreserveResource is the last that matters.
RunDelayed(t) ==
    /\ At(t, "committed") /\ Of(t) \in Works
    /\ preserved' = [preserved EXCEPT ![Of(t)] = Reloaded(t)]
    /\ told' = told \ {Of(t)}
    /\ thread' = [thread EXCEPT ![t] = Idle]
    /\ UNCHANGED <<database, solr, afterRollback, blocks, job, saves>>

\* A block raises: those behind it do not run, and the error is that of the save.
RaiseDelayed(t) ==
    /\ At(t, "committed") /\ Of(t) \in Works
    /\ told' = told \cup {Of(t)}
    /\ thread' = [thread EXCEPT ![t] = Bared(t, "raised")]
    /\ UNCHANGED <<database, solr, preserved, afterRollback, blocks, job, saves>>

\* The delayed queue of the job's transaction is empty: the file set was saved
\* through a persister made from it, pyramidal_change_set_persister, whose own
\* queue nobody runs.
RunNothing(t) ==
    /\ At(t, "committed") /\ Of(t) \in FileSets
    /\ thread' = [thread EXCEPT ![t] = Bared(t, "processing")]
    /\ UNCHANGED <<database, solr, preserved, afterRollback, blocks, job, told, saves>>

\* CreateDerivativesJob reads the file set again,
ReadAgain(t) ==
    /\ At(t, "processing")
    /\ thread' = [thread EXCEPT ![t] = [step |-> "marking", of |-> Of(t), read |-> database[Of(t)]]]
    /\ UNCHANGED <<database, solr, preserved, afterRollback, blocks, job, told, saves>>

\* saves it outside a transaction of its own,
MarkProcessed(t) ==
    /\ At(t, "marking") /\ Current(Of(t), thread[t].read)
    /\ database' = [database EXCEPT ![Of(t)] = [thread[t].read EXCEPT !.version = @ + 1]]
    /\ Goto(t, "marked")
    /\ UNCHANGED <<solr, preserved, afterRollback, blocks, job, told, saves>>

\* so that the delayed blocks run at once, and ends.
PreserveFileSet(t) ==
    /\ At(t, "marked")
    /\ preserved' = [preserved EXCEPT ![Of(t)] = Reloaded(t)]
    /\ job' = [job EXCEPT ![Of(t)].state = "processed"]
    /\ thread' = [thread EXCEPT ![t] = Idle]
    /\ UNCHANGED <<database, solr, afterRollback, blocks, told, saves>>

\* Sidekiq runs a job that has raised again, a limited number of times.
Retried(j) == [j EXCEPT !.state = IF j.attempts < MaxAttempts THEN "waiting" ELSE "dead"]

\* The thread ends what it has begun with an error.
Ends(t) ==
    /\ job' = IF Of(t) \in FileSets THEN [job EXCEPT ![Of(t)] = Retried(@)] ELSE job
    /\ thread' = [thread EXCEPT ![t] = Idle]

\* The file set is stale, or a handler raises, outside of any transaction.
Interrupt(t) ==
    /\ At(t, "processing") \/ At(t, "marking") \/ At(t, "marked")
    /\ Ends(t)
    /\ UNCHANGED <<database, solr, preserved, afterRollback, blocks, told, saves>>

------------------------------------------------------------------------------
(* The rescue: after_rollback.run of what the shared persister holds by    *)
(* now.  Other threads may be running the same queue.                      *)

Rescue(t) ==
    /\ At(t, "raised")
    /\ LET q == AfterRollback(Shared(t))
       IN  /\ afterRollback' = [afterRollback EXCEPT ![Shared(t)] = q]
           /\ thread' = [thread EXCEPT ![t] =
                            [step |-> "calling", of |-> Of(t), queue |-> q, live |-> TRUE,
                             left |-> IF q \in Queues THEN blocks[q] ELSE {}]]
    /\ UNCHANGED <<database, solr, preserved, blocks, job, told, saves>>

\* A block: update_error_message reads the file set,
CallBlock(t) ==
    /\ At(t, "calling")
    /\ \E f \in thread[t].left :
          thread' = [thread EXCEPT ![t] =
                       [step |-> "writing", of |-> Of(t), queue |-> thread[t].queue,
                        left |-> thread[t].left \ {f}, live |-> thread[t].live,
                        file |-> f, read |-> database[f]]]
    /\ UNCHANGED <<database, solr, preserved, afterRollback, blocks, job, told, saves>>

WithMessage(row) == [version |-> row.version + 1, made |-> row.made, error |-> TRUE]

\* and saves it with the persister of the transaction that was rolled back: at
\* once, under the optimistic lock, and without running any delayed queue.
SaveMessage(t) ==
    /\ At(t, "writing") /\ Current(thread[t].file, thread[t].read)
    /\ database' = [database EXCEPT ![thread[t].file] = WithMessage(thread[t].read)]
    /\ thread' = [thread EXCEPT ![t] =
                     [step |-> "calling", of |-> Of(t), queue |-> thread[t].queue,
                      left |-> thread[t].left, live |-> thread[t].live]]
    /\ UNCHANGED <<solr, preserved, afterRollback, blocks, job, told, saves>>

\* A block raises: the file set is stale, or cannot be saved.  The blocks behind it
\* are not called, and neither the queue nor the shared persister is cleared.
BlockRaises(t) ==
    /\ At(t, "writing")
    /\ Ends(t)
    /\ UNCHANGED <<database, solr, preserved, afterRollback, blocks, told, saves>>

\* All blocks were called: the queue gets a new array, and a thread that goes
\* through the old one goes on with that.
Clear(t) ==
    /\ At(t, "calling") /\ thread[t].left = {}
    /\ LET q == thread[t].queue
       IN  /\ blocks' = [r \in Queues |-> IF r = q THEN {} ELSE blocks[r]]
           /\ thread' = [u \in Threads |->
                 IF u = t THEN Bared(t, "rescued")
                 ELSE IF GoesThrough(u, q) THEN [thread[u] EXCEPT !.live = FALSE]
                      ELSE thread[u]]
    /\ UNCHANGED <<database, solr, preserved, afterRollback, job, told, saves>>

Raise(t) ==
    /\ At(t, "rescued")
    /\ afterRollback' = [afterRollback EXCEPT ![Shared(t)] = NoQueue]
    /\ Ends(t)
    /\ UNCHANGED <<database, solr, preserved, blocks, told, saves>>

------------------------------------------------------------------------------
Step(t) == \/ StartJob(t) \/ StartSave(t) \/ Enter(t) \/ Save(t) \/ FailService(t)
           \/ Fail(t) \/ Index(t) \/ Commit(t) \/ RunDelayed(t) \/ RaiseDelayed(t)
           \/ RunNothing(t) \/ ReadAgain(t) \/ MarkProcessed(t) \/ PreserveFileSet(t)
           \/ Interrupt(t) \/ Rescue(t) \/ CallBlock(t) \/ SaveMessage(t)
           \/ BlockRaises(t) \/ Clear(t) \/ Raise(t)

\* Nothing is left to do.
Finished == /\ thread = [t \in Threads |-> Idle]
            /\ \A f \in FileSets : job[f].state \in {"processed", "dead"}
            /\ \A w \in Works : saves[w] = MaxSaves
            /\ UNCHANGED vars

Next == (\E t \in Threads : Step(t)) \/ Finished

Spec == Init /\ [][Next]_vars

------------------------------------------------------------------------------
(* Properties.                                                             *)

\* Solr never shows an older version than the database has: as Solr is written
\* while the row is locked, the saves of two threads reach both in one order.
\* (It may show a newer one, when the commit fails.)
IndexNotBehind == \A w \in Works : solr[w] >= database[w].version

\* What was committed is preserved: the last version of a work has been handed to
\* PreserveResourceJob, or a thread is about to do so, or somebody who saved it
\* has got an error.  A file set that is processed has been handed over as it is,
\* unless an error message has come since: nobody hands that over.
PreservedOrTold ==
    /\ \A w \in Works : \/ preserved[w] = database[w].version
                        \/ w \in told
                        \/ \E t \in Threads : At(t, "committed") /\ Of(t) = w
    /\ \A f \in FileSets : job[f].state = "processed" =>
                              preserved[f] = database[f].version \/ database[f].error

\* A message that comes late, from an earlier attempt or from another thread that
\* still goes through the queue of both, never undoes the derivatives that have
\* been made since.
DerivativesKept == \A f \in FileSets : job[f].state = "processed" => database[f].made
=============================================================================
