-------------------------- MODULE BufferedSaveProofs --------------------------
(***************************************************************************)
(* What shared persisters keep for any number of threads, file sets and    *)
(* works: Solr does not fall behind the database, a committed save is      *)
(* preserved or its saver is told, and no late error message undoes the    *)
(* derivatives of a file set.                                              *)
(***************************************************************************)
EXTENDS BufferedSave, TLAPS

\* A row that a thread holds is the one it has read, no two threads hold the same
\* row, and Solr has what an indexed row is about to become.
Locks ==
    /\ \A t \in Threads, r \in Resources :
          Holds(t, r) => database[r].version = thread[t].read.version
    /\ \A t, u \in Threads, r \in Resources : Holds(t, r) /\ Holds(u, r) => t = u
    /\ \A t \in Threads : At(t, "indexed") =>
          Of(t) \in Works /\ solr[Of(t)] = thread[t].read.version + 1

\* A file set that a block has read is still the same, or has a newer version.
ReadsAhead(t) ==
    At(t, "writing") =>
       LET row == thread[t].read
           now == database[thread[t].file]
       IN  row.version <= now.version /\ (row.version = now.version => row = now)

\* One thread at most runs the job of a file set; from its commit on the
\* derivatives are made.
RunsOneJob(t) ==
    /\ ~At(t, "idle") /\ Of(t) \in FileSets => job[Of(t)].state = "running"
    /\ At(t, "processing") \/ At(t, "marking") \/ At(t, "marked") => Of(t) \in FileSets

SameJob(t, u) == /\ ~At(t, "idle") /\ ~At(u, "idle")
                 /\ Of(t) = Of(u) /\ Of(t) \in FileSets

HasMade(t) ==
    /\ At(t, "committed") \/ At(t, "processing") \/ At(t, "marking") \/ At(t, "marked") =>
          (Of(t) \in FileSets => database[Of(t)].made)
    /\ At(t, "marking") => thread[t].read.made

JobsRun == /\ \A t \in Threads : RunsOneJob(t) /\ HasMade(t) /\ ReadsAhead(t)
           /\ \A t, u \in Threads : SameJob(t, u) => t = u

\* A file set that is processed keeps what it was preserved with, or has got a
\* message since; its derivatives stay.
FileSetsKept ==
    \A f \in FileSets : job[f].state = "processed" =>
       /\ preserved[f] = database[f].version \/ database[f].error
       /\ database[f].made

WorksPreserved ==
    \A w \in Works : \/ preserved[w] = database[w].version
                     \/ w \in told
                     \/ \E t \in Threads : At(t, "committed") /\ Of(t) = w

------------------------------------------------------------------------------
InTransaction == {"open", "written", "indexed", "committed"}

LEMMA Kinds ==
    ASSUME TypeOK, NEW t \in Threads
    PROVE  /\ At(t, "idle") <=> thread[t] = Idle
           /\ At(t, "processing") \/ At(t, "raised") \/ At(t, "rescued") <=> thread[t] \in Bare
           /\ At(t, "begun") \/ At(t, "marking") \/ At(t, "marked") <=> thread[t] \in Reader
           /\ thread[t].step \in InTransaction <=> thread[t] \in Open
           /\ At(t, "calling") <=> thread[t] \in Calling
           /\ At(t, "writing") <=> thread[t] \in Writing
           /\ ~At(t, "idle") => Of(t) \in Resources /\ Shared(t) \in Persisters
<1>1. thread[t] \in ThreadStates
  BY DEF TypeOK
<1>2. ~At(t, "idle") => Of(t) \in Resources
  BY <1>1 DEF ThreadStates, Idle, Bare, Reader, Open, Calling, Writing, At, Of
<1> QED BY <1>1, <1>2 DEF ThreadStates, Idle, Bare, Reader, Open, Calling, Writing, At,
              InTransaction, Shared, PersisterOf, Persisters

\* How a step of one thread may change what another thread knows.
Alike(x, y) ==
    \/ x = y
    \/ x \in Calling /\ y \in Calling /\ x.of = y.of
    \/ x \in Writing /\ y \in Writing /\ x.of = y.of /\ x.file = y.file /\ x.read = y.read

\* Only a thread that goes through a queue is disturbed by the others.
LEMMA Disturbed ==
    ASSUME TypeOK, NEW u \in Threads, NEW q \in Queues \cup {InstantQueue}, GoesThrough(u, q)
    PROVE  /\ \A f \in FileSets : Alike(thread[u], [thread[u] EXCEPT !.left = @ \cup {f}])
           /\ Alike(thread[u], [thread[u] EXCEPT !.live = FALSE])
<1>1. thread[u] \in Calling \/ thread[u] \in Writing
  BY Kinds DEF GoesThrough
<1>2. CASE thread[u] \in Calling
  BY <1>2 DEF Alike, Calling
<1>3. CASE thread[u] \in Writing
  BY <1>3 DEF Alike, Writing
<1> QED BY <1>1, <1>2, <1>3

LEMMA AlikeStates ==
    ASSUME NEW x \in ThreadStates, NEW y, Alike(x, y)
    PROVE  y \in ThreadStates /\ y.step = x.step /\ (x # Idle => y.of = x.of)
BY DEF Alike, ThreadStates, Idle, Calling, Writing

\* Begin, whoever begins.
LEMMA BeginTypes ==
    ASSUME TypeOK, NEW t \in Threads, NEW r \in Resources, Begin(t, r)
    PROVE  /\ afterRollback' \in [Persisters -> Queues \cup {NoQueue, InstantQueue}]
           /\ blocks' \in [Queues -> SUBSET FileSets]
           /\ thread'[t] \in Reader /\ thread'[t].of = r /\ thread'[t].step = "begun"
           /\ \A u \in Threads \ {t} : thread'[u] = thread[u]
           /\ thread' = [thread EXCEPT ![t] = thread'[t]]
           /\ At(t, "idle")
<1>1. PICK q \in Queues :
         /\ afterRollback' = [afterRollback EXCEPT ![PersisterOf(r)] = q]
         /\ blocks' = [p \in Queues |-> IF p \in Referenced THEN blocks[p] ELSE {}]
         /\ thread' = [thread EXCEPT ![t] = [step |-> "begun", of |-> r, read |-> database[r]]]
         /\ At(t, "idle")
  BY DEF Begin
<1>2. [step |-> "begun", of |-> r, read |-> database[r]] \in Reader
  BY DEF Reader, TypeOK
<1>3. PersisterOf(r) \in Persisters
  BY DEF PersisterOf, Persisters
<1> QED BY <1>1, <1>2, <1>3 DEF TypeOK

LEMMA Found ==
    ASSUME TypeOK, NEW p \in Persisters
    PROVE  AfterRollback(p) \in Queues \cup {InstantQueue}
BY DEF AfterRollback, TypeOK

\* Where a step takes its own thread.
LEMMA Own ==
    ASSUME TypeOK, NEW t \in Threads, Step(t)
    PROVE  /\ thread'[t] \in ThreadStates
           /\ At(t, "idle") => thread'[t].step = "begun"
           /\ ~At(t, "idle") /\ thread'[t].step # "idle" => thread'[t].of = Of(t)
<1>1. CASE StartJob(t) \/ StartSave(t)
  <2>1. \E r \in Resources : Begin(t, r)
    BY <1>1 DEF StartJob, StartSave, Resources
  <2> QED BY <2>1, BeginTypes DEF ThreadStates
<1>2. CASE Enter(t)
  <2>1. thread[t] \in Reader /\ ~At(t, "idle")
    BY <1>2, Kinds DEF Enter, At
  <2> DEFINE q == AfterRollback(Shared(t))
             new == [step |-> "open", of |-> Of(t), queue |-> q,
                     read |-> IF Of(t) \in FileSets THEN database[Of(t)] ELSE thread[t].read]
  <2>2. q \in Queues \cup {InstantQueue} /\ Of(t) \in Resources
    BY <2>1, Kinds, Found
  <2>3. new \in Open
    BY <2>1, <2>2 DEF TypeOK, Open, Reader
  <2>4. thread' = [thread EXCEPT ![t] = new]
    BY <1>2 DEF Enter
  <2> QED BY <2>1, <2>3, <2>4 DEF TypeOK, ThreadStates
<1>3. CASE Save(t) \/ Index(t) \/ Commit(t)
  <2>1. thread[t] \in Open /\ \E s \in InTransaction : Goto(t, s)
    BY <1>3, Kinds DEF Save, Index, Commit, Ready, At, InTransaction
  <2> QED BY <2>1 DEF TypeOK, Goto, Open, ThreadStates, InTransaction, Of, At
<1>4. CASE FailService(t) \/ Fail(t) \/ RaiseDelayed(t) \/ RunNothing(t) \/ Clear(t)
  <2>1. ~At(t, "idle")
    BY <1>4 DEF FailService, Fail, RaiseDelayed, RunNothing, Clear, At
  <2>2. \E s \in {"raised", "processing", "rescued"} : thread'[t] = Bared(t, s)
    BY <1>4 DEF FailService, Fail, RaiseDelayed, RunNothing, Clear, TypeOK
  <2>3. Of(t) \in Resources
    BY <2>1, Kinds
  <2> QED BY <2>1, <2>2, <2>3 DEF Bared, Bare, ThreadStates
<1>5. CASE ReadAgain(t)
  <2>1. ~At(t, "idle") /\ Of(t) \in Resources
    BY <1>5, Kinds DEF ReadAgain, At
  <2>2. thread'[t] = [step |-> "marking", of |-> Of(t), read |-> database[Of(t)]]
    BY <1>5 DEF ReadAgain, TypeOK
  <2> QED BY <2>1, <2>2 DEF Reader, ThreadStates, TypeOK
<1>6. CASE MarkProcessed(t)
  <2>1. thread[t] \in Reader /\ Goto(t, "marked")
    BY <1>6, Kinds DEF MarkProcessed
  <2> QED BY <2>1, <1>6 DEF TypeOK, Goto, Reader, ThreadStates, MarkProcessed, At, Of
<1>7. CASE RunDelayed(t) \/ PreserveFileSet(t) \/ Interrupt(t) \/ BlockRaises(t) \/ Raise(t)
  <2>1. thread'[t] = Idle /\ ~At(t, "idle")
    BY <1>7 DEF RunDelayed, PreserveFileSet, Interrupt, BlockRaises, Raise, Ends, TypeOK, At
  <2> QED BY <2>1 DEF Idle, ThreadStates
<1>8. CASE Rescue(t)
  <2>1. ~At(t, "idle") /\ Of(t) \in Resources /\ AfterRollback(Shared(t)) \in Queues \cup {InstantQueue}
    BY <1>8, Kinds, Found DEF Rescue, At
  <2> DEFINE q == AfterRollback(Shared(t))
  <2>2. thread'[t] = [step |-> "calling", of |-> Of(t), queue |-> q, live |-> TRUE,
                      left |-> IF q \in Queues THEN blocks[q] ELSE {}]
    BY <1>8 DEF Rescue, TypeOK
  <2>3. (IF q \in Queues THEN blocks[q] ELSE {}) \in SUBSET FileSets
    BY DEF TypeOK
  <2> HIDE DEF q
  <2>4. thread'[t] \in Calling
    BY <2>1, <2>2, <2>3 DEF Calling, q
  <2> QED BY <2>1, <2>2, <2>4 DEF ThreadStates
<1>9. CASE CallBlock(t)
  <2>1. thread[t] \in Calling /\ ~At(t, "idle")
    BY <1>9, Kinds DEF CallBlock, At
  <2>2. PICK f \in thread[t].left :
           thread'[t] = [step |-> "writing", of |-> Of(t), queue |-> thread[t].queue,
                         left |-> thread[t].left \ {f}, live |-> thread[t].live,
                         file |-> f, read |-> database[f]]
    BY <1>9 DEF CallBlock, TypeOK
  <2>3. database[f] \in Rows /\ f \in FileSets
    BY <2>1 DEF Calling, TypeOK, Resources
  <2>4. thread'[t] \in Writing
    BY <2>1, <2>2, <2>3 DEF Calling, Writing, Of
  <2> QED BY <2>1, <2>2, <2>4 DEF ThreadStates
<1>10. CASE SaveMessage(t)
  <2>1. thread[t] \in Writing /\ ~At(t, "idle")
    BY <1>10, Kinds DEF SaveMessage, At
  <2>2. thread'[t] = [step |-> "calling", of |-> Of(t), queue |-> thread[t].queue,
                      left |-> thread[t].left, live |-> thread[t].live]
    BY <1>10 DEF SaveMessage, TypeOK
  <2>3. thread'[t] \in Calling
    BY <2>1, <2>2 DEF Calling, Writing, Of
  <2> QED BY <2>1, <2>2, <2>3 DEF ThreadStates
<1> QED BY <1>1, <1>2, <1>3, <1>4, <1>5, <1>6, <1>7, <1>8, <1>9, <1>10 DEF Step

\* What a step makes of the other threads.
LEMMA Others ==
    ASSUME TypeOK, NEW t \in Threads, Step(t), NEW u \in Threads \ {t}
    PROVE  Alike(thread[u], thread'[u])
<1>1. CASE StartJob(t) \/ StartSave(t)
  <2>1. \E r \in Resources : Begin(t, r)
    BY <1>1 DEF StartJob, StartSave, Resources
  <2> QED BY <2>1, BeginTypes DEF Alike
<1>2. CASE FailService(t)
  <2>1. thread[t] \in Open /\ Of(t) \in FileSets
    BY <1>2, Kinds DEF FailService, At, InTransaction
  <2>2. thread[t].queue \in Queues \cup {InstantQueue}
    BY <2>1 DEF Open
  <2>3. \/ thread'[u] = thread[u]
        \/ /\ GoesThrough(u, thread[t].queue)
           /\ thread'[u] = [thread[u] EXCEPT !.left = @ \cup {Of(t)}]
    BY <1>2 DEF FailService
  <2>4. GoesThrough(u, thread[t].queue) =>
           Alike(thread[u], [thread[u] EXCEPT !.left = @ \cup {Of(t)}])
    BY <2>1, <2>2, Disturbed
  <2> QED BY <2>3, <2>4 DEF Alike
<1>3. CASE Clear(t)
  <2>1. thread[t] \in Calling
    BY <1>3, Kinds DEF Clear
  <2>2. thread[t].queue \in Queues \cup {InstantQueue}
    BY <2>1 DEF Calling
  <2>3. \/ thread'[u] = thread[u]
        \/ /\ GoesThrough(u, thread[t].queue)
           /\ thread'[u] = [thread[u] EXCEPT !.live = FALSE]
    BY <1>3 DEF Clear
  <2> QED BY <2>2, <2>3, Disturbed DEF Alike
<1>4. CASE ~StartJob(t) /\ ~StartSave(t) /\ ~FailService(t) /\ ~Clear(t)
  <2>1. thread'[u] = thread[u]
    BY <1>4 DEF Step, Enter, Save, Fail, Index, Commit, RunDelayed, RaiseDelayed, RunNothing,
                ReadAgain, MarkProcessed, PreserveFileSet, Interrupt, Ends, Rescue, CallBlock,
                SaveMessage, BlockRaises, Raise, Goto, TypeOK
  <2> QED BY <2>1 DEF Alike
<1> QED BY <1>1, <1>2, <1>3, <1>4

------------------------------------------------------------------------------
(* Types.                                                                  *)

LEMMA InitTypes == Init => TypeOK
BY BufferedAssumption DEF Init, TypeOK, Rows, Jobs, Persisters, Resources, Idle, ThreadStates

\* The function of the threads keeps its domain.
LEMMA ThreadTypes ==
    ASSUME TypeOK, NEW t \in Threads, Step(t)
    PROVE  thread' \in [Threads -> ThreadStates]
<1>1. \A u \in Threads : thread'[u] \in ThreadStates
  <2>1. \A u \in Threads : thread[u] \in ThreadStates
    BY DEF TypeOK
  <2> QED BY <2>1, Own, Others, AlikeStates
<1>2. thread' = [u \in Threads |-> thread'[u]]
  <2>1. CASE StartJob(t) \/ StartSave(t)
    <3>1. \E r \in Resources : Begin(t, r)
      BY <2>1 DEF StartJob, StartSave, Resources
    <3> QED BY <3>1, BeginTypes DEF TypeOK
  <2>2. CASE FailService(t) \/ Clear(t)
    BY <2>2 DEF FailService, Clear
  <2>3. CASE ~StartJob(t) /\ ~StartSave(t) /\ ~FailService(t) /\ ~Clear(t)
    BY <2>3 DEF Step, Enter, Save, Fail, Index, Commit, RunDelayed, RaiseDelayed, RunNothing,
                ReadAgain, MarkProcessed, PreserveFileSet, Interrupt, Ends, Rescue, CallBlock,
                SaveMessage, BlockRaises, Raise, Goto, TypeOK
  <2> QED BY <2>1, <2>2, <2>3
<1> QED BY <1>1, <1>2

\* What ends, and how a job goes on.
LEMMA JobTypes ==
    ASSUME TypeOK, NEW t \in Threads, Step(t)
    PROVE  job' \in [FileSets -> Jobs]
<1>1. CASE StartJob(t)
  BY <1>1 DEF StartJob, TypeOK, Jobs
<1>2. CASE PreserveFileSet(t)
  BY <1>2 DEF PreserveFileSet, TypeOK, Jobs
<1>3. CASE Interrupt(t) \/ BlockRaises(t) \/ Raise(t)
  BY <1>3 DEF Interrupt, BlockRaises, Raise, Ends, Retried, TypeOK, Jobs
<1>4. CASE ~StartJob(t) /\ ~PreserveFileSet(t) /\ ~Interrupt(t) /\ ~BlockRaises(t) /\ ~Raise(t)
  BY <1>4 DEF Step, StartSave, Enter, Save, FailService, Fail, Index, Commit, RunDelayed,
              RaiseDelayed, RunNothing, ReadAgain, MarkProcessed, Rescue, CallBlock, SaveMessage,
              Clear, TypeOK
<1> QED BY <1>1, <1>2, <1>3, <1>4

\* The row a step writes, if any.
Target(t) == IF At(t, "writing") THEN thread[t].file ELSE Of(t)
NewRow(t) == IF At(t, "writing") THEN WithMessage(thread[t].read)
             ELSE IF At(t, "marking") THEN [thread[t].read EXCEPT !.version = @ + 1]
             ELSE Written(t)

LEMMA Writes ==
    ASSUME TypeOK, NEW t \in Threads, Step(t)
    PROVE  \/ UNCHANGED database
           \/ /\ Commit(t) \/ MarkProcessed(t) \/ SaveMessage(t)
              /\ Target(t) \in Resources /\ thread[t].read \in Rows /\ NewRow(t) \in Rows
              /\ NewRow(t).version = thread[t].read.version + 1
              /\ database' = [database EXCEPT ![Target(t)] = NewRow(t)]
<1>1. CASE Commit(t)
  <2>1. thread[t] \in Open /\ Of(t) \in Resources /\ ~At(t, "writing") /\ ~At(t, "marking")
    BY <1>1, Kinds DEF Commit, Ready, At, InTransaction
  <2>2. thread[t].read \in Rows
    BY <2>1 DEF Open
  <2> QED BY <1>1, <2>1, <2>2 DEF Commit, Target, NewRow, Written, Rows
<1>2. CASE MarkProcessed(t)
  <2>1. thread[t] \in Reader /\ Of(t) \in Resources /\ ~At(t, "writing") /\ At(t, "marking")
    BY <1>2, Kinds DEF MarkProcessed, At
  <2>2. thread[t].read \in Rows
    BY <2>1 DEF Reader
  <2> QED BY <1>2, <2>1, <2>2 DEF MarkProcessed, Target, NewRow, Rows
<1>3. CASE SaveMessage(t)
  <2>1. thread[t] \in Writing /\ At(t, "writing")
    BY <1>3, Kinds DEF SaveMessage, At
  <2>2. thread[t].read \in Rows /\ thread[t].file \in Resources
    BY <2>1 DEF Writing, Resources
  <2> QED BY <1>3, <2>1, <2>2 DEF SaveMessage, Target, NewRow, WithMessage, Rows
<1>4. CASE ~Commit(t) /\ ~MarkProcessed(t) /\ ~SaveMessage(t)
  BY <1>4 DEF Step, StartJob, StartSave, Enter, Save, FailService, Fail, Index, RunDelayed,
              RaiseDelayed, RunNothing, ReadAgain, PreserveFileSet, Interrupt, Rescue, CallBlock,
              BlockRaises, Clear, Raise
<1> QED BY <1>1, <1>2, <1>3, <1>4

LEMMA StepTypes ==
    ASSUME TypeOK, NEW t \in Threads, Step(t)
    PROVE  TypeOK'
<1>1. database' \in [Resources -> Rows]
  BY Writes DEF TypeOK
<1>2. thread' \in [Threads -> ThreadStates] /\ job' \in [FileSets -> Jobs]
  BY ThreadTypes, JobTypes
<1>3. solr' \in [Works -> Nat]
  <2>1. CASE Index(t)
    <3>1. thread[t] \in Open
      BY <2>1, Kinds DEF Index, At, InTransaction
    <3> QED BY <2>1, <3>1 DEF Index, TypeOK, Open, Rows
  <2>2. CASE ~Index(t)
    BY <2>2 DEF Step, StartJob, StartSave, Enter, Save, FailService, Fail, Commit, RunDelayed,
              RaiseDelayed, RunNothing, ReadAgain, MarkProcessed, PreserveFileSet, Interrupt,
              Rescue, CallBlock, SaveMessage, BlockRaises, Clear, Raise, TypeOK
  <2> QED BY <2>1, <2>2
<1>4. preserved' \in [Resources -> Nat]
  <2>1. CASE RunDelayed(t) \/ PreserveFileSet(t)
    <3>1. Of(t) \in Resources
      BY <2>1, Kinds DEF RunDelayed, PreserveFileSet, At
    <3> QED BY <2>1, <3>1 DEF RunDelayed, PreserveFileSet, Reloaded, TypeOK, Rows
  <2>2. CASE ~RunDelayed(t) /\ ~PreserveFileSet(t)
    BY <2>2 DEF Step, StartJob, StartSave, Enter, Save, FailService, Fail, Index, Commit,
              RaiseDelayed, RunNothing, ReadAgain, MarkProcessed, Interrupt,
              Rescue, CallBlock, SaveMessage, BlockRaises, Clear, Raise, TypeOK
  <2> QED BY <2>1, <2>2
<1>5. /\ afterRollback' \in [Persisters -> Queues \cup {NoQueue, InstantQueue}]
      /\ blocks' \in [Queues -> SUBSET FileSets]
  <2>1. CASE StartJob(t) \/ StartSave(t)
    <3>1. \E r \in Resources : Begin(t, r)
      BY <2>1 DEF StartJob, StartSave, Resources
    <3> QED BY <3>1, BeginTypes
  <2>2. CASE Enter(t) \/ Rescue(t)
    <3>1. AfterRollback(Shared(t)) \in Queues \cup {InstantQueue}
      BY <2>2, Kinds, Found DEF Enter, Rescue, At
    <3> QED BY <2>2, <3>1 DEF Enter, Rescue, TypeOK
  <2>3. CASE FailService(t) \/ Clear(t)
    BY <2>3 DEF FailService, Clear, TypeOK
  <2>4. CASE ~StartJob(t) /\ ~StartSave(t) /\ ~Enter(t) /\ ~Rescue(t) /\ ~FailService(t) /\ ~Clear(t)
    BY <2>4 DEF Step, Save, Fail, Index, Commit, RunDelayed, RaiseDelayed, RunNothing, ReadAgain,
              MarkProcessed, PreserveFileSet, Interrupt, CallBlock, SaveMessage, BlockRaises,
              Raise, TypeOK
  <2> QED BY <2>1, <2>2, <2>3, <2>4
<1>6. told' \subseteq Works
  BY DEF Step, StartJob, StartSave, Enter, Save, FailService, Fail, Index, Commit, RunDelayed,
         RaiseDelayed, RunNothing, ReadAgain, MarkProcessed, PreserveFileSet, Interrupt,
         Rescue, CallBlock, SaveMessage, BlockRaises, Clear, Raise, TypeOK
<1>7. saves' \in [Works -> 0 .. MaxSaves]
  <2>1. CASE StartSave(t)
    BY <2>1, BufferedAssumption DEF StartSave, TypeOK
  <2>2. CASE ~StartSave(t)
    BY <2>2 DEF Step, StartJob, Enter, Save, FailService, Fail, Index, Commit, RunDelayed,
         RaiseDelayed, RunNothing, ReadAgain, MarkProcessed, PreserveFileSet, Interrupt,
         Rescue, CallBlock, SaveMessage, BlockRaises, Clear, Raise, TypeOK
  <2> QED BY <2>1, <2>2
<1> QED BY <1>1, <1>2, <1>3, <1>4, <1>5, <1>6, <1>7 DEF TypeOK

------------------------------------------------------------------------------
(* Rows and Solr.                                                          *)

\* A thread that goes through no queue is left alone by the others.
LEMMA LeftAlone ==
    ASSUME TypeOK, NEW t \in Threads, Step(t), NEW u \in Threads \ {t}
    PROVE  /\ thread'[u].step = thread[u].step
           /\ ~At(u, "idle") => thread'[u].of = thread[u].of
           /\ ~At(u, "calling") /\ ~At(u, "writing") => thread'[u] = thread[u]
           /\ At(u, "writing") => /\ thread'[u].file = thread[u].file
                                  /\ thread'[u].read = thread[u].read
<1>1. Alike(thread[u], thread'[u])
  BY Others
<1>2. thread[u] \in ThreadStates
  BY DEF TypeOK
<1>3. /\ thread'[u].step = thread[u].step
      /\ ~At(u, "idle") => thread'[u].of = thread[u].of
  BY <1>1, <1>2, AlikeStates, Kinds
<1> QED BY <1>1, <1>3, Kinds DEF Alike, At, Calling, Writing

\* Nobody writes a row that another thread holds.
LEMMA HeldRows ==
    ASSUME TypeOK, Locks, NEW t \in Threads, Step(t), NEW u \in Threads \ {t},
           NEW r \in Resources, Holds(u, r)
    PROVE  database'[r] = database[r]
<1>1. CASE UNCHANGED database
  BY <1>1
<1>2. CASE Commit(t) /\ database' = [database EXCEPT ![Target(t)] = NewRow(t)]
  <2>1. Target(t) = Of(t) /\ Holds(t, Of(t))
    BY <1>2 DEF Commit, Ready, Target, At, Holds
  <2>2. r # Of(t)
    BY <2>1 DEF Locks
  <2> QED BY <1>2, <2>1, <2>2 DEF TypeOK
<1>3. CASE (MarkProcessed(t) \/ SaveMessage(t)) /\ database' = [database EXCEPT ![Target(t)] = NewRow(t)]
  <2>1. ~Locked(Target(t))
    BY <1>3 DEF MarkProcessed, SaveMessage, Target, Current, At
  <2> QED BY <1>3, <2>1 DEF Locked, TypeOK
<1> QED BY <1>1, <1>2, <1>3, Writes

LEMMA StepLocks ==
    ASSUME TypeOK, Locks, JobsRun, IndexNotBehind, NEW t \in Threads, Step(t)
    PROVE  Locks' /\ IndexNotBehind'
<1>1. \A u \in Threads \ {t}, r \in Resources : Holds(u, r)' =>
         Holds(u, r) /\ thread'[u] = thread[u] /\ database'[r] = database[r]
  <2>1. \A u \in Threads \ {t}, r \in Resources : Holds(u, r)' =>
           ~At(u, "calling") /\ ~At(u, "writing")
    BY LeftAlone DEF Holds, At
  <2>2. \A u \in Threads \ {t}, r \in Resources : Holds(u, r)' =>
           Holds(u, r) /\ thread'[u] = thread[u]
    BY <2>1, LeftAlone DEF Holds, At, Of
  <2> QED BY <2>2, HeldRows
<1>2. \A u \in Threads \ {t} : At(u, "indexed")' => At(u, "indexed") /\ thread'[u] = thread[u]
  BY LeftAlone DEF At
<1>3. CASE Save(t)
  <2>1. /\ thread[t] \in Open /\ Of(t) \in Resources /\ ~Locked(Of(t))
        /\ database[Of(t)].version = thread[t].read.version
        /\ UNCHANGED <<database, solr>>
        /\ thread'[t].step = "written" /\ thread'[t].of = Of(t)
        /\ thread'[t].read = thread[t].read
    BY <1>3, Kinds DEF Save, At, InTransaction, Current, Goto, Open, TypeOK, Of
  <2>2. \A r \in Resources : Holds(t, r)' => r = Of(t)
    BY <2>1 DEF Holds, Of
  <2>3. \A u \in Threads, r \in Resources :
           Holds(u, r)' => database'[r].version = thread'[u].read.version
    BY <1>1, <2>1, <2>2 DEF Locks
  <2>4. \A u, v \in Threads, r \in Resources : Holds(u, r)' /\ Holds(v, r)' => u = v
    BY <1>1, <2>1, <2>2 DEF Locks, Locked
  <2>5. \A u \in Threads : At(u, "indexed")' =>
           (Of(u) \in Works /\ solr[Of(u)] = thread[u].read.version + 1)'
    BY <1>2, <2>1 DEF Locks, Of, At
  <2> QED BY <2>1, <2>3, <2>4, <2>5 DEF Locks, IndexNotBehind
<1>4. CASE Index(t)
  <2>1. /\ thread[t] \in Open /\ Of(t) \in Works /\ Of(t) \in Resources /\ Holds(t, Of(t))
        /\ solr' = [solr EXCEPT ![Of(t)] = thread[t].read.version + 1]
        /\ database' = database
        /\ thread'[t].step = "indexed" /\ thread'[t].of = Of(t)
        /\ thread'[t].read = thread[t].read
    BY <1>4, Kinds DEF Index, At, InTransaction, Holds, Goto, Open, TypeOK, Of
  <2>2. \A u \in Threads, r \in Resources : Holds(u, r)' =>
           Holds(u, r) /\ thread'[u].read = thread[u].read
    BY <1>1, <2>1 DEF Holds, Of
  <2>3. \A u \in Threads \ {t} : At(u, "indexed")' =>
           /\ At(u, "indexed") /\ Of(u)' = Of(u) /\ Of(u) # Of(t)
           /\ thread'[u].read = thread[u].read
    BY <1>2, <2>1 DEF At, Locks, Holds, Of
  <2>4. \A u \in Threads, r \in Resources :
           Holds(u, r)' => database'[r].version = thread'[u].read.version
    BY <2>1, <2>2 DEF Locks
  <2>5. \A u, v \in Threads, r \in Resources : Holds(u, r)' /\ Holds(v, r)' => u = v
    BY <2>2 DEF Locks
  <2>6. \A u \in Threads : At(u, "indexed")' =>
           (Of(u) \in Works /\ solr[Of(u)] = thread[u].read.version + 1)'
    BY <2>1, <2>3 DEF Locks, TypeOK, Of
  <2>7. database[Of(t)].version = thread[t].read.version /\ database[Of(t)].version \in Nat
    BY <2>1 DEF Locks, TypeOK, Rows
  <2>8. IndexNotBehind'
    BY <2>1, <2>7 DEF IndexNotBehind, TypeOK
  <2> QED BY <2>4, <2>5, <2>6, <2>8 DEF Locks
<1>5. CASE ~Save(t) /\ ~Index(t)
  <2>1. thread'[t].step \notin {"written", "indexed"} /\ solr' = solr
    <3>1. CASE StartJob(t) \/ StartSave(t)
      <4>1. \E r \in Resources : Begin(t, r)
        BY <3>1 DEF StartJob, StartSave, Resources
      <4> QED BY <3>1, <4>1, BeginTypes DEF StartJob, StartSave
    <3>2. CASE Commit(t) \/ MarkProcessed(t)
      <4>1. thread[t] \in Open \/ thread[t] \in Reader
        BY <3>2, Kinds DEF Commit, Ready, MarkProcessed, At, InTransaction
      <4> QED BY <3>2, <4>1 DEF Commit, MarkProcessed, Goto, TypeOK, Open, Reader
    <3>3. CASE ~StartJob(t) /\ ~StartSave(t) /\ ~Commit(t) /\ ~MarkProcessed(t)
      BY <1>5, <3>3 DEF Step, Enter, FailService, Fail, RunDelayed, RaiseDelayed, RunNothing,
         ReadAgain, PreserveFileSet, Interrupt, Ends, Rescue, CallBlock, SaveMessage,
         BlockRaises, Clear, Raise, Bared, Idle, TypeOK
    <3> QED BY <3>1, <3>2, <3>3
  <2>2. \A u \in Threads, r \in Resources : Holds(u, r)' =>
           /\ u # t /\ Holds(u, r) /\ thread'[u] = thread[u] /\ database'[r] = database[r]
    BY <1>1, <2>1 DEF Holds, At
  <2>3. \A u \in Threads, r \in Resources :
           Holds(u, r)' => database'[r].version = thread'[u].read.version
    BY <2>2 DEF Locks
  <2>4. \A u, v \in Threads, r \in Resources : Holds(u, r)' /\ Holds(v, r)' => u = v
    BY <2>2 DEF Locks
  <2>5. \A u \in Threads : At(u, "indexed")' =>
           (Of(u) \in Works /\ solr[Of(u)] = thread[u].read.version + 1)'
    BY <1>2, <2>1 DEF Locks, Of, At
  <2>6. ASSUME NEW w \in Works PROVE solr'[w] >= database'[w].version
    <3>1. CASE database'[w] = database[w]
      BY <2>1, <3>1 DEF IndexNotBehind
    <3>2. CASE database'[w] # database[w]
      <4>1. /\ Commit(t) \/ MarkProcessed(t) \/ SaveMessage(t)
            /\ Target(t) = w /\ thread[t].read \in Rows
            /\ database'[w].version = thread[t].read.version + 1
        BY <3>2, Writes DEF TypeOK, Resources
      <4>2. ~SaveMessage(t)
        <5>1. At(t, "writing") => thread[t].file \in FileSets
          BY Kinds DEF Writing
        <5> QED BY <4>1, <5>1, BufferedAssumption DEF SaveMessage, Target
      <4>3. CASE MarkProcessed(t)
        <5>1. Of(t) = w /\ At(t, "marking")
          BY <4>1, <4>3 DEF MarkProcessed, Target, At
        <5> QED BY <5>1, BufferedAssumption DEF JobsRun, RunsOneJob
      <4>4. CASE Commit(t)
        <5>1. Of(t) = w /\ At(t, "indexed")
          BY <4>1, <4>4, BufferedAssumption DEF Commit, Ready, Target, At
        <5> QED BY <2>1, <4>1, <5>1 DEF Locks, Rows
      <4> QED BY <4>1, <4>2, <4>3, <4>4
    <3> QED BY <3>1, <3>2
  <2> QED BY <2>3, <2>4, <2>5, <2>6 DEF Locks, IndexNotBehind
<1> QED BY <1>3, <1>4, <1>5

------------------------------------------------------------------------------
(* Jobs and messages.                                                      *)

\* The state of the job of a file set changes only as its thread starts or ends.
LEMMA JobChange ==
    ASSUME TypeOK, NEW t \in Threads, Step(t), NEW f \in FileSets, job'[f] # job[f]
    PROVE  \/ /\ StartJob(t) /\ job[f].state = "waiting" /\ job'[f].state = "running"
              /\ thread'[t].of = f
           \/ /\ ~At(t, "idle") /\ Of(t) = f /\ thread'[t] = Idle
              /\ job'[f].state = "processed" => PreserveFileSet(t)
<1>1. CASE StartJob(t)
  <2>1. PICK g \in FileSets :
           /\ job[g].state = "waiting" /\ Begin(t, g)
           /\ job' = [job EXCEPT ![g] = [state |-> "running", attempts |-> @.attempts + 1]]
    BY <1>1 DEF StartJob
  <2>2. g = f /\ g \in Resources
    BY <2>1 DEF TypeOK, Resources
  <2> QED BY <1>1, <2>1, <2>2, BeginTypes DEF TypeOK
<1>2. CASE PreserveFileSet(t)
  BY <1>2 DEF PreserveFileSet, TypeOK, At
<1>3. CASE Interrupt(t) \/ BlockRaises(t) \/ Raise(t)
  BY <1>3 DEF Interrupt, BlockRaises, Raise, Ends, Retried, TypeOK, Jobs, At
<1>4. CASE ~StartJob(t) /\ ~PreserveFileSet(t) /\ ~Interrupt(t) /\ ~BlockRaises(t) /\ ~Raise(t)
  BY <1>4 DEF Step, StartSave, Enter, Save, FailService, Fail, Index, Commit, RunDelayed,
              RaiseDelayed, RunNothing, ReadAgain, MarkProcessed, Rescue, CallBlock, SaveMessage,
              Clear, TypeOK
<1> QED BY <1>1, <1>2, <1>3, <1>4

\* Where a thread is that works for a file set: it starts, or it goes on.
LEMMA GoesOn ==
    ASSUME TypeOK, NEW t \in Threads, Step(t), NEW u \in Threads, ~At(u, "idle")'
    PROVE  \/ ~At(u, "idle") /\ Of(u)' = Of(u)
           \/ /\ u = t /\ At(t, "idle") /\ At(t, "begun")'
              /\ StartJob(t) \/ (StartSave(t) /\ Of(t)' \in Works)
<1>1. CASE u # t
  BY <1>1, LeftAlone DEF At, Of
<1>2. CASE u = t /\ ~At(t, "idle")
  BY <1>2, Own DEF At, Of
<1>3. CASE u = t /\ At(t, "idle")
  <2>1. StartJob(t) \/ StartSave(t)
    BY <1>3 DEF Step, Enter, Save, FailService, Fail, Index, Commit, RunDelayed, RaiseDelayed,
         RunNothing, ReadAgain, MarkProcessed, PreserveFileSet, Interrupt, Ends, Rescue,
         CallBlock, SaveMessage, BlockRaises, Clear, Raise, Ready, At
  <2>2. StartSave(t) => Of(t)' \in Works
    <3>1. ASSUME NEW w \in Works, Begin(t, w) PROVE thread'[t].of = w
      BY <3>1, BeginTypes DEF Resources
    <3> QED BY <3>1 DEF StartSave, Of
  <2> QED BY <1>3, <2>1, <2>2, Own DEF At
<1> QED BY <1>1, <1>2, <1>3

LEMMA StepRuns ==
    ASSUME TypeOK, JobsRun, NEW t \in Threads, Step(t)
    PROVE  /\ \A u, v \in Threads : SameJob(u, v)' => u = v
           /\ \A u \in Threads : ~At(u, "idle")' /\ Of(u)' \in FileSets =>
                 job'[Of(u)'].state = "running"
<1>1. \A u \in Threads : ~At(u, "idle") /\ StartJob(t) => Of(u) # thread'[t].of
  <2> SUFFICES ASSUME NEW u \in Threads, ~At(u, "idle"), StartJob(t)
               PROVE  Of(u) # thread'[t].of
    OBVIOUS
  <2>1. PICK f \in FileSets : job[f].state = "waiting" /\ Begin(t, f)
    BY DEF StartJob
  <2>2. thread'[t].of = f
    BY <2>1, BeginTypes DEF Resources
  <2> QED BY <2>1, <2>2 DEF JobsRun, RunsOneJob
<1>2. ASSUME NEW u \in Threads, NEW v \in Threads, SameJob(u, v)'
      PROVE  u = v
  <2>1. CASE ~At(u, "idle") /\ Of(u)' = Of(u) /\ ~At(v, "idle") /\ Of(v)' = Of(v)
    BY <1>2, <2>1 DEF JobsRun, SameJob
  <2>2. CASE u = t /\ v = t
    BY <2>2
  <2>3. Of(t)' \in FileSets /\ StartSave(t) => Of(t)' \notin Works
    BY BufferedAssumption
  <2>4. ASSUME NEW x \in Threads, NEW y \in Threads, SameJob(x, y)', x = t,
               ~At(y, "idle"), Of(y)' = Of(y),
               StartJob(t) \/ (StartSave(t) /\ Of(t)' \in Works)
        PROVE  FALSE
    BY <1>1, <2>3, <2>4 DEF SameJob, Of
  <2> QED BY <1>2, <2>1, <2>2, <2>4, GoesOn DEF SameJob
<1>3. ASSUME NEW u \in Threads, ~At(u, "idle")', Of(u)' \in FileSets
      PROVE  job'[Of(u)'].state = "running"
  <2>1. CASE ~At(u, "idle") /\ Of(u)' = Of(u)
    <3>1. job[Of(u)].state = "running"
      BY <1>3, <2>1 DEF JobsRun, RunsOneJob
    <3>2. ASSUME job'[Of(u)] # job[Of(u)] PROVE FALSE
      <4>1. CASE ~At(t, "idle") /\ Of(t) = Of(u) /\ thread'[t] = Idle
        <5>1. u = t
          BY <1>3, <2>1, <4>1 DEF JobsRun, SameJob
        <5> QED BY <1>3, <4>1, <5>1 DEF At, Idle
      <4> QED BY <1>3, <2>1, <3>1, <3>2, <4>1, JobChange
    <3> QED BY <2>1, <3>1, <3>2
  <2>2. CASE u = t /\ StartJob(t)
    <3>1. PICK f \in FileSets :
           /\ Begin(t, f)
           /\ job' = [job EXCEPT ![f] = [state |-> "running", attempts |-> @.attempts + 1]]
      BY <2>2 DEF StartJob
    <3>2. thread'[t].of = f
      BY <3>1, BeginTypes DEF Resources
    <3> QED BY <2>2, <3>1, <3>2 DEF TypeOK, Of
  <2>3. CASE u = t /\ StartSave(t) /\ Of(t)' \in Works
    BY <1>3, <2>3, BufferedAssumption
  <2> QED BY <1>3, <2>1, <2>2, <2>3, GoesOn
<1> QED BY <1>2, <1>3

\* A file set that is written gets its next version, and keeps its derivatives.
LEMMA FileRow ==
    ASSUME TypeOK, Locks, JobsRun, NEW t \in Threads, Step(t), NEW f \in FileSets,
           database'[f] # database[f]
    PROVE  /\ database'[f].version = database[f].version + 1
           /\ database[f].made => database'[f].made
           /\ \/ SaveMessage(t) /\ database'[f].error
              \/ (Commit(t) \/ MarkProcessed(t)) /\ Of(t) = f
<1>1. /\ Commit(t) \/ MarkProcessed(t) \/ SaveMessage(t)
      /\ Target(t) = f /\ database'[f] = NewRow(t)
      /\ NewRow(t).version = thread[t].read.version + 1
  BY Writes DEF TypeOK, Resources
<1>2. CASE Commit(t)
  <2>1. Of(t) = f /\ Holds(t, f) /\ NewRow(t) = Written(t)
    BY <1>1, <1>2 DEF Commit, Ready, Target, NewRow, At, Holds
  <2>2. database[f].version = thread[t].read.version
    BY <2>1 DEF Locks, Resources
  <2>3. Written(t).made
    BY <2>1 DEF Written
  <2> QED BY <1>1, <1>2, <2>1, <2>2, <2>3
<1>3. CASE MarkProcessed(t)
  <2>1. /\ Of(t) = f /\ At(t, "marking") /\ Current(f, thread[t].read)
        /\ thread[t] \in Reader
    BY <1>1, <1>3, Kinds DEF MarkProcessed, Target, At
  <2>2. NewRow(t).made = thread[t].read.made
    BY <1>1, <2>1 DEF NewRow, At, Reader, Rows
  <2> QED BY <1>1, <1>3, <2>1, <2>2 DEF Current, JobsRun, HasMade
<1>4. CASE SaveMessage(t)
  <2>1. /\ thread[t].file = f /\ At(t, "writing") /\ Current(f, thread[t].read)
        /\ NewRow(t) = WithMessage(thread[t].read)
    BY <1>1, <1>4 DEF SaveMessage, Target, NewRow, At
  <2>2. thread[t].read = database[f]
    BY <2>1 DEF Current, JobsRun, ReadsAhead
  <2> QED BY <1>1, <1>4, <2>1, <2>2 DEF WithMessage
<1> QED BY <1>1, <1>2, <1>3, <1>4

LEMMA StepReads ==
    ASSUME TypeOK, Locks, JobsRun, NEW t \in Threads, Step(t), NEW u \in Threads
    PROVE  ReadsAhead(u)'
<1> SUFFICES ASSUME At(u, "writing")'
             PROVE  LET row == thread'[u].read
                        now == database'[thread'[u].file]
                    IN  row.version <= now.version /\ (row.version = now.version => row = now)
  BY DEF ReadsAhead
<1>1. CASE CallBlock(t) /\ u = t
  <2>1. thread[t] \in Calling
    BY <1>1, Kinds DEF CallBlock
  <2>2. PICK f \in thread[t].left :
           thread'[t].file = f /\ thread'[t].read = database[f] /\ database' = database
    BY <1>1 DEF CallBlock, TypeOK
  <2>3. database[f] \in Rows
    BY <2>1, <2>2 DEF Calling, TypeOK, Resources
  <2> QED BY <1>1, <2>2, <2>3 DEF Rows
<1>2. CASE ~(CallBlock(t) /\ u = t)
  <2>1. u # t
    <3>1. CASE StartJob(t) \/ StartSave(t)
      <4>1. \E r \in Resources : Begin(t, r)
        BY <3>1 DEF StartJob, StartSave, Resources
      <4> QED BY <4>1, BeginTypes DEF At
    <3>2. CASE Save(t) \/ Index(t) \/ Commit(t) \/ MarkProcessed(t)
      <4>1. thread[t] \in Open \/ thread[t] \in Reader
        BY <3>2, Kinds DEF Save, Index, Commit, Ready, MarkProcessed, At, InTransaction
      <4> QED BY <3>2, <4>1 DEF Save, Index, Commit, MarkProcessed, Goto, TypeOK, Open, Reader, At
    <3>3. CASE ~StartJob(t) /\ ~StartSave(t) /\ ~Save(t) /\ ~Index(t) /\ ~Commit(t) /\ ~MarkProcessed(t)
      BY <1>2, <3>3 DEF Step, Enter, FailService, Fail, RunDelayed, RaiseDelayed, RunNothing,
         ReadAgain, PreserveFileSet, Interrupt, Ends, Rescue, CallBlock, SaveMessage,
         BlockRaises, Clear, Raise, Bared, Idle, TypeOK, At
    <3> QED BY <3>1, <3>2, <3>3
  <2>2. /\ At(u, "writing") /\ thread'[u].file = thread[u].file
        /\ thread'[u].read = thread[u].read
    BY <2>1, LeftAlone DEF At
  <2>3. thread[u] \in Writing
    BY <2>2, Kinds
  <2> DEFINE f == thread[u].file
  <2>4. f \in FileSets /\ thread[u].read \in Rows
    BY <2>3 DEF Writing
  <2>5. database'[f] = database[f] \/ database'[f].version = database[f].version + 1
    BY <2>4, FileRow
  <2>6. database[f] \in Rows
    BY <2>4 DEF TypeOK, Resources
  <2> QED BY <2>2, <2>4, <2>5, <2>6 DEF JobsRun, ReadsAhead, Rows
<1> QED BY <1>1, <1>2

LEMMA StepMade ==
    ASSUME TypeOK, Locks, JobsRun, NEW t \in Threads, Step(t), NEW u \in Threads
    PROVE  /\ HasMade(u)'
           /\ At(u, "processing")' \/ At(u, "marking")' \/ At(u, "marked")' => Of(u)' \in FileSets
<1>1. \A f \in FileSets : database[f].made => database'[f].made
  BY FileRow
<1>2. CASE u # t
  <2>1. thread'[u].step = thread[u].step /\ (~At(u, "idle") => Of(u)' = Of(u))
    BY <1>2, LeftAlone DEF Of
  <2>2. At(u, "marking") => thread'[u] = thread[u]
    BY <1>2, LeftAlone DEF At
  <2> QED BY <1>1, <2>1, <2>2 DEF JobsRun, RunsOneJob, HasMade, At
<1>3. CASE u = t /\ ReadAgain(t)
  <2>1. thread'[t] = [step |-> "marking", of |-> Of(t), read |-> database[Of(t)]]
        /\ database' = database /\ At(t, "processing")
    BY <1>3 DEF ReadAgain, TypeOK
  <2> QED BY <1>3, <2>1 DEF JobsRun, RunsOneJob, HasMade, At, Of
<1>4. CASE u = t /\ Commit(t)
  <2>1. thread[t] \in Open /\ Of(t) \in Resources /\ database' = [database EXCEPT ![Of(t)] = Written(t)]
    BY <1>4, Kinds DEF Commit, Ready, At, InTransaction
  <2>2. thread'[t].step = "committed" /\ thread'[t].of = Of(t)
    BY <1>4, <2>1 DEF Commit, Goto, TypeOK, Open, Of
  <2>3. Of(t) \in FileSets => database'[Of(t)].made
    BY <2>1 DEF TypeOK, Written
  <2> QED BY <1>4, <2>2, <2>3 DEF HasMade, At, Of
<1>5. CASE u = t /\ (RunNothing(t) \/ MarkProcessed(t))
  <2>1. /\ thread'[t].step \in {"processing", "marked"} /\ thread'[t].of = Of(t)
        /\ Of(t) \in FileSets /\ (At(t, "committed") \/ At(t, "marking"))
    <3>1. CASE RunNothing(t)
      BY <3>1 DEF RunNothing, TypeOK, Bared
    <3>2. CASE MarkProcessed(t)
      <4>1. thread[t] \in Reader
        BY <3>2, Kinds DEF MarkProcessed
      <4> QED BY <3>2, <4>1 DEF MarkProcessed, Goto, TypeOK, Reader, Of, At, JobsRun, RunsOneJob
    <3> QED BY <1>5, <3>1, <3>2
  <2> QED BY <1>1, <1>5, <2>1 DEF JobsRun, HasMade, At, Of
<1>6. CASE u = t /\ ~ReadAgain(t) /\ ~Commit(t) /\ ~RunNothing(t) /\ ~MarkProcessed(t)
  <2>1. thread'[t].step \notin {"committed", "processing", "marking", "marked"}
    <3>1. CASE StartJob(t) \/ StartSave(t)
      <4>1. \E r \in Resources : Begin(t, r)
        BY <3>1 DEF StartJob, StartSave, Resources
      <4> QED BY <4>1, BeginTypes
    <3>2. CASE Save(t) \/ Index(t)
      <4>1. thread[t] \in Open
        BY <3>2, Kinds DEF Save, Index, At, InTransaction
      <4> QED BY <3>2, <4>1 DEF Save, Index, Goto, TypeOK, Open
    <3>3. CASE ~StartJob(t) /\ ~StartSave(t) /\ ~Save(t) /\ ~Index(t)
      BY <1>6, <3>3 DEF Step, Enter, FailService, Fail, RunDelayed, RaiseDelayed,
         PreserveFileSet, Interrupt, Ends, Rescue, CallBlock, SaveMessage,
         BlockRaises, Clear, Raise, Bared, Idle, TypeOK
    <3> QED BY <3>1, <3>2, <3>3
  <2> QED BY <1>6, <2>1 DEF HasMade, At
<1> QED BY <1>2, <1>3, <1>4, <1>5, <1>6

LEMMA StepJobs ==
    ASSUME TypeOK, Locks, JobsRun, NEW t \in Threads, Step(t)
    PROVE  JobsRun'
<1>1. ASSUME NEW u \in Threads PROVE RunsOneJob(u)' /\ HasMade(u)' /\ ReadsAhead(u)'
  BY StepRuns, StepMade, StepReads DEF RunsOneJob
<1> QED BY <1>1, StepRuns DEF JobsRun

------------------------------------------------------------------------------
(* What is preserved.                                                      *)

LEMMA PreservedChange ==
    ASSUME TypeOK, NEW t \in Threads, Step(t), NEW r \in Resources, preserved'[r] # preserved[r]
    PROVE  /\ (RunDelayed(t) /\ Of(t) \in Works) \/ PreserveFileSet(t)
           /\ Of(t) = r /\ preserved'[r] = database[r].version /\ database' = database
<1>1. CASE RunDelayed(t) \/ PreserveFileSet(t)
  BY <1>1 DEF RunDelayed, PreserveFileSet, Reloaded, TypeOK
<1>2. CASE ~RunDelayed(t) /\ ~PreserveFileSet(t)
  BY <1>2 DEF Step, StartJob, StartSave, Enter, Save, FailService, Fail, Index, Commit,
              RaiseDelayed, RunNothing, ReadAgain, MarkProcessed, Interrupt,
              Rescue, CallBlock, SaveMessage, BlockRaises, Clear, Raise
<1> QED BY <1>1, <1>2

LEMMA StepFileSets ==
    ASSUME TypeOK, Locks, JobsRun, FileSetsKept, NEW t \in Threads, Step(t)
    PROVE  FileSetsKept'
<1> SUFFICES ASSUME NEW f \in FileSets, job'[f].state = "processed"
             PROVE  /\ preserved'[f] = database'[f].version \/ database'[f].error
                    /\ database'[f].made
  BY DEF FileSetsKept
<1>1. CASE job[f].state = "processed"
  <2>1. ~At(t, "idle") => Of(t) # f
    BY <1>1 DEF JobsRun, RunsOneJob
  <2>2. preserved'[f] = preserved[f]
    BY <2>1, PreservedChange DEF RunDelayed, PreserveFileSet, At, Resources
  <2>3. database'[f] # database[f] => SaveMessage(t) /\ database'[f].error
    BY <2>1, FileRow DEF Commit, Ready, MarkProcessed, At
  <2>4. database[f].made => database'[f].made
    BY FileRow
  <2> QED BY <1>1, <2>2, <2>3, <2>4 DEF FileSetsKept
<1>2. CASE job[f].state # "processed"
  <2>1. PreserveFileSet(t) /\ Of(t) = f
    BY <1>2, JobChange
  <2> QED BY <2>1 DEF PreserveFileSet, Reloaded, JobsRun, HasMade, TypeOK, Resources
<1> QED BY <1>1, <1>2

\* The row of a work changes only as a thread commits it.
LEMMA WorkRow ==
    ASSUME TypeOK, JobsRun, NEW t \in Threads, Step(t), NEW w \in Works, database'[w] # database[w]
    PROVE  Commit(t) /\ Of(t) = w
<1>1. /\ Commit(t) \/ MarkProcessed(t) \/ SaveMessage(t)
      /\ Target(t) = w
  BY Writes DEF TypeOK, Resources
<1>2. w \notin FileSets
  BY BufferedAssumption
<1>3. ~SaveMessage(t)
  <2>1. At(t, "writing") => thread[t].file \in FileSets
    BY Kinds DEF Writing
  <2> QED BY <1>1, <1>2, <2>1 DEF SaveMessage, Target
<1>4. ~MarkProcessed(t)
  BY <1>1, <1>2 DEF MarkProcessed, Target, JobsRun, RunsOneJob, At
<1> QED BY <1>1, <1>3, <1>4 DEF Commit, Ready, Target, At

LEMMA StepWorks ==
    ASSUME TypeOK, JobsRun, WorksPreserved, NEW t \in Threads, Step(t)
    PROVE  WorksPreserved'
<1> SUFFICES ASSUME NEW w \in Works
             PROVE  \/ preserved'[w] = database'[w].version
                    \/ w \in told'
                    \/ \E u \in Threads : At(u, "committed")' /\ Of(u)' = w
  BY DEF WorksPreserved
<1>1. CASE Commit(t) /\ Of(t) = w
  <2>1. thread[t] \in Open /\ ~At(t, "idle")
    BY <1>1, Kinds DEF Commit, Ready, At, InTransaction
  <2>2. thread'[t].step = "committed" /\ thread'[t].of = w
    BY <1>1, <2>1 DEF Commit, Goto, TypeOK, Open, Of
  <2> QED BY <2>2 DEF At, Of
<1>2. CASE RunDelayed(t) /\ Of(t) = w
  BY <1>2 DEF RunDelayed, Reloaded, TypeOK, Resources
<1>3. CASE RaiseDelayed(t) /\ Of(t) = w
  BY <1>3 DEF RaiseDelayed
<1>4. CASE ~(Commit(t) /\ Of(t) = w) /\ ~(RunDelayed(t) /\ Of(t) = w)
           /\ ~(RaiseDelayed(t) /\ Of(t) = w)
  <2>1. database'[w] = database[w]
    BY <1>4, WorkRow
  <2>2. preserved'[w] = preserved[w]
    <3>1. ~(PreserveFileSet(t) /\ Of(t) = w)
      BY BufferedAssumption DEF PreserveFileSet, JobsRun, RunsOneJob
    <3> QED BY <1>4, <3>1, PreservedChange DEF Resources
  <2>3. w \in told => w \in told'
    BY <1>4 DEF Step, StartJob, StartSave, Enter, Save, FailService, Fail, Index, Commit,
         RunDelayed, RaiseDelayed, RunNothing, ReadAgain, MarkProcessed, PreserveFileSet,
         Interrupt, Rescue, CallBlock, SaveMessage, BlockRaises, Clear, Raise
  <2>4. ASSUME NEW u \in Threads, At(u, "committed"), Of(u) = w
        PROVE  At(u, "committed")' /\ Of(u)' = w
    <3>1. u # t
      <4>1. ~RunNothing(t) \/ u # t
        BY <2>4, BufferedAssumption DEF RunNothing
      <4> QED BY <1>4, <2>4, <4>1 DEF Step, StartJob, StartSave, Begin, Enter, Save, FailService,
             Fail, Index, Commit, Ready, RunDelayed, RaiseDelayed, ReadAgain, MarkProcessed,
             PreserveFileSet, Interrupt, Rescue, CallBlock, SaveMessage, BlockRaises, Clear,
             Raise, At
    <3> QED BY <2>4, <3>1, LeftAlone DEF At, Of
  <2> QED BY <2>1, <2>2, <2>3, <2>4 DEF WorksPreserved
<1> QED BY <1>1, <1>2, <1>3, <1>4

------------------------------------------------------------------------------
(* The theorems.                                                           *)

Inv == /\ TypeOK /\ Locks /\ IndexNotBehind
       /\ JobsRun
       /\ FileSetsKept /\ WorksPreserved

LEMMA InitInv == Init => Inv
<1> SUFFICES ASSUME Init PROVE Inv
  OBVIOUS
<1>1. TypeOK
  BY InitTypes
<1>2. \A t \in Threads : thread[t].step = "idle"
  BY DEF Init, Idle
<1>3. Locks
  BY <1>2 DEF Locks, Holds, At
<1>4. IndexNotBehind /\ WorksPreserved /\ FileSetsKept
  BY DEF Init, IndexNotBehind, WorksPreserved, FileSetsKept, Resources
<1>5. JobsRun
  BY <1>2 DEF JobsRun, RunsOneJob, SameJob, HasMade, ReadsAhead, At
<1> QED BY <1>1, <1>3, <1>4, <1>5 DEF Inv

LEMMA NextInv == Inv /\ [Next]_vars => Inv'
<1> SUFFICES ASSUME Inv, [Next]_vars PROVE Inv'
  OBVIOUS
<1>1. CASE \E t \in Threads : Step(t)
  BY <1>1, StepTypes, StepLocks, StepJobs, StepFileSets, StepWorks DEF Inv
<1>2. CASE UNCHANGED vars
  BY <1>2 DEF Inv, vars, TypeOK, Locks, IndexNotBehind, JobsRun, RunsOneJob, SameJob, HasMade,
              ReadsAhead, FileSetsKept, WorksPreserved, Holds, At, Of
<1> QED BY <1>1, <1>2 DEF Next, Finished

THEOREM AlwaysInv == Spec => []Inv
BY InitInv, NextInv, PTL DEF Spec

\* Type correctness; above all, what is run after a rollback is always a queue.
THEOREM BufferedTypes == Spec => []TypeOK
<1>1. Inv => TypeOK
  BY DEF Inv
<1> QED BY <1>1, AlwaysInv, PTL

\* Two saves of a work reach Solr in the order in which the database commits them
\* (IndexingAdapter writes Solr inside the transaction).
THEOREM SolrFollows == Spec => []IndexNotBehind
<1>1. Inv => IndexNotBehind
  BY DEF Inv
<1> QED BY <1>1, AlwaysInv, PTL

\* Whatever other threads save, fail to save or roll back: what is committed is
\* preserved, or its saver is told; only an error message that comes after its job
\* has ended is kept of a file set and not preserved.
THEOREM CommittedIsPreserved == Spec => []PreservedOrTold
<1>1. Inv => PreservedOrTold
  BY DEF Inv, PreservedOrTold, WorksPreserved, FileSetsKept
<1> QED BY <1>1, AlwaysInv, PTL

\* The messages that threads leave in each other's queues, and save one by one while
\* the jobs of the file sets are run again, never undo the derivatives these make.
THEOREM MessagesUndoNothing == Spec => []DerivativesKept
<1>1. Inv => DerivativesKept
  BY DEF Inv, DerivativesKept, FileSetsKept
<1> QED BY <1>1, AlwaysInv, PTL
=============================================================================
