------------------------ MODULE DeletionRestoreProofs ------------------------
(***************************************************************************)
(* For any number of file sets and threads, and any number of requests,    *)
(* failures and crashes: what has been preserved stays recoverable as long *)
(* as each request waits for what the one before has queued, and no job of *)
(* a deletion takes the file of a file set that is there.  As long as      *)
(* nothing fails either, the jobs of a deletion and of a restoration come  *)
(* to what users asked for, and everything that is there is preserved.     *)
(***************************************************************************)
EXTENDS DeletionRestore, SequenceLemmas

Deleting  == {"marked", "unlisting", "unlinked", "dropped"}
Restoring == {"import", "attach", "members", "finish"}

Does(w, pcs) == worker[w].pc \in pcs

HasJob(kind) == \E j \in jobs : j.kind = kind

Fields == {"pc", "of", "ids", "marker", "outer"}

IsRun(d) == d = [x \in Fields |-> d[x]]

Shape == /\ worker = [w \in Workers |-> worker[w]]
         /\ \A w \in Workers : /\ IsRun(worker[w])
                               /\ Does(w, {"idle", "deleting"} \cup Deleting \cup Restoring)

\* While a request deletes there is nothing else to do than to remove its file, and
\* its marker has the PreservationObject.
Alone(w) ==
    Does(w, {"deleting"}) =>
        /\ \A v \in Workers \ {w} : Does(v, {"idle"})
        /\ \A j \in jobs : j.kind = "cleanupFiles"
        /\ worker[w].marker.of = worker[w].of
        /\ worker[w].of \in object => worker[w].marker.kept
        /\ worker[w].of # Work => worker[w].ids = <<>>

\* Members are deleted only while their work is gone, and nothing is restored then.
OnePhase ==
    HasJob("deleteMember") \/ (\E w \in Workers : Does(w, Deleting)) =>
        /\ Work \notin exists
        /\ ~HasJob("restore")
        /\ \A w \in Workers : ~Does(w, Restoring)

\* What a restoration has imported is there.
Here(w) ==
    Does(w, Restoring) =>
        /\ worker[w].pc # "import" => worker[w].marker.of \in exists
        /\ worker[w].outer # Nothing => worker[w].outer.of \in exists

\* A marker is kept before the PreservationObject goes.
Marked(w) ==
    Does(w, {"marked", "unlisting", "unlinked"}) /\ worker[w].of \in object =>
        \E m \in markers : m.of = worker[w].of /\ m.kept

Phases == /\ \A w \in Workers : Alone(w) /\ Here(w) /\ Marked(w)
          /\ OnePhase

Inv == Shape /\ (untimely \/ Phases)

-----------------------------------------------------------------------------
LEMMA QueuedKind ==
    ASSUME NEW kind, NEW rs
    PROVE  \A j \in Queued(kind, rs) : j.kind = kind /\ j.of \in rs
BY DEF Queued

LEMMA QueuedThere ==
    ASSUME NEW kind, NEW r
    PROVE  \E j \in Queued(kind, {r}) : j.kind = kind
<1>1. [kind |-> kind, of |-> r, id |-> 0] \in Queued(kind, {r})
  BY DEF Queued
<1> QED BY <1>1, QueuedKind

LEMMA PreserveKind ==
    ASSUME NEW rs, NEW there, NEW ids, NEW t
    PROVE  \A j \in PreserveJobs(rs, there, ids, t) : j.kind = "preserve" /\ Work \in there
BY DEF PreserveJobs

LEMMA IdleRun == /\ IsRun(Idle) /\ Idle.pc = "idle" /\ Idle.of = Work /\ Idle.ids = <<>>
                 /\ Idle.marker = Nothing /\ Idle.outer = Nothing
BY DEF Idle, IsRun, Fields

\* What Goes and Rests do to the threads.
LEMMA Went ==
    ASSUME Shape, NEW w \in Workers,
           NEW pc \in {"idle", "deleting"} \cup Deleting \cup Restoring, Goes(w, pc)
    PROVE  /\ Shape'
           /\ \A v \in Workers \ {w} : worker'[v] = worker[v]
           /\ worker'[w].pc = pc /\ worker'[w].of = worker[w].of /\ worker'[w].ids = worker[w].ids
           /\ worker'[w].marker = worker[w].marker /\ worker'[w].outer = worker[w].outer
BY DEF Shape, Goes, IsRun, Fields, Does

LEMMA Rested ==
    ASSUME Shape, NEW w \in Workers, Rests(w)
    PROVE  /\ Shape'
           /\ \A v \in Workers \ {w} : worker'[v] = worker[v]
           /\ worker'[w] = Idle
BY IdleRun DEF Shape, Rests, Does

\* A run that is written as a whole.
LEMMA Became ==
    ASSUME Shape, NEW w \in Workers, NEW d, IsRun(d),
           d.pc \in {"idle", "deleting"} \cup Deleting \cup Restoring,
           worker' = [worker EXCEPT ![w] = d]
    PROVE  /\ Shape'
           /\ \A v \in Workers \ {w} : worker'[v] = worker[v]
           /\ worker'[w] = d
BY DEF Shape, Does

LEMMA SameShape ==
    ASSUME Shape, UNCHANGED worker
    PROVE  Shape'
BY DEF Shape, Does

\* A request that comes in time finds everything at rest.
LEMMA InTime ==
    ASSUME NEW event, Request(event), ~untimely'
    PROVE  ~untimely /\ jobs = {} /\ \A w \in Workers : worker[w].pc = "idle"
BY DEF Request, Quiet

LEMMA InitInv == Init => Inv
<1> SUFFICES ASSUME Init PROVE Inv
  OBVIOUS
<1>1. \A w \in Workers : worker[w] = Idle
  BY DEF Init
<1>2. Shape
  BY <1>1, IdleRun DEF Init, Shape, Does
<1>3. Phases
  BY <1>1, IdleRun DEF Init, Phases, Alone, Here, Marked, OnePhase, Does, HasJob, Deleting, Restoring
<1> QED BY <1>2, <1>3 DEF Inv

-----------------------------------------------------------------------------
(* Deletion by a request                                                   *)

LEMMA DestroyKeeps ==
    ASSUME Inv, NEW w \in Workers, NEW r \in Resources, Destroy(w, r)
    PROVE  Inv'
<1> DEFINE ids == IF r = Work THEN members ELSE <<>>
           m   == MarkerOf(r, IF r # Work /\ Listed(r) THEN Work ELSE Nothing)
           d   == [Idle EXCEPT !.pc = "deleting", !.of = r, !.ids = ids, !.marker = m]
<1>1. worker' = [worker EXCEPT ![w] = d]
  BY DEF Destroy
<1>2. m.of = r /\ (r \in object => m.kept)
  BY DEF MarkerOf
<1> HIDE DEF m, ids
<1>3. IsRun(d) /\ d.pc = "deleting" /\ d.of = r /\ d.marker = m /\ d.ids = ids
  BY IdleRun DEF IsRun, Fields
<1> HIDE DEF d
<1>4. /\ Shape'
      /\ \A v \in Workers \ {w} : worker'[v] = worker[v]
      /\ worker'[w] = d
  BY <1>1, <1>3, Became DEF Inv
<1>5. ASSUME ~untimely' PROVE Phases'
  <2>1. ~untimely /\ jobs = {} /\ \A v \in Workers : worker[v].pc = "idle"
    BY <1>5, InTime DEF Destroy
  <2>2. \A j \in jobs' : j.kind = "cleanupFiles"
    BY <2>1 DEF Destroy, CleanupFiles
  <2>3. \A v \in Workers \ {w} : worker'[v].pc = "idle"
    BY <1>4, <2>1
  <2>4. object' = object
    BY DEF Destroy
  <2>5. d.marker.of = d.of /\ (d.of \in object => d.marker.kept) /\ (d.of # Work => d.ids = <<>>)
    BY <1>2, <1>3 DEF ids
  <2>6. \A v \in Workers : Alone(v)'
    BY <1>3, <1>4, <2>2, <2>3, <2>4, <2>5 DEF Alone, Does
  <2>7. \A v \in Workers : Here(v)' /\ Marked(v)'
    BY <1>3, <1>4, <2>3 DEF Here, Marked, Does, Restoring
  <2>8. OnePhase'
    BY <1>3, <1>4, <2>2, <2>3 DEF OnePhase, HasJob, Does, Deleting
  <2> QED BY <2>6, <2>7, <2>8 DEF Phases
<1> QED BY <1>4, <1>5 DEF Inv

LEMMA CommitKeeps ==
    ASSUME Inv, NEW w \in Workers, Commit(w)
    PROVE  Inv'
<1> DEFINE d == worker[w]
<1>1. Rests(w) /\ d.pc = "deleting" /\ untimely' = untimely /\ exists' = exists \ {d.of}
  BY DEF Commit
<1>2. /\ Shape'
      /\ \A v \in Workers \ {w} : worker'[v] = worker[v]
      /\ worker'[w].pc = "idle"
  BY <1>1, Rested, IdleRun DEF Inv
<1>3. ASSUME ~untimely PROVE Phases'
  <2>1. Alone(w)
    BY <1>3 DEF Inv, Phases
  <2>2. \A v \in Workers : worker'[v].pc = "idle"
    BY <1>1, <1>2, <2>1 DEF Alone, Does
  <2>3. \A j \in AfterDelete(d) : /\ j.kind \in {"preserve", "cleanupPreservation", "deleteMember"}
                                  /\ j.kind = "deleteMember" => j.of \in ToSet(d.ids)
    BY QueuedKind, PreserveKind DEF AfterDelete, PreserveSaved
  <2>4. jobs' \subseteq jobs \cup AfterDelete(d)
    BY DEF Commit
  <2>5. \A j \in jobs' : /\ j.kind # "restore"
                         /\ j.kind = "deleteMember" => j.of \in ToSet(d.ids)
    BY <1>1, <2>1, <2>3, <2>4 DEF Alone, Does
  <2>6. d.of # Work => ToSet(d.ids) = {}
    BY <1>1, <2>1 DEF Alone, Does, ToSet
  <2>7. OnePhase'
    BY <1>1, <2>2, <2>5, <2>6 DEF OnePhase, HasJob, Does, Deleting, Restoring
  <2> QED BY <2>2, <2>7 DEF Phases, Alone, Here, Marked, Does, Restoring
<1> QED BY <1>1, <1>2, <1>3 DEF Inv

LEMMA RollBackKeeps ==
    ASSUME Inv, NEW w \in Workers, RollBack(w)
    PROVE  Inv'
<1>1. Rests(w) /\ worker[w].pc = "deleting" /\ untimely' = untimely /\ jobs' = jobs
  BY DEF RollBack
<1>2. /\ Shape'
      /\ \A v \in Workers \ {w} : worker'[v] = worker[v]
      /\ worker'[w].pc = "idle"
  BY <1>1, Rested, IdleRun DEF Inv
<1>3. ASSUME ~untimely PROVE Phases'
  <2>1. Alone(w)
    BY <1>3 DEF Inv, Phases
  <2>2. \A v \in Workers : worker'[v].pc = "idle"
    BY <1>1, <1>2, <2>1 DEF Alone, Does
  <2>3. \A j \in jobs' : j.kind = "cleanupFiles"
    BY <1>1, <2>1 DEF Alone, Does
  <2> QED BY <2>2, <2>3 DEF Phases, Alone, Here, Marked, OnePhase, HasJob, Does, Deleting, Restoring
<1> QED BY <1>1, <1>2, <1>3 DEF Inv

-----------------------------------------------------------------------------
(* Steps of a deletion, of a restoration and of other jobs keep Phases.     *)

LEMMA WhileDeleting ==
    ASSUME Phases, NEW w \in Workers, HasJob("deleteMember") \/ Does(w, Deleting),
           \A v \in Workers \ {w} : worker'[v] = worker[v],
           worker'[w].pc \in {"idle"} \cup Deleting,
           exists' \subseteq exists, object' \subseteq object, markers \subseteq markers',
           \A j \in jobs' \ jobs : j.kind # "restore",
           Marked(w)'
    PROVE  Phases'
<1>1. \A v \in Workers : ~Does(v, {"deleting"})
  BY DEF Phases, Alone, HasJob, Does, Deleting
<1>2. /\ Work \notin exists /\ ~HasJob("restore")
      /\ \A v \in Workers : ~Does(v, Restoring)
  BY DEF Phases, OnePhase
<1>3. \A v \in Workers : ~Does(v, {"deleting"})' /\ ~Does(v, Restoring)'
  BY <1>1, <1>2 DEF Does, Deleting, Restoring
<1>4. OnePhase'
  BY <1>2, <1>3 DEF OnePhase, HasJob
<1>5. \A v \in Workers \ {w} : Marked(v)'
  BY DEF Phases, Marked, Does
<1> QED BY <1>3, <1>4, <1>5 DEF Phases, Alone, Here

LEMMA WhileRestoring ==
    ASSUME Phases, NEW w \in Workers, HasJob("restore") \/ Does(w, Restoring),
           \A v \in Workers \ {w} : worker'[v] = worker[v],
           worker'[w].pc \in {"idle"} \cup Restoring,
           exists \subseteq exists',
           \A j \in jobs' \ jobs : j.kind # "deleteMember",
           Here(w)'
    PROVE  Phases'
<1>1. \A v \in Workers : ~Does(v, {"deleting"})
  BY DEF Phases, Alone, HasJob, Does, Restoring
<1>2. ~HasJob("deleteMember") /\ \A v \in Workers : ~Does(v, Deleting)
  BY DEF Phases, OnePhase
<1>3. \A v \in Workers : ~Does(v, {"deleting"})' /\ ~Does(v, Deleting)'
  BY <1>1, <1>2 DEF Does, Deleting, Restoring
<1>4. OnePhase'
  BY <1>2, <1>3 DEF OnePhase, HasJob
<1>5. \A v \in Workers \ {w} : Here(v)'
  BY DEF Phases, Here, Does
<1>6. \A v \in Workers : Marked(v)'
  BY <1>3 DEF Marked, Does, Deleting
<1> QED BY <1>3, <1>4, <1>5, <1>6 DEF Phases, Alone

LEMMA OtherJob ==
    ASSUME Phases, NEW j \in jobs, UNCHANGED <<worker, exists, markers>>,
           jobs' \subseteq jobs \/ j.kind # "cleanupFiles",
           object' = object \/ (Work \in exists /\ j.kind # "cleanupFiles"),
           \A i \in jobs' \ jobs : i.kind \notin {"deleteMember", "restore"}
    PROVE  Phases'
<1>1. \A v \in Workers : Here(v)'
  BY DEF Phases, Here, Does
<1>2. OnePhase'
  BY DEF Phases, OnePhase, HasJob, Does
<1>3. \A v \in Workers : Alone(v)'
  BY DEF Phases, Alone, Does
<1>4. \A v \in Workers : Marked(v)'
  <2>1. CASE object' = object
    BY <2>1 DEF Phases, Marked, Does
  <2>2. CASE Work \in exists
    BY <2>2 DEF Phases, OnePhase, Marked, Does, Deleting
  <2> QED BY <2>1, <2>2
<1> QED BY <1>1, <1>2, <1>3, <1>4 DEF Phases

-----------------------------------------------------------------------------
(* DeleteMemberJob                                                         *)

LEMMA DeleteMemberKeeps ==
    ASSUME Inv, NEW w \in Workers, NEW f \in FileSets, DeleteMember(w, f)
    PROVE  Inv'
<1> DEFINE job == Queued("deleteMember", {f})
           d   == [Idle EXCEPT !.pc = "marked", !.of = f]
<1>1. untimely' = untimely /\ worker[w].pc = "idle" /\ UNCHANGED <<exists, object>> /\ job \subseteq jobs
  BY DEF DeleteMember, aside, database
<1>2. HasJob("deleteMember")
  BY <1>1, QueuedThere DEF HasJob
<1>3. CASE f \in exists
  <2>1. /\ worker' = [worker EXCEPT ![w] = d]
        /\ markers' = markers \cup {MarkerOf(f, Work)}
        /\ jobs' = (jobs \ job) \cup {CleanupFiles(f)}
    BY <1>3 DEF DeleteMember
  <2>2. IsRun(d) /\ d.pc = "marked" /\ d.of = f
    BY IdleRun DEF IsRun, Fields
  <2>3. MarkerOf(f, Work).of = f /\ (f \in object => MarkerOf(f, Work).kept)
    BY DEF MarkerOf
  <2>4. CleanupFiles(f).kind = "cleanupFiles"
    BY DEF CleanupFiles
  <2> HIDE DEF d
  <2>5. /\ Shape'
        /\ \A v \in Workers \ {w} : worker'[v] = worker[v]
        /\ worker'[w] = d
    BY <2>1, <2>2, Became DEF Inv, Deleting
  <2>6. Marked(w)'
    BY <1>1, <2>1, <2>2, <2>3, <2>5 DEF Marked
  <2>7. ASSUME Phases PROVE Phases'
    BY <1>1, <1>2, <2>1, <2>2, <2>4, <2>5, <2>6, <2>7, WhileDeleting DEF Deleting
  <2> QED BY <1>1, <2>5, <2>7 DEF Inv
<1>4. CASE f \notin exists
  <2>1. UNCHANGED <<worker, markers>> /\ jobs' \subseteq jobs
    BY <1>4 DEF DeleteMember
  <2>2. Marked(w)'
    BY <1>1, <2>1 DEF Marked, Does
  <2>3. ASSUME Phases PROVE Phases'
    BY <1>1, <1>2, <2>1, <2>2, <2>3, WhileDeleting
  <2> QED BY <1>1, <2>1, <2>3, SameShape DEF Inv
<1> QED BY <1>3, <1>4

LEMMA CleanupKeeps ==
    ASSUME Inv, NEW w \in Workers, CleanupStructure(w) \/ CleanupMembership(w)
    PROVE  Inv'
<1>1. PICK pc \in {"unlisting", "unlinked"} : Goes(w, pc)
  BY DEF CleanupStructure, CleanupMembership
<1>2. worker[w].pc \in {"marked", "unlisting"} /\ UNCHANGED <<exists, object, markers, untimely>>
  BY DEF CleanupStructure, CleanupMembership, SaveMembers, database, aside
<1>3. \A j \in jobs' \ jobs : j.kind = "preserve"
  BY PreserveKind DEF CleanupStructure, CleanupMembership, PreserveSaved
<1>4. /\ Shape'
      /\ \A v \in Workers \ {w} : worker'[v] = worker[v]
      /\ worker'[w].pc = pc /\ worker'[w].of = worker[w].of
  BY <1>1, Went DEF Inv, Deleting
<1>5. ASSUME Phases PROVE Phases'
  <2>1. Marked(w)'
    BY <1>2, <1>4, <1>5 DEF Phases, Marked, Does
  <2> QED BY <1>2, <1>3, <1>4, <1>5, <2>1, WhileDeleting DEF Does, Deleting
<1> QED BY <1>2, <1>4, <1>5 DEF Inv

LEMMA DropKeeps ==
    ASSUME Inv, NEW w \in Workers, DeleteReferenced(w) \/ DeleteRow(w)
    PROVE  Inv'
<1>1. /\ Goes(w, "dropped") \/ Rests(w)
      /\ worker[w].pc \in {"unlinked", "dropped"}
      /\ UNCHANGED <<markers, untimely>>
      /\ object' \subseteq object /\ exists' \subseteq exists
  BY DEF DeleteReferenced, DeleteRow, database, aside
<1>2. \A j \in jobs' \ jobs : j.kind = "cleanupPreservation"
  BY QueuedKind DEF DeleteReferenced, DeleteRow
<1>3. /\ Shape'
      /\ \A v \in Workers \ {w} : worker'[v] = worker[v]
      /\ worker'[w].pc \in {"idle", "dropped"}
  BY <1>1, Went, Rested, IdleRun DEF Inv, Deleting
<1>4. Marked(w)'
  BY <1>3 DEF Marked, Does
<1>5. ASSUME Phases PROVE Phases'
  BY <1>1, <1>2, <1>3, <1>4, <1>5, WhileDeleting DEF Does, Deleting
<1> QED BY <1>1, <1>3, <1>5 DEF Inv

-----------------------------------------------------------------------------
(* Restoring                                                               *)

LEMMA RestoreKeeps ==
    ASSUME Inv, NEW m \in markers, Restore(m)
    PROVE  Inv'
<1>1. ASSUME ~untimely' PROVE Phases'
  <2>1. ~untimely /\ jobs = {} /\ \A v \in Workers : worker[v].pc = "idle"
    BY <1>1, InTime DEF Restore
  <2>2. UNCHANGED worker /\ \A j \in jobs' : j.kind = "restore"
    BY <2>1 DEF Restore, RestoreJob
  <2> QED BY <2>1, <2>2 DEF Phases, Alone, Here, Marked, OnePhase, HasJob, Does, Deleting, Restoring
<1>2. Shape'
  BY SameShape DEF Restore, Inv
<1> QED BY <1>1, <1>2 DEF Inv

LEMMA ReinstateKeeps ==
    ASSUME Inv, NEW m \in markers, Reinstate(m)
    PROVE  Inv'
<1>1. ASSUME ~untimely' PROVE Phases'
  <2>1. ~untimely /\ jobs = {} /\ \A v \in Workers : worker[v].pc = "idle"
    BY <1>1, InTime DEF Reinstate
  <2>2. UNCHANGED worker /\ \A j \in jobs' : j.kind \in {"characterize", "preserve"}
    BY <2>1, QueuedKind, PreserveKind DEF Reinstate, PreserveSaved
  <2> QED BY <2>1, <2>2 DEF Phases, Alone, Here, Marked, OnePhase, HasJob, Does, Deleting, Restoring
<1>2. Shape'
  BY SameShape DEF Reinstate, Inv
<1> QED BY <1>1, <1>2 DEF Inv

LEMMA TakeRestoreKeeps ==
    ASSUME Inv, NEW w \in Workers, TakeRestore(w)
    PROVE  Inv'
<1>1. HasJob("restore") /\ worker[w].pc = "idle" /\ jobs' \subseteq jobs /\ UNCHANGED <<exists, untimely>>
  BY DEF TakeRestore, HasJob, database, aside
<1>2. CASE UNCHANGED worker
  <2>1. Shape'
    BY <1>2, SameShape DEF Inv
  <2>2. Here(w)'
    BY <1>1, <1>2 DEF Here, Does, Restoring
  <2>3. ASSUME Phases PROVE Phases'
    BY <1>1, <1>2, <2>2, <2>3, WhileRestoring
  <2> QED BY <1>1, <2>1, <2>3 DEF Inv
<1>3. CASE ~UNCHANGED worker
  <2>1. PICK m \in markers : worker' = [worker EXCEPT ![w] = [Idle EXCEPT !.pc = "import", !.marker = m]]
    BY <1>3 DEF TakeRestore
  <2> DEFINE d == [Idle EXCEPT !.pc = "import", !.marker = m]
  <2>2. IsRun(d) /\ d.pc = "import" /\ d.outer = Nothing
    BY IdleRun DEF IsRun, Fields
  <2>3. worker' = [worker EXCEPT ![w] = d]
    BY <2>1
  <2> HIDE DEF d
  <2>4. /\ Shape'
        /\ \A v \in Workers \ {w} : worker'[v] = worker[v]
        /\ worker'[w] = d
    BY <2>2, <2>3, Became DEF Inv, Restoring
  <2>5. Here(w)'
    BY <2>2, <2>4 DEF Here
  <2>6. ASSUME Phases PROVE Phases'
    BY <1>1, <2>2, <2>4, <2>5, <2>6, WhileRestoring DEF Restoring
  <2> QED BY <1>1, <2>4, <2>6 DEF Inv
<1> QED BY <1>2, <1>3

LEMMA ImportKeeps ==
    ASSUME Inv, NEW w \in Workers, Import(w)
    PROVE  Inv'
<1> DEFINE m == worker[w].marker
           next == IF m.of = Work THEN stored ELSE worker[w].ids
<1>1. /\ worker[w].pc = "import" /\ untimely' = untimely
      /\ exists' = exists \cup {m.of}
      /\ worker' = [worker EXCEPT ![w].pc = "attach", ![w].ids = next]
  BY DEF Import, Imported, aside
<1>2. \A j \in jobs' \ jobs : j.kind = "preserve"
  BY PreserveKind DEF Import, PreserveSaved
<1> HIDE DEF next
<1>3. /\ Shape'
      /\ \A v \in Workers \ {w} : worker'[v] = worker[v]
      /\ worker'[w].pc = "attach" /\ worker'[w].marker = m /\ worker'[w].outer = worker[w].outer
  BY <1>1 DEF Inv, Shape, IsRun, Fields, Does, Restoring
<1>4. ASSUME Phases PROVE Phases'
  <2>1. Here(w)'
    BY <1>1, <1>3, <1>4 DEF Phases, Here, Does, Restoring
  <2> QED BY <1>1, <1>2, <1>3, <1>4, <2>1, WhileRestoring DEF Does, Restoring
<1> QED BY <1>1, <1>3, <1>4 DEF Inv

LEMMA EndRestoreKeeps ==
    ASSUME Inv, NEW w \in Workers, ImportStale(w) \/ ParentGone(w)
    PROVE  Inv'
<1>1. /\ Rests(w) /\ worker[w].pc \in {"import", "attach"}
      /\ UNCHANGED <<exists, jobs, untimely>>
  BY DEF ImportStale, ParentGone, database, aside
<1>2. /\ Shape'
      /\ \A v \in Workers \ {w} : worker'[v] = worker[v]
      /\ worker'[w].pc = "idle"
  BY <1>1, Rested, IdleRun DEF Inv
<1>3. Here(w)'
  BY <1>2 DEF Here, Does, Restoring
<1>4. ASSUME Phases PROVE Phases'
  BY <1>1, <1>2, <1>3, <1>4, WhileRestoring DEF Does, Restoring
<1> QED BY <1>1, <1>2, <1>4 DEF Inv

LEMMA AttachKeeps ==
    ASSUME Inv, NEW w \in Workers, AttachToParent(w)
    PROVE  Inv'
<1>1. /\ \E pc \in {"members", "finish"} : Goes(w, pc)
      /\ worker[w].pc = "attach" /\ UNCHANGED <<exists, untimely>>
  BY DEF AttachToParent, SaveMembers, database, aside
<1>2. \A j \in jobs' \ jobs : j.kind = "preserve"
  BY PreserveKind DEF AttachToParent, PreserveSaved
<1>3. /\ Shape'
      /\ \A v \in Workers \ {w} : worker'[v] = worker[v]
      /\ worker'[w].pc \in {"members", "finish"}
      /\ worker'[w].marker = worker[w].marker /\ worker'[w].outer = worker[w].outer
  BY <1>1, Went DEF Inv, Restoring
<1>4. ASSUME Phases PROVE Phases'
  <2>1. Here(w)'
    BY <1>1, <1>3, <1>4 DEF Phases, Here, Does, Restoring
  <2> QED BY <1>1, <1>2, <1>3, <1>4, <2>1, WhileRestoring DEF Does, Restoring
<1> QED BY <1>1, <1>3, <1>4 DEF Inv

LEMMA RestoreMemberKeeps ==
    ASSUME Inv, NEW w \in Workers, RestoreMember(w)
    PROVE  Inv'
<1> DEFINE d    == worker[w]
           next == [d EXCEPT !.ids = Tail(@)]
           into(m) == [next EXCEPT !.pc = "import", !.marker = m, !.outer = d.marker]
<1>1. d.pc = "members" /\ UNCHANGED <<exists, jobs, untimely>>
  BY DEF RestoreMember, database, aside
<1>2. IsRun(d)
  BY DEF Inv, Shape
<1>3. IsRun(next) /\ next.pc = "members" /\ next.marker = d.marker /\ next.outer = d.outer
  BY <1>1, <1>2 DEF IsRun, Fields
<1> HIDE DEF next
<1>4. \A m : IsRun(into(m)) /\ into(m).pc = "import" /\ into(m).outer = d.marker
  BY <1>3 DEF IsRun, Fields
<1> HIDE DEF into
<1>5. \/ worker' = [worker EXCEPT ![w] = next]
      \/ \E m \in markers : worker' = [worker EXCEPT ![w] = into(m)]
  BY DEF RestoreMember, next, into
<1>6. /\ Shape'
      /\ \A v \in Workers \ {w} : worker'[v] = worker[v]
      /\ worker'[w] = next \/ \E m \in markers : worker'[w] = into(m)
  <2>1. CASE worker' = [worker EXCEPT ![w] = next]
    BY <1>3, <2>1, Became DEF Inv, Restoring
  <2>2. CASE \E m \in markers : worker' = [worker EXCEPT ![w] = into(m)]
    <3>1. PICK m \in markers : worker' = [worker EXCEPT ![w] = into(m)]
      BY <2>2
    <3> QED BY <1>4, <3>1, Became DEF Inv, Restoring
  <2> QED BY <1>5, <2>1, <2>2
<1>7. ASSUME Phases PROVE Phases'
  <2>1. Here(w)'
    BY <1>1, <1>3, <1>4, <1>6, <1>7 DEF Phases, Here, Does, Restoring
  <2>2. worker'[w].pc \in Restoring
    BY <1>3, <1>4, <1>6 DEF Restoring
  <2> QED BY <1>1, <1>6, <1>7, <2>1, <2>2, WhileRestoring DEF Does, Restoring
<1> QED BY <1>1, <1>6, <1>7 DEF Inv

\* Finish returns from a member to its work, or ends.
LEMMA Finished ==
    ASSUME Shape, NEW w \in Workers, Finish(w)
    PROVE  /\ worker[w].pc \in {"finish", "members"}
           /\ Shape'
           /\ \A v \in Workers \ {w} : worker'[v] = worker[v]
           /\ worker'[w].pc \in {"idle", "members"}
           /\ worker'[w].pc = "members" =>
                 /\ worker[w].outer # Nothing
                 /\ worker'[w].marker = worker[w].outer /\ worker'[w].outer = Nothing
<1> DEFINE d    == worker[w]
           back == [d EXCEPT !.pc = "members", !.marker = d.outer, !.outer = Nothing]
           next == IF d.outer = Nothing THEN Idle ELSE back
<1>1. d.pc \in {"finish", "members"} /\ worker' = [worker EXCEPT ![w] = next]
  BY DEF Finish
<1>2. IsRun(d)
  BY DEF Shape
<1>3. IsRun(back) /\ back.pc = "members" /\ back.marker = d.outer /\ back.outer = Nothing
  BY <1>2 DEF IsRun, Fields
<1> HIDE DEF back
<1>4. /\ IsRun(next) /\ next.pc \in {"idle", "members"}
      /\ next.pc = "members" => d.outer # Nothing /\ next.marker = d.outer /\ next.outer = Nothing
  BY <1>3, IdleRun
<1> HIDE DEF next
<1>5. /\ Shape'
      /\ \A v \in Workers \ {w} : worker'[v] = worker[v]
      /\ worker'[w] = next
  BY <1>1, <1>4, Became DEF Restoring
<1> QED BY <1>1, <1>4, <1>5

LEMMA FinishKeeps ==
    ASSUME Inv, NEW w \in Workers, Finish(w)
    PROVE  Inv'
<1>1. UNCHANGED <<exists, untimely>>
  BY DEF Finish, database, aside
<1>2. \A j \in jobs' \ jobs : j.kind = "characterize"
  BY QueuedKind DEF Finish
<1>3. Shape' /\ \A v \in Workers \ {w} : worker'[v] = worker[v]
  BY Finished DEF Inv
<1>4. ASSUME Phases PROVE Phases'
  <2>1. Here(w)'
    BY <1>1, <1>4, Finished DEF Inv, Phases, Here, Does, Restoring
  <2>2. /\ worker[w].pc \in Restoring
        /\ worker'[w].pc \in {"idle"} \cup Restoring
    BY Finished DEF Inv, Restoring
  <2> QED BY <1>1, <1>2, <1>3, <1>4, <2>1, <2>2, WhileRestoring DEF Does
<1> QED BY <1>1, <1>3, <1>4 DEF Inv

LEMMA FailJobKeeps ==
    ASSUME Inv, NEW w \in Workers, FailJob(w)
    PROVE  Inv'
<1> DEFINE d == worker[w]
<1>1. /\ Rests(w) /\ d.pc \in Deleting \cup Restoring
      /\ UNCHANGED <<exists, object, markers, untimely>>
      /\ jobs' = jobs \cup Retry(d)
  BY DEF FailJob, database, Inv, Shape, Does
<1>2. /\ Shape'
      /\ \A v \in Workers \ {w} : worker'[v] = worker[v]
      /\ worker'[w].pc = "idle"
  BY <1>1, Rested, IdleRun DEF Inv
<1>3. Here(w)' /\ Marked(w)'
  BY <1>2 DEF Here, Marked, Does, Restoring
<1>4. ASSUME Phases PROVE Phases'
  <2>1. CASE d.pc \in Deleting
    <3>1. \A j \in Retry(d) : j.kind = "deleteMember"
      BY <2>1, QueuedKind DEF Retry, Deleting
    <3>2. \A j \in jobs' \ jobs : j.kind # "restore"
      BY <1>1, <3>1
    <3> QED BY <1>1, <1>2, <1>3, <1>4, <2>1, <3>2, WhileDeleting DEF Does
  <2>2. CASE d.pc \in Restoring
    <3>1. \A j \in Retry(d) : j.kind = "restore"
      BY <2>2 DEF Retry, Restoring, RestoreJob
    <3>2. \A j \in jobs' \ jobs : j.kind # "deleteMember"
      BY <1>1, <3>1
    <3> QED BY <1>1, <1>2, <1>3, <1>4, <2>2, <3>2, WhileRestoring DEF Does
  <2> QED BY <1>1, <2>1, <2>2
<1> QED BY <1>1, <1>2, <1>4 DEF Inv

-----------------------------------------------------------------------------
(* The other jobs                                                          *)

LEMMA OtherJobsKeep ==
    ASSUME Inv, NEW j \in jobs,
           \/ RunCleanupFiles(j) \/ RunCleanupPreservation(j)
           \/ PreserveResource(j) \/ PreserveChildren(j) \/ Characterize(j)
    PROVE  Inv'
<1>1. UNCHANGED <<worker, exists, markers, untimely>>
  BY DEF RunCleanupFiles, RunCleanupPreservation, PreserveResource, PreserveChildren, Characterize,
         database, aside
<1>2. jobs' \subseteq jobs \/ j.kind # "cleanupFiles"
  BY DEF RunCleanupFiles, RunCleanupPreservation, PreserveResource, PreserveChildren, Characterize
<1>3. object' = object \/ (Work \in exists /\ j.kind # "cleanupFiles")
  BY PreserveKind DEF RunCleanupFiles, RunCleanupPreservation, PreserveResource, PreserveChildren,
                      Characterize, Preserve
<1>4. \A i \in jobs' \ jobs : i.kind \in {"preserve", "preserveChildren"}
  <2>1. CASE RunCleanupFiles(j) \/ RunCleanupPreservation(j)
    BY <2>1 DEF RunCleanupFiles, RunCleanupPreservation
  <2>2. CASE PreserveResource(j)
    <3>1. \A i \in Children(j.of) : i.kind = "preserveChildren"
      BY DEF Children, ChildrenJob
    <3> QED BY <2>2, <3>1 DEF PreserveResource
  <2>3. CASE PreserveChildren(j)
    BY <2>3 DEF PreserveChildren
  <2>4. CASE Characterize(j)
    BY <2>4, PreserveKind DEF Characterize, Preserve
  <2> QED BY <2>1, <2>2, <2>3, <2>4
<1>5. ASSUME Phases PROVE Phases'
  BY <1>1, <1>2, <1>3, <1>4, <1>5, OtherJob
<1> QED BY <1>1, <1>5, SameShape DEF Inv

-----------------------------------------------------------------------------
LEMMA NextInv == Inv /\ [Next]_vars => Inv'
<1> SUFFICES ASSUME Inv, [Next]_vars PROVE Inv'
  OBVIOUS
<1>1. ASSUME NEW w \in Workers, NEW r \in Resources, Destroy(w, r) PROVE Inv'
  BY <1>1, DestroyKeeps
<1>2. ASSUME NEW w \in Workers, NEW f \in FileSets, DeleteMember(w, f) PROVE Inv'
  BY <1>2, DeleteMemberKeeps
<1>3. ASSUME NEW w \in Workers,
             \/ Commit(w) \/ RollBack(w)
             \/ CleanupStructure(w) \/ CleanupMembership(w) \/ DeleteReferenced(w) \/ DeleteRow(w)
      PROVE  Inv'
  BY <1>3, CommitKeeps, RollBackKeeps, CleanupKeeps, DropKeeps
<1>4. ASSUME NEW w \in Workers,
             \/ TakeRestore(w) \/ Import(w) \/ ImportStale(w) \/ AttachToParent(w) \/ ParentGone(w)
             \/ RestoreMember(w) \/ Finish(w) \/ FailJob(w)
      PROVE  Inv'
  BY <1>4, TakeRestoreKeeps, ImportKeeps, EndRestoreKeeps, AttachKeeps, RestoreMemberKeeps,
     FinishKeeps, FailJobKeeps
<1>5. ASSUME NEW m \in markers, Restore(m) \/ Reinstate(m) PROVE Inv'
  BY <1>5, RestoreKeeps, ReinstateKeeps
<1>6. ASSUME NEW j \in jobs,
             \/ RunCleanupFiles(j) \/ RunCleanupPreservation(j)
             \/ PreserveResource(j) \/ PreserveChildren(j) \/ Characterize(j)
      PROVE  Inv'
  BY <1>6, OtherJobsKeep
<1>7. CASE UNCHANGED vars
  BY <1>7 DEF vars, database, aside, Inv, Shape, Phases, Alone, Here, Marked, OnePhase, HasJob, Does
<1> QED BY <1>1, <1>2, <1>3, <1>4, <1>5, <1>6, <1>7 DEF Next

LEMMA AlwaysInv == Spec => []Inv
BY InitInv, NextInv, PTL DEF Spec

-----------------------------------------------------------------------------
(* NeverLost                                                               *)

StillKept(r) == Recoverable(r) => \/ Recoverable(r)'
                                  \/ r \in exists' /\ ~BeingDeleted(r)'

InDeletion == {"deleting"} \cup Deleting

LEMMA NothingDeleted ==
    ASSUME \A j \in jobs' : j.kind # "deleteMember",
           \A v \in Workers : worker'[v].pc \notin InDeletion
    PROVE  \A r : ~BeingDeleted(r)'
<1>1. \A r : ~(Queued("deleteMember", {r}) \subseteq jobs')
  BY QueuedThere
<1> QED BY <1>1 DEF BeingDeleted, InDeletion, Deleting

LEMMA MoreKept ==
    ASSUME object \subseteq object', markers \subseteq markers'
    PROVE  \A r : StillKept(r)
BY DEF StillKept, Recoverable

LEMMA CommitKept ==
    ASSUME Phases, NEW w \in Workers, Commit(w)
    PROVE  \A r : StillKept(r)
<1>1. /\ object' = object \ {worker[w].of} /\ markers' = markers \cup {worker[w].marker}
      /\ worker[w].pc = "deleting"
  BY DEF Commit
<1>2. /\ worker[w].marker.of = worker[w].of
      /\ worker[w].of \in object => worker[w].marker.kept
  BY <1>1 DEF Phases, Alone, Does
<1> QED BY <1>1, <1>2 DEF StillKept, Recoverable

LEMMA DeleteReferencedKept ==
    ASSUME Phases, NEW w \in Workers, DeleteReferenced(w)
    PROVE  \A r : StillKept(r)
<1>1. object' = object \ {worker[w].of} /\ markers' = markers /\ worker[w].pc = "unlinked"
  BY DEF DeleteReferenced
<1>2. worker[w].of \in object => \E m \in markers : m.of = worker[w].of /\ m.kept
  BY <1>1 DEF Phases, Marked, Does
<1> QED BY <1>1, <1>2 DEF StillKept, Recoverable

LEMMA FinishKept ==
    ASSUME Shape, Phases, NEW w \in Workers, Finish(w)
    PROVE  \A r : StillKept(r)
<1>1. /\ UNCHANGED <<object, exists>> /\ markers' = markers \ {worker[w].marker}
      /\ \A j \in jobs' \ jobs : j.kind = "characterize"
  BY QueuedKind DEF Finish, database
<1>2. worker[w].marker.of \in exists
  BY Finished DEF Phases, Here, Does, Restoring
<1>3. Does(w, Restoring)
  BY Finished DEF Does, Restoring
<1>4. ~HasJob("deleteMember") /\ \A v \in Workers : ~Does(v, Deleting)
  BY <1>3 DEF Phases, OnePhase
<1>5. \A v \in Workers : ~Does(v, {"deleting"})
  BY <1>3 DEF Phases, Alone, Does, Restoring
<1>6. \A v \in Workers : worker'[v].pc \notin InDeletion
  BY <1>4, <1>5, Finished DEF Does, InDeletion, Deleting
<1>7. \A r : ~BeingDeleted(r)'
  BY <1>1, <1>4, <1>6, NothingDeleted DEF HasJob
<1> QED BY <1>1, <1>2, <1>7 DEF StillKept, Recoverable

LEMMA ReinstateKept ==
    ASSUME NEW m \in markers, Reinstate(m), ~untimely'
    PROVE  \A r : StillKept(r)
<1>1. CASE m.kept
  <2>1. m.of \in exists' /\ markers' = markers \ {m} /\ UNCHANGED <<object, worker>>
    BY <1>1 DEF Reinstate, Reimported
  <2>2. jobs = {} /\ \A v \in Workers : worker[v].pc = "idle"
    BY InTime DEF Reinstate
  <2>3. \A j \in jobs' : j.kind \in {"characterize", "preserve"}
    BY <2>2, QueuedKind, PreserveKind DEF Reinstate, PreserveSaved
  <2>4. \A r : ~BeingDeleted(r)'
    BY <2>1, <2>2, <2>3, NothingDeleted DEF InDeletion, Deleting
  <2> QED BY <2>1, <2>4 DEF StillKept, Recoverable
<1>2. CASE ~m.kept
  BY <1>2, MoreKept DEF Reinstate
<1> QED BY <1>1, <1>2

\* What has been preserved can be restored after it was deleted, for any number of
\* file sets, threads, failures and crashes, if each request comes when the one before
\* has got through: DeletionMarkers are made before the PreservationObject goes, and
\* deleted after the resource is back.
THEOREM NothingLost == Spec => NeverLost
<1>1. Inv /\ [Next]_vars => untimely' \/ \A r \in Resources : StillKept(r)
  <2> SUFFICES ASSUME Inv, [Next]_vars, ~untimely' PROVE \A r : StillKept(r)
    OBVIOUS
  <2>1. CASE object \subseteq object' /\ markers \subseteq markers'
    BY <2>1, MoreKept
  <2>2. CASE \E w \in Workers : Commit(w) \/ DeleteReferenced(w) \/ Finish(w)
    <3>1. ~untimely
      BY <2>2 DEF Commit, DeleteReferenced, Finish, aside
    <3> QED BY <2>2, <3>1, CommitKept, DeleteReferencedKept, FinishKept DEF Inv
  <2>3. CASE \E m \in markers : Reinstate(m)
    BY <2>3, ReinstateKept
  <2>4. ASSUME NEW w \in Workers,
               \/ \E r \in Resources : Destroy(w, r)
               \/ RollBack(w) \/ (\E f \in FileSets : DeleteMember(w, f))
               \/ CleanupStructure(w) \/ CleanupMembership(w) \/ DeleteRow(w)
        PROVE  object \subseteq object' /\ markers \subseteq markers'
    BY <2>4 DEF Destroy, RollBack, DeleteMember, CleanupStructure, CleanupMembership, DeleteRow
  <2>5. ASSUME NEW w \in Workers,
               \/ TakeRestore(w) \/ Import(w) \/ ImportStale(w) \/ AttachToParent(w) \/ ParentGone(w)
               \/ RestoreMember(w) \/ FailJob(w)
        PROVE  object \subseteq object' /\ markers \subseteq markers'
    BY <2>5 DEF TakeRestore, Import, ImportStale, AttachToParent, ParentGone, RestoreMember, FailJob
  <2>6. ASSUME NEW j \in jobs, \/ RunCleanupFiles(j) \/ RunCleanupPreservation(j)
                               \/ PreserveResource(j) \/ PreserveChildren(j) \/ Characterize(j)
        PROVE  object \subseteq object' /\ markers \subseteq markers'
    BY <2>6 DEF RunCleanupFiles, RunCleanupPreservation, PreserveResource, PreserveChildren, Characterize
  <2>7. ASSUME NEW m \in markers, Restore(m)
        PROVE  object \subseteq object' /\ markers \subseteq markers'
    BY <2>7 DEF Restore
  <2>8. CASE UNCHANGED vars
    BY <2>8, MoreKept DEF vars
  <2> QED BY <2>1, <2>2, <2>3, <2>4, <2>5, <2>6, <2>7, <2>8 DEF Next
<1> QED BY <1>1, AlwaysInv, PTL DEF Spec, NeverLost, StillKept

-----------------------------------------------------------------------------
(* BinariesThere                                                           *)

CleanupsOf(f) == {j \in jobs : j.kind = "cleanupFiles" /\ j.of = f}

\* A CleanupFilesJob for the file that a file set names now belongs to a deletion
\* that is under way.
Filed(f) ==
    /\ f \in exists => binary[f].there \/ BeingDeleted(f)
    /\ \A j \in CleanupsOf(f) :
          /\ j.id <= binary[f].id
          /\ j.id = binary[f].id /\ f \in exists => BeingDeleted(f)

Binaries ==
    /\ binary \in [FileSets -> [id : Nat, there : BOOLEAN]]
    /\ \A j \in jobs : j.kind = "cleanupFiles" => j.of \in FileSets /\ j.id \in Nat
    /\ "crashes" \in failed \/ \A f \in FileSets : Filed(f)

\* A deletion goes on, whatever else happens.
LEMMA Undisturbed ==
    ASSUME NEW w \in Workers, NEW r, BeingDeleted(r),
           \A v \in Workers \ {w} : worker'[v] = worker[v],
           worker[w].pc \notin InDeletion
              \/ (worker'[w].pc \in InDeletion /\ worker'[w].of = worker[w].of),
           \A j \in jobs \ jobs' : j.kind # "deleteMember"
    PROVE  BeingDeleted(r)'
<1>1. CASE Queued("deleteMember", {r}) \subseteq jobs
  <2>1. \A j \in Queued("deleteMember", {r}) : j.kind = "deleteMember"
    BY QueuedKind
  <2> QED BY <1>1, <2>1 DEF BeingDeleted
<1>2. CASE \E v \in Workers : worker[v].of = r /\ worker[v].pc \in InDeletion
  BY <1>2 DEF BeingDeleted, InDeletion, Deleting
<1> QED BY <1>1, <1>2 DEF BeingDeleted, InDeletion, Deleting

LEMMA SameThreads ==
    ASSUME NEW r, BeingDeleted(r), UNCHANGED worker,
           \A j \in jobs \ jobs' : j.kind # "deleteMember"
    PROVE  BeingDeleted(r)'
BY QueuedKind DEF BeingDeleted

LEMMA SameFile ==
    ASSUME NEW f, Filed(f), binary'[f] = binary[f], f \in exists' => f \in exists,
           \A j \in jobs' \ jobs : j.kind = "cleanupFiles" => j.of # f,
           f \in exists' /\ BeingDeleted(f) => BeingDeleted(f)'
    PROVE  Filed(f)'
BY DEF Filed, CleanupsOf

\* A new file is one that no job knows.
LEMMA NewFile ==
    ASSUME NEW f \in FileSets, Binaries, Filed(f),
           binary'[f] = [id |-> binary[f].id + 1, there |-> TRUE],
           \A j \in jobs' \ jobs : j.kind # "cleanupFiles"
    PROVE  Filed(f)'
BY DEF Filed, CleanupsOf, Binaries

\* A step that adds no CleanupFilesJob and touches no file.
LEMMA NoFileTouched ==
    ASSUME Binaries, UNCHANGED binary, failed \subseteq failed', exists' \subseteq exists,
           \A j \in jobs' \ jobs : j.kind # "cleanupFiles",
           \A r \in exists' : BeingDeleted(r) => BeingDeleted(r)'
    PROVE  Binaries'
<1>1. \A f \in FileSets : Filed(f) => Filed(f)'
  BY SameFile
<1> QED BY <1>1 DEF Binaries

LEMMA InitBinaries == Init => Binaries
BY DEF Init, Binaries, Filed, CleanupsOf

LEMMA DestroyFiles ==
    ASSUME Shape, Binaries, NEW w \in Workers, NEW r \in Resources, Destroy(w, r)
    PROVE  Binaries'
<1> DEFINE new == {CleanupFiles(f) : f \in {r} \cap FileSets}
<1>1. /\ UNCHANGED <<binary, exists, failed>> /\ jobs' = jobs \cup new
      /\ worker[w].pc = "idle"
  BY DEF Destroy, Request, database
<1>2. /\ \A v \in Workers \ {w} : worker'[v] = worker[v]
      /\ worker'[w].pc = "deleting" /\ worker'[w].of = r
  BY IdleRun DEF Destroy, Shape, IsRun, Fields
<1>3. \A j \in new : j.of = r /\ r \in FileSets /\ j.id = binary[r].id /\ j.kind = "cleanupFiles"
  BY DEF CleanupFiles
<1> HIDE DEF new
<1>4. BeingDeleted(r)'
  BY <1>2 DEF BeingDeleted
<1>5. \A f \in FileSets : Filed(f) => Filed(f)'
  <2>1. ASSUME NEW f \in FileSets, Filed(f), f # r PROVE Filed(f)'
    <3>1. BeingDeleted(f) => BeingDeleted(f)'
      BY <1>1, <1>2, Undisturbed DEF InDeletion, Deleting
    <3> QED BY <1>1, <1>3, <2>1, <3>1, SameFile
  <2>2. ASSUME r \in FileSets, Filed(r) PROVE Filed(r)'
    <3>1. binary[r].id \in Nat
      BY <2>2 DEF Binaries
    <3> QED BY <1>1, <1>3, <1>4, <2>2, <3>1 DEF Filed, CleanupsOf
  <2> QED BY <2>1, <2>2
<1>6. \A j \in new : j.of \in FileSets /\ j.id \in Nat
  BY <1>3 DEF Binaries
<1> QED BY <1>1, <1>5, <1>6 DEF Binaries

LEMMA DeleteMemberFiles ==
    ASSUME Shape, Binaries, NEW w \in Workers, NEW f \in FileSets, DeleteMember(w, f)
    PROVE  Binaries'
<1> DEFINE job == Queued("deleteMember", {f})
<1>1. UNCHANGED <<binary, exists, failed>> /\ worker[w].pc = "idle"
  BY DEF DeleteMember, database, aside
<1>2. \A j \in job : j.kind = "deleteMember" /\ j.of = f
  BY QueuedKind
<1> HIDE DEF job
<1>3. CASE f \in exists
  <2>1. jobs' = (jobs \ job) \cup {CleanupFiles(f)}
    BY <1>3 DEF DeleteMember, job
  <2>2. /\ \A v \in Workers \ {w} : worker'[v] = worker[v]
        /\ worker'[w].pc = "marked" /\ worker'[w].of = f
    BY <1>3, IdleRun DEF DeleteMember, Shape, IsRun, Fields
  <2>3. CleanupFiles(f).of = f /\ CleanupFiles(f).id = binary[f].id /\ CleanupFiles(f).kind = "cleanupFiles"
    BY DEF CleanupFiles
  <2>4. BeingDeleted(f)'
    BY <2>2 DEF BeingDeleted
  <2>5. binary[f].id \in Nat
    BY DEF Binaries
  <2>6. Filed(f) => Filed(f)'
    BY <1>1, <1>2, <2>1, <2>3, <2>4, <2>5 DEF Filed, CleanupsOf
  <2>7. ASSUME NEW g \in FileSets \ {f}, Filed(g) PROVE Filed(g)'
    <3>1. ASSUME BeingDeleted(g) PROVE BeingDeleted(g)'
      <4>1. CASE Queued("deleteMember", {g}) \subseteq jobs
        <5>1. \A j \in Queued("deleteMember", {g}) : j.of = g
          BY QueuedKind
        <5> QED BY <1>2, <2>1, <4>1, <5>1 DEF BeingDeleted
      <4>2. CASE ~(Queued("deleteMember", {g}) \subseteq jobs)
        BY <1>1, <2>2, <3>1, <4>2 DEF BeingDeleted
      <4> QED BY <4>1, <4>2
    <3> QED BY <1>1, <2>1, <2>3, <2>7, <3>1, SameFile
  <2> QED BY <1>1, <2>1, <2>3, <2>5, <2>6, <2>7 DEF Binaries
<1>4. CASE f \notin exists
  <2>1. jobs' = jobs \ job /\ UNCHANGED worker
    BY <1>4 DEF DeleteMember, job
  <2>2. ASSUME NEW r \in exists', BeingDeleted(r) PROVE BeingDeleted(r)'
    <3>1. \A j \in Queued("deleteMember", {r}) : j.of = r
      BY QueuedKind
    <3> QED BY <1>1, <1>2, <1>4, <2>1, <2>2, <3>1 DEF BeingDeleted
  <2> QED BY <1>1, <2>1, <2>2, NoFileTouched
<1> QED BY <1>3, <1>4

\* What is deleted at last needs no file.
LEMMA DeletionFiles ==
    ASSUME Shape, Binaries, NEW w \in Workers,
           \/ Commit(w) \/ RollBack(w)
           \/ CleanupStructure(w) \/ CleanupMembership(w) \/ DeleteReferenced(w) \/ DeleteRow(w)
    PROVE  Binaries'
<1>1. CASE Commit(w) \/ DeleteRow(w)
  <2>1. /\ UNCHANGED binary /\ exists' = exists \ {worker[w].of} /\ failed \subseteq failed'
        /\ jobs \subseteq jobs' /\ Rests(w)
    BY <1>1 DEF Commit, DeleteRow, Failure, aside
  <2>2. \A j \in jobs' \ jobs : j.kind # "cleanupFiles"
    BY <1>1, QueuedKind, PreserveKind DEF Commit, DeleteRow, AfterDelete, PreserveSaved
  <2>3. \A v \in Workers \ {w} : worker'[v] = worker[v]
    BY <2>1, Rested
  <2>4. \A r \in exists' : BeingDeleted(r) => BeingDeleted(r)'
    BY <2>1, <2>3 DEF BeingDeleted
  <2> QED BY <2>1, <2>2, <2>4, NoFileTouched
<1>2. CASE RollBack(w)
  BY <1>2 DEF RollBack, Failure, Binaries
<1>3. CASE CleanupStructure(w) \/ CleanupMembership(w) \/ DeleteReferenced(w)
  <2>1. /\ UNCHANGED <<binary, exists, failed>> /\ jobs \subseteq jobs'
        /\ \E pc \in {"unlisting", "unlinked", "dropped"} : Goes(w, pc)
    BY <1>3 DEF CleanupStructure, CleanupMembership, DeleteReferenced, SaveMembers, database, aside
  <2>2. \A j \in jobs' \ jobs : j.kind # "cleanupFiles"
    BY <1>3, QueuedKind, PreserveKind
       DEF CleanupStructure, CleanupMembership, DeleteReferenced, PreserveSaved
  <2>3. /\ \A v \in Workers \ {w} : worker'[v] = worker[v]
        /\ worker'[w].pc \in InDeletion /\ worker'[w].of = worker[w].of
    BY <2>1, Went DEF Deleting, InDeletion
  <2>4. \A r : BeingDeleted(r) => BeingDeleted(r)'
    BY <2>1, <2>3, Undisturbed
  <2> QED BY <2>1, <2>2, <2>4, NoFileTouched
<1> QED BY <1>1, <1>2, <1>3

\* A restoration disturbs no deletion, and imports a file under a new identifier.
LEMMA RestorationFiles ==
    ASSUME Shape, Binaries, NEW w \in Workers,
           \/ TakeRestore(w) \/ ImportStale(w) \/ AttachToParent(w) \/ ParentGone(w)
           \/ RestoreMember(w) \/ Finish(w)
    PROVE  Binaries'
<1>1. UNCHANGED <<binary, exists>> /\ failed \subseteq failed'
  BY DEF TakeRestore, ImportStale, AttachToParent, ParentGone, RestoreMember, Finish,
         SaveMembers, database, aside
<1>2. worker[w].pc \notin InDeletion
  BY DEF TakeRestore, ImportStale, AttachToParent, ParentGone, RestoreMember, Finish,
         InDeletion, Deleting
<1>3. \A v \in Workers \ {w} : worker'[v] = worker[v]
  BY DEF TakeRestore, ImportStale, AttachToParent, ParentGone, RestoreMember, Finish,
         Goes, Rests, Shape
<1>4. \A j \in jobs \ jobs' : j.kind # "deleteMember"
  BY DEF TakeRestore, ImportStale, AttachToParent, ParentGone, RestoreMember, Finish
<1>5. \A j \in jobs' \ jobs : j.kind # "cleanupFiles"
  <2>1. CASE TakeRestore(w) \/ ImportStale(w) \/ ParentGone(w) \/ RestoreMember(w)
    BY <2>1 DEF TakeRestore, ImportStale, ParentGone, RestoreMember
  <2>2. CASE AttachToParent(w)
    BY <2>2, PreserveKind DEF AttachToParent, PreserveSaved
  <2>3. CASE Finish(w)
    BY <2>3, QueuedKind DEF Finish
  <2> QED BY <2>1, <2>2, <2>3
<1>6. \A r : BeingDeleted(r) => BeingDeleted(r)'
  BY <1>2, <1>3, <1>4, Undisturbed
<1> QED BY <1>1, <1>5, <1>6, NoFileTouched

LEMMA ImportFiles ==
    ASSUME Shape, Binaries, NEW w \in Workers, Import(w)
    PROVE  Binaries'
<1> DEFINE m == worker[w].marker
<1>1. /\ exists' = exists \cup {m.of} /\ failed' = failed /\ jobs \subseteq jobs'
      /\ worker[w].pc = "import"
      /\ binary' = [f \in FileSets |->
           IF f = m.of THEN [id |-> binary[f].id + 1, there |-> TRUE] ELSE binary[f]]
  BY DEF Import, Imported, aside
<1>2. \A j \in jobs' \ jobs : j.kind # "cleanupFiles"
  BY PreserveKind DEF Import, PreserveSaved
<1>3. \A v \in Workers \ {w} : worker'[v] = worker[v]
  BY DEF Import, Shape
<1>4. \A r : BeingDeleted(r) => BeingDeleted(r)'
  BY <1>1, <1>3, Undisturbed DEF InDeletion, Deleting
<1>5. ASSUME NEW f \in FileSets, Filed(f) PROVE Filed(f)'
  <2>1. CASE f = m.of
    BY <1>1, <1>2, <1>5, <2>1, NewFile
  <2>2. CASE f # m.of
    BY <1>1, <1>2, <1>4, <1>5, <2>2, SameFile
  <2> QED BY <2>1, <2>2
<1>6. binary' \in [FileSets -> [id : Nat, there : BOOLEAN]]
  BY <1>1 DEF Binaries
<1> QED BY <1>1, <1>2, <1>5, <1>6 DEF Binaries

LEMMA RequestFiles ==
    ASSUME Binaries, NEW m \in markers, Restore(m) \/ Reinstate(m)
    PROVE  Binaries'
<1>1. UNCHANGED <<worker, failed>> /\ jobs \subseteq jobs'
  BY DEF Restore, Reinstate, Request
<1>2. \A j \in jobs' \ jobs : j.kind # "cleanupFiles"
  BY QueuedKind, PreserveKind DEF Restore, RestoreJob, Reinstate, PreserveSaved
<1>3. \A r : BeingDeleted(r) => BeingDeleted(r)'
  BY <1>1, SameThreads
<1>4. CASE UNCHANGED <<binary, exists>>
  BY <1>1, <1>2, <1>3, <1>4, NoFileTouched
<1>5. CASE Reinstate(m) /\ m.kept
  <2>1. /\ exists' = exists \cup {m.of}
        /\ binary' = [binary EXCEPT ![m.of] = [id |-> @.id + 1, there |-> TRUE]]
    BY <1>5 DEF Reinstate, Reimported
  <2>2. ASSUME NEW f \in FileSets, Filed(f) PROVE Filed(f)'
    <3>1. CASE f = m.of
      <4>1. binary'[f] = [id |-> binary[f].id + 1, there |-> TRUE]
        BY <2>1, <3>1 DEF Binaries
      <4> QED BY <1>2, <2>2, <4>1, NewFile
    <3>2. CASE f # m.of
      <4>1. binary'[f] = binary[f]
        BY <2>1, <3>2 DEF Binaries
      <4> QED BY <1>2, <1>3, <2>1, <2>2, <3>2, <4>1, SameFile
    <3> QED BY <3>1, <3>2
  <2>3. binary' \in [FileSets -> [id : Nat, there : BOOLEAN]]
    <3>1. CASE m.of \in FileSets
      BY <2>1, <3>1 DEF Binaries
    <3>2. CASE m.of \notin FileSets
      <4>1. binary' = binary
        BY <2>1, <3>2 DEF Binaries
      <4> QED BY <4>1 DEF Binaries
    <3> QED BY <3>1, <3>2
  <2> QED BY <1>1, <1>2, <2>2, <2>3 DEF Binaries
<1> QED BY <1>4, <1>5 DEF Restore, Reinstate, SaveMembers, database

LEMMA FailJobFiles ==
    ASSUME Shape, Binaries, NEW w \in Workers, FailJob(w)
    PROVE  Binaries'
<1> DEFINE d == worker[w]
<1>1. /\ UNCHANGED <<binary, exists>> /\ failed \subseteq failed' /\ jobs' = jobs \cup Retry(d)
      /\ Rests(w) /\ d.pc # "deleting"
  BY DEF FailJob, Failure, database
<1>2. \A j \in Retry(d) : j.kind \in {"deleteMember", "restore"}
  BY QueuedKind DEF Retry, RestoreJob
<1>3. \A v \in Workers \ {w} : worker'[v] = worker[v]
  BY <1>1, Rested
<1>4. ASSUME NEW r, BeingDeleted(r) PROVE BeingDeleted(r)'
  <2>1. CASE d.pc \in InDeletion /\ d.of = r
    BY <1>1, <2>1 DEF Retry, BeingDeleted, InDeletion, Deleting
  <2>2. CASE ~(d.pc \in InDeletion /\ d.of = r)
    BY <1>1, <1>3, <1>4, <2>2 DEF BeingDeleted, InDeletion, Deleting
  <2> QED BY <2>1, <2>2
<1> QED BY <1>1, <1>2, <1>4, NoFileTouched

LEMMA OtherJobFiles ==
    ASSUME Binaries, NEW j \in jobs,
           \/ RunCleanupFiles(j) \/ RunCleanupPreservation(j)
           \/ PreserveResource(j) \/ PreserveChildren(j) \/ Characterize(j)
    PROVE  Binaries'
<1>1. UNCHANGED <<worker, exists, failed>>
  BY DEF RunCleanupFiles, RunCleanupPreservation, PreserveResource, PreserveChildren, Characterize,
         database, aside
<1>2. jobs \ jobs' \subseteq {j} /\ j.kind # "deleteMember"
  BY DEF RunCleanupFiles, RunCleanupPreservation, PreserveResource, PreserveChildren, Characterize
<1>3. \A r : BeingDeleted(r) => BeingDeleted(r)'
  BY <1>1, <1>2, SameThreads
<1>4. CASE RunCleanupFiles(j)
  <2>1. /\ jobs' = jobs \ {j} /\ j.kind = "cleanupFiles" /\ j.of \in FileSets
        /\ binary' = [binary EXCEPT ![j.of].there = @ /\ binary[j.of].id # j.id]
    BY <1>4 DEF RunCleanupFiles, Binaries
  <2>2. binary' \in [FileSets -> [id : Nat, there : BOOLEAN]]
    BY <2>1 DEF Binaries
  <2>3. ASSUME NEW f \in FileSets, Filed(f) PROVE Filed(f)'
    <3>1. CASE f # j.of
      <4>1. binary'[f] = binary[f]
        BY <2>1, <3>1 DEF Binaries
      <4> QED BY <1>1, <1>3, <2>1, <2>3, <4>1, SameFile
    <3>2. CASE f = j.of
      <4>1. /\ binary'[f].id = binary[f].id
            /\ binary[f].id # j.id => binary'[f].there = binary[f].there
        BY <2>1, <3>2 DEF Binaries
      <4>2. f \in exists => binary'[f].there \/ BeingDeleted(f)'
        BY <1>3, <2>1, <2>3, <3>2, <4>1 DEF Filed, CleanupsOf
      <4> QED BY <1>1, <1>3, <2>1, <2>3, <4>1, <4>2 DEF Filed, CleanupsOf
    <3> QED BY <3>1, <3>2
  <2> QED BY <1>1, <2>1, <2>2, <2>3 DEF Binaries
<1>5. CASE ~RunCleanupFiles(j)
  <2>1. UNCHANGED binary
    BY <1>5 DEF RunCleanupPreservation, PreserveResource, PreserveChildren, Characterize
  <2>2. \A i \in Children(j.of) : i.kind = "preserveChildren"
    BY DEF Children, ChildrenJob
  <2>3. \A i \in jobs' \ jobs : i.kind # "cleanupFiles"
    BY <1>5, <2>2, PreserveKind
       DEF RunCleanupPreservation, PreserveResource, PreserveChildren, Characterize, Preserve
  <2> QED BY <1>1, <1>3, <2>1, <2>3, NoFileTouched
<1> QED BY <1>4, <1>5

LEMMA NextBinaries == Inv /\ Binaries /\ [Next]_vars => Binaries'
<1> SUFFICES ASSUME Inv, Binaries, [Next]_vars PROVE Binaries'
  OBVIOUS
<1>1. Shape
  BY DEF Inv
<1>2. ASSUME NEW w \in Workers,
             \/ \E r \in Resources : Destroy(w, r)
             \/ \E f \in FileSets : DeleteMember(w, f)
             \/ Commit(w) \/ RollBack(w)
             \/ CleanupStructure(w) \/ CleanupMembership(w) \/ DeleteReferenced(w) \/ DeleteRow(w)
      PROVE  Binaries'
  BY <1>1, <1>2, DestroyFiles, DeleteMemberFiles, DeletionFiles
<1>3. ASSUME NEW w \in Workers,
             \/ TakeRestore(w) \/ Import(w) \/ ImportStale(w) \/ AttachToParent(w) \/ ParentGone(w)
             \/ RestoreMember(w) \/ Finish(w) \/ FailJob(w)
      PROVE  Binaries'
  BY <1>1, <1>3, RestorationFiles, ImportFiles, FailJobFiles
<1>4. ASSUME NEW m \in markers, Restore(m) \/ Reinstate(m) PROVE Binaries'
  BY <1>4, RequestFiles
<1>5. ASSUME NEW j \in jobs,
             \/ RunCleanupFiles(j) \/ RunCleanupPreservation(j)
             \/ PreserveResource(j) \/ PreserveChildren(j) \/ Characterize(j)
      PROVE  Binaries'
  BY <1>5, OtherJobFiles
<1>6. CASE UNCHANGED vars
  BY <1>6 DEF vars, database, aside, Binaries, Filed, CleanupsOf, BeingDeleted
<1> QED BY <1>2, <1>3, <1>4, <1>5, <1>6 DEF Next

\* Unless a request has failed after it had queued its CleanupFilesJob, a file set has
\* its file or is being deleted, whatever users ask for and in whatever order the jobs
\* run: an import gets a file of its own, which no job of an earlier deletion names.
THEOREM FilesThere == Spec => []BinariesThere
<1>1. Binaries => BinariesThere
  BY DEF Binaries, Filed, BinariesThere
<1> QED BY <1>1, AlwaysInv, InitBinaries, NextBinaries, PTL DEF Spec
-----------------------------------------------------------------------------
(***************************************************************************)
(* Types                                                                   *)
(***************************************************************************)
\* A marker whose parent is the work belongs to a file set.
Proper(m) == m \in DeletionMarker /\ (m.parent = Work => m.of \in FileSets)

\* A request that deletes and a job that restores have a marker.
RunTyped(d) == /\ d \in Run
               /\ d.pc \notin {"idle"} \cup Deleting => Proper(d.marker)
               /\ d.outer # Nothing => Proper(d.outer)

RunsTyped == /\ worker = [w \in Workers |-> worker[w]]
             /\ \A w \in Workers : RunTyped(worker[w])

TypeInv == /\ TypeOK
           /\ \A m \in markers : Proper(m)
           /\ RunsTyped

LEMMA WithoutTyped ==
    ASSUME NEW ids \in Seq(FileSets), NEW gone
    PROVE  /\ Without(ids, gone) \in Seq(FileSets)
           /\ ToSet(Without(ids, gone)) = ToSet(ids) \ gone
<1> DEFINE rest == CHOOSE g : IsFilter(g, ids, gone)
<1>1. Without(ids, gone) = rest[Len(ids)]
  BY Zenon DEF Without, IsFilter
<1>2. IsFilter(rest, ids, gone)
  BY FilterRec
<1> HIDE DEF rest
<1> QED BY <1>1, <1>2, Filtered

LEMMA QueuedTyped ==
    ASSUME NEW kind \in {"deleteMember", "cleanupPreservation", "characterize"}, NEW rs \in SUBSET Resources
    PROVE  \A j \in Queued(kind, rs) : j \in Job
BY DEF Queued, Job

LEMMA PreserveTyped ==
    ASSUME NEW rs, NEW there \in SUBSET Resources, NEW ids, NEW t \in Nat
    PROVE  \A j \in PreserveJobs(rs, there, ids, t) : j \in Job
BY DEF PreserveJobs, Job

LEMMA MarkerTyped ==
    ASSUME TypeInv, NEW r \in Resources, NEW parent \in {Work, Nothing}, parent = Work => r \in FileSets
    PROVE  Proper(MarkerOf(r, parent))
BY DEF TypeInv, TypeOK, Proper, MarkerOf, DeletionMarker

LEMMA IdleTyped == RunTyped(Idle)
BY DEF Idle, RunTyped, Run, Resources

LEMMA ProperMarker ==
    ASSUME NEW m, Proper(m)
    PROVE  /\ m # Nothing /\ m.of \in Resources /\ m.id \in Nat /\ m.parent \in {Work, Nothing}
           /\ Work # Nothing /\ Work \notin FileSets /\ RestoreJob(m) \in Job
<1>1. m \in DeletionMarker
  BY DEF Proper
<1>2. m # Nothing /\ Work # Nothing /\ Work \notin FileSets
  BY <1>1, DeletionAssumption DEF Resources
<1>3. m.of \in Resources /\ m.id \in Nat /\ m.parent \in {Work, Nothing}
  BY <1>1 DEF DeletionMarker
<1> QED BY <1>2, <1>3 DEF RestoreJob, Job

\* One thread goes on with a run.
LEMMA RunBecame ==
    ASSUME TypeInv, NEW w \in Workers, NEW d, RunTyped(d), worker' = [worker EXCEPT ![w] = d]
    PROVE  RunsTyped' /\ worker' \in [Workers -> Run]
<1>1. \A v \in Workers : RunTyped(worker'[v])
  BY DEF TypeInv, RunsTyped
<1>2. worker' = [v \in Workers |-> worker'[v]]
  BY DEF TypeInv, RunsTyped
<1>3. RunsTyped'
  BY <1>1, <1>2 DEF RunsTyped
<1> QED BY <1>1, <1>2, <1>3 DEF RunTyped

LEMMA RunGoes ==
    ASSUME TypeInv, NEW w \in Workers, NEW pc, Goes(w, pc),
           \/ pc \in Deleting
           \/ pc \in Restoring /\ worker[w].pc \in Restoring
    PROVE  RunsTyped' /\ worker' \in [Workers -> Run]
<1> DEFINE d == [worker[w] EXCEPT !.pc = pc]
<1>1. worker' = [worker EXCEPT ![w] = d]
  BY DEF Goes
<1>2. RunTyped(worker[w])
  BY DEF TypeInv, RunsTyped
<1>3. d \in Run
  BY <1>2 DEF RunTyped, Run, Deleting, Restoring
<1>4. d.pc = pc /\ d.marker = worker[w].marker /\ d.outer = worker[w].outer
  BY <1>2 DEF RunTyped, Run
<1>5. RunTyped(d)
  BY <1>2, <1>3, <1>4 DEF RunTyped, Deleting, Restoring
<1> HIDE DEF d
<1> QED BY <1>1, <1>5, RunBecame

LEMMA RunRests ==
    ASSUME TypeInv, NEW w \in Workers, Rests(w)
    PROVE  RunsTyped' /\ worker' \in [Workers -> Run]
BY IdleTyped, RunBecame DEF Rests

LEMMA RunSame ==
    ASSUME TypeInv, UNCHANGED worker
    PROVE  RunsTyped' /\ worker' \in [Workers -> Run]
BY DEF TypeInv, TypeOK, RunsTyped

LEMMA BoundsTyped ==
    ASSUME TypeInv, NEW event \in Events
    PROVE  /\ Request(event) => left' \in [Events -> Nat] /\ untimely' \in BOOLEAN /\ failed' \subseteq Events
           /\ Failure(event) => left' \in [Events -> Nat] /\ failed' \subseteq Events
<1>1. ASSUME Spend(event) PROVE left' \in [Events -> Nat]
  <2>1. left \in [Events -> Nat] /\ left[event] > 0
    BY <1>1 DEF TypeInv, TypeOK, Spend
  <2>2. left[event] - 1 \in Nat
    BY <2>1
  <2> QED BY <1>1, <2>1, <2>2 DEF Spend
<1>2. untimely \in BOOLEAN /\ failed \subseteq Events
  BY DEF TypeInv, TypeOK
<1> QED BY <1>1, <1>2 DEF Request, Failure

LEMMA InitTypes == Init => TypeInv
<1> SUFFICES ASSUME Init PROVE TypeInv
  OBVIOUS
<1>1. members \in Seq(FileSets)
  <2>1. members \in [1 .. Cardinality(FileSets) -> FileSets]
    BY DEF Init, SetToSeqs
  <2>2. Cardinality(FileSets) \in Nat
    BY FS_CardinalityType, DeletionAssumption
  <2> QED BY <2>1, <2>2
<1>2. RunsTyped /\ worker \in [Workers -> Run]
  BY IdleTyped DEF Init, RunsTyped, RunTyped
<1>3. TypeOK
  BY <1>1, <1>2, DeletionAssumption DEF Init, TypeOK, Resources
<1> QED BY <1>2, <1>3 DEF Init, TypeInv

LEMMA DestroyTypes ==
    ASSUME TypeInv, NEW w \in Workers, NEW r \in Resources, Destroy(w, r)
    PROVE  TypeInv'
<1> DEFINE ids == IF r = Work THEN members ELSE <<>>
           m   == MarkerOf(r, IF r # Work /\ Listed(r) THEN Work ELSE Nothing)
           d   == [Idle EXCEPT !.pc = "deleting", !.of = r, !.ids = ids, !.marker = m]
           new == {CleanupFiles(f) : f \in {r} \cap FileSets}
<1>1. /\ worker' = [worker EXCEPT ![w] = d] /\ wanted' = wanted \ ({r} \cup ToSet(ids))
      /\ jobs' = jobs \cup new /\ made' = made + 1 /\ Request("deletes")
      /\ UNCHANGED <<exists, members, token, binary, object, cloud, stored, markers>>
  BY DEF Destroy, database
<1>2. Proper(m)
  <2>1. Work # Nothing /\ (r # Work => r \in FileSets)
    BY DeletionAssumption DEF Resources
  <2> QED BY <2>1, MarkerTyped
<1>3. ids \in Seq(FileSets)
  BY DEF TypeInv, TypeOK
<1> HIDE DEF m, ids
<1>4. RunTyped(d)
  <2>1. d.outer = Nothing /\ d.marker = m /\ d.pc = "deleting"
    BY DEF Idle
  <2>2. m \in DeletionMarker
    BY <1>2 DEF Proper
  <2>3. d \in Run
    BY <1>3, <2>2 DEF Run, Idle
  <2> HIDE DEF d
  <2> QED BY <1>2, <2>1, <2>3 DEF RunTyped
<1> HIDE DEF d
<1>5. RunsTyped' /\ worker' \in [Workers -> Run]
  BY <1>1, <1>4, RunBecame
<1>6. new \subseteq Job
  BY DEF CleanupFiles, Job, TypeInv, TypeOK, Resources
<1> HIDE DEF new
<1>7. left' \in [Events -> Nat] /\ untimely' \in BOOLEAN /\ failed' \subseteq Events
  BY <1>1, BoundsTyped DEF Events
<1>8. TypeOK'
  BY <1>1, <1>5, <1>6, <1>7 DEF TypeInv, TypeOK
<1> QED BY <1>1, <1>5, <1>8 DEF TypeInv

LEMMA CommitTypes ==
    ASSUME TypeInv, NEW w \in Workers, Commit(w)
    PROVE  TypeInv'
<1> DEFINE d == worker[w]
<1>1. /\ exists' = exists \ {d.of} /\ object' = object \ {d.of} /\ markers' = markers \cup {d.marker}
      /\ Rests(w) /\ UNCHANGED <<binary, cloud, stored, made, wanted, untimely>>
      /\ d.pc = "deleting"
  BY DEF Commit
<1>2. Proper(d.marker) /\ d.of \in Resources /\ d.ids \in Seq(FileSets)
  BY <1>1 DEF TypeInv, RunsTyped, RunTyped, Run, Deleting
<1>3. members' \in Seq(FileSets) /\ token' \in Nat
  BY WithoutTyped DEF Commit, TypeInv, TypeOK
<1>4. ASSUME NEW j \in AfterDelete(d) PROVE j \in Job
  <2>1. ToSet(d.ids) \subseteq Resources
    BY <1>2, ToSetType DEF Resources
  <2>2. exists' \subseteq Resources
    BY <1>1 DEF TypeInv, TypeOK
  <2> QED BY <1>2, <1>3, <1>4, <2>1, <2>2, PreserveTyped, QueuedTyped DEF AfterDelete, PreserveSaved
<1>5. jobs' \subseteq Job /\ left' \in [Events -> Nat] /\ failed' \subseteq Events
  BY <1>4, BoundsTyped DEF Commit, TypeInv, TypeOK, Events
<1>6. RunsTyped' /\ worker' \in [Workers -> Run]
  BY <1>1, RunRests
<1>7. TypeOK'
  BY <1>1, <1>2, <1>3, <1>5, <1>6 DEF TypeInv, TypeOK, Proper
<1> QED BY <1>1, <1>2, <1>6, <1>7 DEF TypeInv

LEMMA DeleteMemberTypes ==
    ASSUME TypeInv, NEW w \in Workers, NEW f \in FileSets, DeleteMember(w, f)
    PROVE  TypeInv'
<1> DEFINE m == MarkerOf(f, Work)
           d == [Idle EXCEPT !.pc = "marked", !.of = f]
<1>1. UNCHANGED <<exists, members, token, binary, object, cloud, stored, left, wanted, untimely, failed>>
  BY DEF DeleteMember, database, aside
<1>2. Proper(m)
  BY MarkerTyped DEF Resources
<1>3. jobs' \subseteq Job
  <2>1. CleanupFiles(f) \in Job
    BY DEF CleanupFiles, Job, TypeInv, TypeOK, Resources
  <2> QED BY <2>1 DEF DeleteMember, TypeInv, TypeOK
<1> HIDE DEF m
<1>4. CASE f \in exists
  <2>1. markers' = markers \cup {m} /\ made' = made + 1 /\ worker' = [worker EXCEPT ![w] = d]
    BY <1>4 DEF DeleteMember, m
  <2>2. RunTyped(d)
    <3>1. Idle \in Run
      BY IdleTyped DEF RunTyped
    <3>2. d \in Run /\ d.pc = "marked" /\ d.outer = Nothing
      BY <3>1, IdleRun DEF Run, Resources
    <3> HIDE DEF d
    <3> QED BY <3>2 DEF RunTyped, Deleting
  <2> HIDE DEF d
  <2>3. RunsTyped' /\ worker' \in [Workers -> Run]
    BY <2>1, <2>2, RunBecame
  <2>4. TypeOK'
    BY <1>1, <1>2, <1>3, <2>1, <2>3 DEF TypeInv, TypeOK, Proper
  <2> QED BY <1>2, <2>1, <2>3, <2>4 DEF TypeInv
<1>5. CASE f \notin exists
  <2>1. UNCHANGED <<markers, made, worker>>
    BY <1>5 DEF DeleteMember
  <2>2. RunsTyped' /\ worker' \in [Workers -> Run]
    BY <2>1, RunSame
  <2>3. TypeOK'
    BY <1>1, <1>3, <2>1, <2>2 DEF TypeInv, TypeOK
  <2> QED BY <2>1, <2>2, <2>3 DEF TypeInv
<1> QED BY <1>4, <1>5

\* What a step changes that only saves the work, queues jobs and moves one thread.
LEMMA StepTypes ==
    ASSUME TypeInv, exists' \subseteq Resources, members' \in Seq(FileSets), token' \in Nat,
           object' \subseteq Resources, markers' \subseteq markers,
           \A j \in jobs' \ jobs : j \in Job, RunsTyped', worker' \in [Workers -> Run],
           left' \in [Events -> Nat], failed' \subseteq Events,
           UNCHANGED <<binary, cloud, stored, made, wanted, untimely>>
    PROVE  TypeInv'
<1>1. TypeOK'
  BY DEF TypeInv, TypeOK
<1> QED BY <1>1 DEF TypeInv

LEMMA RunOf ==
    ASSUME TypeInv, NEW w \in Workers
    PROVE  /\ worker[w] \in Run /\ worker[w].of \in Resources /\ worker[w].ids \in Seq(FileSets)
           /\ worker[w].pc \notin {"idle"} \cup Deleting => Proper(worker[w].marker)
           /\ worker[w].outer # Nothing => Proper(worker[w].outer)
BY DEF TypeInv, RunsTyped, RunTyped, Run

LEMMA MemberStepTypes ==
    ASSUME TypeInv, NEW w \in Workers,
           CleanupStructure(w) \/ CleanupMembership(w) \/ DeleteReferenced(w) \/ DeleteRow(w)
    PROVE  TypeInv'
<1>1. UNCHANGED <<binary, cloud, stored, markers, made, wanted, untimely, left, failed>>
  BY DEF CleanupStructure, CleanupMembership, DeleteReferenced, DeleteRow, aside
<1>2. exists' \subseteq Resources /\ object' \subseteq Resources
  BY DEF CleanupStructure, CleanupMembership, DeleteReferenced, DeleteRow, SaveMembers, database,
         TypeInv, TypeOK
<1>3. members' \in Seq(FileSets) /\ token' \in Nat
  BY WithoutTyped DEF CleanupStructure, CleanupMembership, DeleteReferenced, DeleteRow, SaveMembers,
         database, TypeInv, TypeOK
<1>4. RunsTyped' /\ worker' \in [Workers -> Run]
  BY RunGoes, RunRests
     DEF CleanupStructure, CleanupMembership, DeleteReferenced, DeleteRow, Deleting
<1>5. \A j \in jobs' \ jobs : j \in Job
  <2>1. CASE CleanupStructure(w)
    BY <1>2, <1>3, <2>1, PreserveTyped DEF CleanupStructure, PreserveSaved
  <2>2. CASE DeleteReferenced(w)
    BY <2>2, RunOf, QueuedTyped DEF DeleteReferenced
  <2>3. CASE CleanupMembership(w) \/ DeleteRow(w)
    BY <2>3 DEF CleanupMembership, DeleteRow
  <2> QED BY <2>1, <2>2, <2>3
<1> QED BY <1>1, <1>2, <1>3, <1>4, <1>5, StepTypes DEF TypeInv, TypeOK

LEMMA RequestTypes ==
    ASSUME TypeInv, NEW m \in markers, Restore(m) \/ Reinstate(m)
    PROVE  TypeInv'
<1>1. Proper(m)
  BY DEF TypeInv
<1>2. /\ UNCHANGED <<object, cloud, stored, made, worker>>
      /\ Request("restores")
  BY DEF Restore, Reinstate
<1>3. left' \in [Events -> Nat] /\ untimely' \in BOOLEAN /\ failed' \subseteq Events
  BY <1>2, BoundsTyped DEF Events
<1>4. RunsTyped' /\ worker' \in [Workers -> Run]
  BY <1>2, RunSame
<1>5. CASE Restore(m)
  <2>1. /\ jobs' = jobs \cup {RestoreJob(m)} /\ wanted' = wanted \cup IF m.kept THEN WithMembers(m.of) ELSE {}
        /\ UNCHANGED <<exists, members, token, binary, markers>>
    BY <1>5 DEF Restore, database
  <2>2. WithMembers(m.of) \subseteq Resources
    <3>1. ToSet(stored) \subseteq FileSets
      BY ToSetType DEF TypeInv, TypeOK
    <3> QED BY <1>1, <3>1, ProperMarker DEF WithMembers, Resources
  <2>3. TypeOK'
    BY <1>1, <1>2, <1>3, <1>4, <2>1, <2>2, ProperMarker DEF TypeInv, TypeOK
  <2> QED BY <1>4, <2>1, <2>3 DEF TypeInv
<1>6. CASE Reinstate(m)
  <2>1. m.parent = Work /\ m.of \in FileSets /\ Work \in exists
    BY <1>1, <1>6 DEF Reinstate, Proper
  <2>2. /\ exists' \in {exists, exists \cup {m.of}} /\ members' \in {members, Append(members, m.of)}
        /\ token' = token + 1
        /\ binary' \in {binary, [binary EXCEPT ![m.of] = [id |-> @.id + 1, there |-> TRUE]]}
        /\ wanted' \in {wanted, wanted \cup {m.of}} /\ markers' \subseteq markers
    BY <1>6 DEF Reinstate, Reimported, SaveMembers
  <2>3. /\ exists' \subseteq Resources /\ members' \in Seq(FileSets) /\ token' \in Nat
        /\ wanted' \subseteq Resources
    <3>1. exists' \subseteq Resources /\ token' \in Nat /\ wanted' \subseteq Resources
      BY <2>1, <2>2 DEF TypeInv, TypeOK, Resources
    <3>2. members \in Seq(FileSets) /\ Append(members, m.of) \in Seq(FileSets)
      BY <2>1 DEF TypeInv, TypeOK
    <3> QED BY <2>2, <3>1, <3>2
  <2>4. binary' \in [FileSets -> [id : Nat, there : BOOLEAN]]
    <3>1. binary \in [FileSets -> [id : Nat, there : BOOLEAN]]
      BY DEF TypeInv, TypeOK
    <3>2. [id |-> binary[m.of].id + 1, there |-> TRUE] \in [id : Nat, there : BOOLEAN]
      BY <2>1, <3>1
    <3> QED BY <2>1, <2>2, <3>1, <3>2
  <2>5. jobs' \subseteq Job
    <3>1. ASSUME NEW rs \in SUBSET {m.of} PROVE \A j \in Queued("characterize", rs) : j \in Job
      BY <2>1, <3>1, QueuedTyped DEF Resources
    <3>2. ASSUME NEW rs PROVE \A j \in PreserveSaved(rs) : j \in Job
      BY <2>3, PreserveTyped DEF PreserveSaved
    <3> DEFINE rs == IF m.kept THEN {m.of} ELSE {}
               ss == {Work} \cup rs
    <3>3. jobs' = jobs \cup Queued("characterize", rs) \cup PreserveSaved(ss) /\ rs \in SUBSET {m.of}
      BY <1>6 DEF Reinstate
    <3> HIDE DEF ss, rs
    <3> QED BY <3>1, <3>2, <3>3 DEF TypeInv, TypeOK
  <2>6. TypeOK'
    BY <1>2, <1>3, <1>4, <2>2, <2>3, <2>4, <2>5 DEF TypeInv, TypeOK
  <2> QED BY <1>4, <2>2, <2>6 DEF TypeInv
<1> QED BY <1>5, <1>6

LEMMA TakeRestoreTypes ==
    ASSUME TypeInv, NEW w \in Workers, TakeRestore(w)
    PROVE  TypeInv'
<1>1. /\ UNCHANGED <<exists, members, token, binary, object, cloud, stored, markers, made, left, wanted,
                     untimely, failed>>
      /\ jobs' \subseteq jobs
  BY DEF TakeRestore, database, aside
<1>2. CASE UNCHANGED worker
  BY <1>1, <1>2, RunSame, StepTypes DEF TypeInv, TypeOK
<1>3. CASE ~UNCHANGED worker
  <2>1. PICK m \in markers : worker' = [worker EXCEPT ![w] = [Idle EXCEPT !.pc = "import", !.marker = m]]
    BY <1>3 DEF TakeRestore
  <2> DEFINE d == [Idle EXCEPT !.pc = "import", !.marker = m]
  <2>2. Proper(m) /\ m \in DeletionMarker
    BY DEF TypeInv, Proper
  <2>3. RunTyped(d)
    <3>1. Idle \in Run
      BY IdleTyped DEF RunTyped
    <3>2. d \in Run /\ d.pc = "import" /\ d.outer = Nothing /\ d.marker = m
      BY <2>2, <3>1, IdleRun DEF Run
    <3> HIDE DEF d
    <3> QED BY <2>2, <3>2 DEF RunTyped
  <2>4. worker' = [worker EXCEPT ![w] = d]
    BY <2>1
  <2> HIDE DEF d
  <2>5. RunsTyped' /\ worker' \in [Workers -> Run]
    BY <2>3, <2>4, RunBecame
  <2> QED BY <1>1, <2>5, StepTypes DEF TypeInv, TypeOK
<1> QED BY <1>2, <1>3

LEMMA ImportTypes ==
    ASSUME TypeInv, NEW w \in Workers, Import(w)
    PROVE  TypeInv'
<1> DEFINE m == worker[w].marker
           ids == IF m.of = Work THEN stored ELSE worker[w].ids
           d == [worker[w] EXCEPT !.pc = "attach", !.ids = ids]
<1>1. /\ UNCHANGED <<object, cloud, stored, markers, made, left, wanted, untimely, failed>>
      /\ exists' = exists \cup {m.of} /\ members' \in {stored, members} /\ token' \in {token, token + 1}
      /\ jobs' = jobs \cup PreserveSaved({m.of}) /\ worker[w].pc = "import"
      /\ binary' = [f \in FileSets |->
           IF f = m.of THEN [id |-> binary[f].id + 1, there |-> TRUE] ELSE binary[f]]
  BY DEF Import, Imported, aside
<1>2. Proper(m) /\ worker[w] \in Run
  BY <1>1, RunOf DEF Deleting
<1>3. ids \in Seq(FileSets)
  BY RunOf DEF TypeInv, TypeOK
<1>4. /\ exists' \subseteq Resources /\ members' \in Seq(FileSets) /\ token' \in Nat
      /\ binary' \in [FileSets -> [id : Nat, there : BOOLEAN]]
  BY <1>1, <1>2, ProperMarker DEF TypeInv, TypeOK
<1>5. \A j \in PreserveSaved({m.of}) : j \in Job
  BY <1>4, PreserveTyped DEF PreserveSaved
<1>6. worker' = [worker EXCEPT ![w] = d]
  BY DEF Import, TypeInv, RunsTyped
<1> HIDE DEF ids
<1>7. RunTyped(d)
  <2>1. d \in Run /\ d.pc = "attach" /\ d.marker = m /\ d.outer = worker[w].outer
    BY <1>2, <1>3 DEF Run
  <2> HIDE DEF d
  <2> QED BY <1>2, <2>1, RunOf DEF RunTyped
<1> HIDE DEF d
<1>8. RunsTyped' /\ worker' \in [Workers -> Run]
  BY <1>6, <1>7, RunBecame
<1>9. TypeOK'
  BY <1>1, <1>4, <1>5, <1>8 DEF TypeInv, TypeOK
<1> QED BY <1>1, <1>8, <1>9 DEF TypeInv

LEMMA RestoreStepTypes ==
    ASSUME TypeInv, NEW w \in Workers, ImportStale(w) \/ ParentGone(w) \/ AttachToParent(w)
    PROVE  TypeInv'
<1>1. /\ UNCHANGED <<exists, binary, object, cloud, stored, markers, made, wanted, untimely, left>>
      /\ failed' \subseteq failed \cup {"errors"}
  BY DEF ImportStale, ParentGone, AttachToParent, SaveMembers, database, aside
<1>2. failed' \subseteq Events /\ left' \in [Events -> Nat]
  BY <1>1 DEF TypeInv, TypeOK, Events
<1>3. CASE ImportStale(w) \/ ParentGone(w)
  <2>1. UNCHANGED <<members, token, jobs>> /\ Rests(w)
    BY <1>3 DEF ImportStale, ParentGone, database
  <2> QED BY <1>1, <1>2, <2>1, RunRests, StepTypes DEF TypeInv, TypeOK
<1>4. CASE AttachToParent(w)
  <2> DEFINE m == worker[w].marker
  <2>1. worker[w].pc = "attach" /\ \E pc \in {"members", "finish"} : Goes(w, pc)
    BY <1>4 DEF AttachToParent
  <2>2. RunsTyped' /\ worker' \in [Workers -> Run]
    BY <2>1, RunGoes DEF Restoring
  <2>3. Proper(m)
    BY <2>1, RunOf DEF Deleting
  <2>4. CASE UNCHANGED <<members, token, jobs>>
    BY <1>1, <1>2, <2>2, <2>4, StepTypes DEF TypeInv, TypeOK
  <2>5. CASE m.parent # Nothing /\ SaveMembers(Append(members, m.of)) /\ jobs' = jobs \cup PreserveSaved({Work})
    <3>1. m.of \in FileSets
      BY <2>3, <2>5, ProperMarker DEF Proper
    <3>2. members \in Seq(FileSets) /\ Append(members, m.of) \in Seq(FileSets)
      BY <3>1 DEF TypeInv, TypeOK
    <3>3. members' \in Seq(FileSets) /\ token' \in Nat /\ exists' \subseteq Resources
      BY <1>1, <2>5, <3>2 DEF SaveMembers, TypeInv, TypeOK
    <3>4. \A j \in PreserveSaved({Work}) : j \in Job
      BY <3>3, PreserveTyped DEF PreserveSaved
    <3> QED BY <1>1, <1>2, <2>2, <2>5, <3>3, <3>4, StepTypes DEF TypeInv, TypeOK
  <2> QED BY <1>4, <2>4, <2>5 DEF AttachToParent, database
<1> QED BY <1>3, <1>4

LEMMA RestoreMemberTypes ==
    ASSUME TypeInv, NEW w \in Workers, RestoreMember(w)
    PROVE  TypeInv'
<1> DEFINE d == worker[w]
           next == [d EXCEPT !.ids = Tail(@)]
<1>1. UNCHANGED <<exists, members, token, binary, object, cloud, stored, markers, made, jobs, wanted, untimely,
                  left, failed>>
  BY DEF RestoreMember, database, aside
<1>2. d \in Run /\ d.pc = "members" /\ d.ids \in Seq(FileSets) /\ d.ids # <<>>
  BY RunOf DEF RestoreMember
<1>3. /\ next \in Run /\ next.pc = d.pc /\ next.marker = d.marker /\ next.outer = d.outer
  <2>1. Tail(d.ids) \in Seq(FileSets)
    BY <1>2
  <2> QED BY <1>2, <2>1 DEF Run
<1>4. Proper(d.marker)
  BY <1>2, RunOf DEF Deleting
<1> HIDE DEF next
<1>5. CASE worker' = [worker EXCEPT ![w] = next]
  <2>1. RunTyped(next)
    BY <1>2, <1>3, RunOf DEF RunTyped
  <2>2. RunsTyped' /\ worker' \in [Workers -> Run]
    BY <1>5, <2>1, RunBecame
  <2> QED BY <1>1, <2>2, StepTypes DEF TypeInv, TypeOK
<1>6. ASSUME NEW m \in markers,
             worker' = [worker EXCEPT ![w] = [next EXCEPT !.pc = "import", !.marker = m, !.outer = d.marker]]
      PROVE  TypeInv'
  <2> DEFINE e == [next EXCEPT !.pc = "import", !.marker = m, !.outer = d.marker]
  <2>1. Proper(m) /\ m \in DeletionMarker /\ d.marker \in DeletionMarker
    BY <1>4 DEF TypeInv, Proper
  <2>2. e \in Run /\ e.pc = "import" /\ e.marker = m /\ e.outer = d.marker
    BY <1>3, <2>1 DEF Run
  <2>3. worker' = [worker EXCEPT ![w] = e]
    BY <1>6
  <2> HIDE DEF e
  <2>4. RunTyped(e)
    BY <1>4, <2>1, <2>2 DEF RunTyped
  <2>5. RunsTyped' /\ worker' \in [Workers -> Run]
    BY <2>3, <2>4, RunBecame
  <2> QED BY <1>1, <2>5, StepTypes DEF TypeInv, TypeOK
<1> QED BY <1>5, <1>6 DEF RestoreMember, next

LEMMA FinishTypes ==
    ASSUME TypeInv, NEW w \in Workers, Finish(w)
    PROVE  TypeInv'
<1> DEFINE d == worker[w]
           e == [d EXCEPT !.pc = "members", !.marker = d.outer, !.outer = Nothing]
           new == Queued("characterize", {d.marker.of} \cap FileSets)
<1>1. /\ UNCHANGED <<exists, members, token, binary, object, cloud, stored, made, wanted, untimely, left, failed>>
      /\ markers' \subseteq markers /\ jobs' = jobs \cup new
      /\ worker' = [worker EXCEPT ![w] = IF d.outer = Nothing THEN Idle ELSE e]
  BY DEF Finish, database, aside
<1>2. \A j \in new : j \in Job
  <2>1. {d.marker.of} \cap FileSets \subseteq Resources
    BY DEF Resources
  <2> QED BY <2>1, QueuedTyped
<1> HIDE DEF new
<1>3. d.outer # Nothing => RunTyped(e)
  <2>1. SUFFICES ASSUME d.outer # Nothing PROVE RunTyped(e)
    OBVIOUS
  <2>2. Proper(d.outer) /\ d.outer \in DeletionMarker /\ d \in Run
    BY <2>1, RunOf DEF Proper
  <2>3. e \in Run /\ e.marker = d.outer /\ e.outer = Nothing
    BY <2>2 DEF Run
  <2> HIDE DEF e
  <2> QED BY <2>2, <2>3 DEF RunTyped
<1> HIDE DEF e
<1>4. RunsTyped' /\ worker' \in [Workers -> Run]
  BY <1>1, <1>3, IdleTyped, RunBecame
<1> QED BY <1>1, <1>2, <1>4, StepTypes DEF TypeInv, TypeOK

LEMMA FailTypes ==
    ASSUME TypeInv, NEW w \in Workers, RollBack(w) \/ FailJob(w)
    PROVE  TypeInv'
<1> DEFINE d == worker[w]
<1>1. /\ UNCHANGED <<exists, members, token, binary, object, cloud, stored, markers, made, wanted, untimely>>
      /\ Rests(w) /\ \E event \in {"crashes", "errors"} : Failure(event)
  BY DEF RollBack, FailJob, database
<1>2. left' \in [Events -> Nat] /\ failed' \subseteq Events
  BY <1>1, BoundsTyped DEF Events
<1>3. \A j \in jobs' \ jobs : j \in Job
  <2>1. CASE RollBack(w)
    BY <2>1 DEF RollBack
  <2>2. CASE FailJob(w)
    <3>1. jobs' = jobs \cup Retry(d) /\ d.pc # "idle"
      BY <2>2 DEF FailJob
    <3>2. CASE d.pc \in Deleting
      BY <3>1, <3>2, RunOf, QueuedTyped DEF Retry, Deleting
    <3>3. CASE d.pc \notin Deleting
      <4>1. Retry(d) = {RestoreJob(IF d.outer = Nothing THEN d.marker ELSE d.outer)}
        BY <3>3 DEF Retry, Deleting
      <4> QED BY <3>1, <3>3, <4>1, RunOf, ProperMarker
    <3> QED BY <3>2, <3>3
  <2> QED BY <2>1, <2>2
<1>4. RunsTyped' /\ worker' \in [Workers -> Run]
  BY <1>1, RunRests
<1> QED BY <1>1, <1>2, <1>3, <1>4, StepTypes DEF TypeInv, TypeOK

LEMMA OtherJobTypes ==
    ASSUME TypeInv, NEW j \in jobs,
           \/ RunCleanupFiles(j) \/ RunCleanupPreservation(j)
           \/ PreserveResource(j) \/ PreserveChildren(j) \/ Characterize(j)
    PROVE  TypeInv'
<1>1. /\ UNCHANGED <<exists, members, token, markers, made, worker, left, wanted, untimely, failed>>
      /\ j \in Job
  BY DEF RunCleanupFiles, RunCleanupPreservation, PreserveResource, PreserveChildren, Characterize,
         database, aside, TypeInv, TypeOK
<1>2. RunsTyped' /\ worker' \in [Workers -> Run]
  BY <1>1, RunSame
<1>3. object' \subseteq Resources /\ cloud' \subseteq Resources /\ stored' \in Seq(FileSets)
  BY <1>1 DEF RunCleanupFiles, RunCleanupPreservation, PreserveResource, PreserveChildren, Characterize,
         TypeInv, TypeOK, Job
<1>4. binary' \in [FileSets -> [id : Nat, there : BOOLEAN]]
  BY DEF RunCleanupFiles, RunCleanupPreservation, PreserveResource, PreserveChildren, Characterize,
         TypeInv, TypeOK
<1>5. jobs' \subseteq Job
  <2>1. CASE RunCleanupFiles(j) \/ RunCleanupPreservation(j)
    BY <2>1 DEF RunCleanupFiles, RunCleanupPreservation, TypeInv, TypeOK
  <2>2. CASE PreserveResource(j)
    <3>1. Children(j.of) \subseteq Job
      BY DEF Children, ChildrenJob, Job, Resources
    <3> QED BY <2>2, <3>1 DEF PreserveResource, TypeInv, TypeOK
  <2>3. CASE PreserveChildren(j)
    <3> DEFINE ids == IF j = ChildrenJob(0) THEN members ELSE NeverPreserved
               reached == {ids[i] : i \in {i \in DOMAIN ids : \A k \in 1..i : ids[k] \in exists}}
               new == {[kind |-> "preserve", of |-> f, id |-> 0] : f \in {f \in reached : Work \in exists}}
    <3>1. ids \in Seq(FileSets)
      BY WithoutTyped DEF NeverPreserved, TypeInv, TypeOK
    <3> HIDE DEF ids
    <3>2. reached \subseteq FileSets
      BY <3>1
    <3> HIDE DEF reached
    <3>3. new \subseteq Job
      BY <3>2 DEF Job, Resources
    <3>4. jobs' = (jobs \ {j}) \cup new
      BY <2>3 DEF PreserveChildren, ids, reached
    <3> QED BY <3>3, <3>4 DEF TypeInv, TypeOK
  <2>4. CASE Characterize(j)
    <3>1. \A i \in Preserve({j.of}) : i \in Job
      BY PreserveTyped DEF Preserve, TypeInv, TypeOK
    <3> QED BY <2>4, <3>1 DEF Characterize, TypeInv, TypeOK
  <2> QED BY <2>1, <2>2, <2>3, <2>4
<1>6. TypeOK'
  BY <1>1, <1>2, <1>3, <1>4, <1>5 DEF TypeInv, TypeOK
<1> QED BY <1>1, <1>2, <1>6 DEF TypeInv

LEMMA NextTypes == TypeInv /\ [Next]_vars => TypeInv'
<1> SUFFICES ASSUME TypeInv, [Next]_vars PROVE TypeInv'
  OBVIOUS
<1>1. ASSUME NEW w \in Workers,
             \/ \E r \in Resources : Destroy(w, r)
             \/ \E f \in FileSets : DeleteMember(w, f)
             \/ Commit(w) \/ RollBack(w)
             \/ CleanupStructure(w) \/ CleanupMembership(w) \/ DeleteReferenced(w) \/ DeleteRow(w)
      PROVE  TypeInv'
  BY <1>1, DestroyTypes, DeleteMemberTypes, CommitTypes, FailTypes, MemberStepTypes
<1>2. ASSUME NEW w \in Workers,
             \/ TakeRestore(w) \/ Import(w) \/ ImportStale(w) \/ AttachToParent(w) \/ ParentGone(w)
             \/ RestoreMember(w) \/ Finish(w) \/ FailJob(w)
      PROVE  TypeInv'
  BY <1>2, TakeRestoreTypes, ImportTypes, RestoreStepTypes, RestoreMemberTypes, FinishTypes, FailTypes
<1>3. ASSUME NEW m \in markers, Restore(m) \/ Reinstate(m) PROVE TypeInv'
  BY <1>3, RequestTypes
<1>4. ASSUME NEW j \in jobs,
             \/ RunCleanupFiles(j) \/ RunCleanupPreservation(j)
             \/ PreserveResource(j) \/ PreserveChildren(j) \/ Characterize(j)
      PROVE  TypeInv'
  BY <1>4, OtherJobTypes
<1>5. CASE UNCHANGED vars
  BY <1>5 DEF vars, database, aside, TypeInv, TypeOK, RunsTyped
<1> QED BY <1>1, <1>2, <1>3, <1>4, <1>5 DEF Next

\* What is imported, attached or retried is a resource that can be: the parent of a
\* deletion marker is the work, and only of a file set.
THEOREM DeletionTypes == Spec => []TypeOK
<1>1. TypeInv => TypeOK
  BY DEF TypeInv
<1> QED BY <1>1, InitTypes, NextTypes, PTL DEF Spec
-----------------------------------------------------------------------------
(***************************************************************************)
(* DoneAsAsked and PreservedAgain                                          *)
(*                                                                         *)
(* As long as each request comes in time and nothing fails, the system is  *)
(* in one of eight phases; each says what the requests so far will have    *)
(* come to once all jobs are done.                                         *)
(***************************************************************************)
OthersIdle(w) == \A v \in Workers \ {w} : worker[v].pc = "idle"

JobsAre(kinds) == \A j \in jobs : j.kind \in kinds

\* Who is gone has one marker, with the PreservationObject; so have those of half,
\* that are not quite gone yet or not quite back.
Marks(half) ==
    /\ \A m \in markers : m.kept /\ m.parent = IF m.of = Work THEN Nothing ELSE Work
    /\ \A m, n \in markers : m.of = n.of => m = n
    /\ \A r \in Resources : (\E m \in markers : m.of = r) <=> r \notin exists \/ r \in half

InCloud == object \subseteq exists /\ object \subseteq cloud

ListsMembers == ToSet(members) = exists \cap FileSets

\* Everything is preserved.
Resting == /\ Marks({}) /\ InCloud /\ exists \subseteq object
           /\ IF Work \in exists THEN stored = members /\ ListsMembers ELSE exists = {}

PreserveOf(r, t) == [kind |-> "preserve", of |-> r, id |-> t]

CharacterizeOf(f) == [kind |-> "characterize", of |-> f, id |-> 0]

\* PreserveChildrenJob gets to it.
Reached(f) == \E i \in 1 .. Len(members) : members[i] = f /\ \A k \in 1 .. i : members[k] \in exists

\* A job is going to preserve it.
Tended(f) == \/ Work \notin object
             \/ CharacterizeOf(f) \in jobs \/ PreserveOf(f, 0) \in jobs \/ ChildrenJob(0) \in jobs

\* The work is there, and what is not preserved, jobs are going to preserve; except
\* busy, that a thread is about to have characterized.
Upkeep(busy) ==
    /\ Work \in exists /\ InCloud
    /\ \A j \in jobs : j.kind = "cleanupPreservation" => j.of \notin exists
    /\ (Work \in object /\ stored = members) \/ PreserveOf(Work, token) \in jobs
    /\ \A f \in exists \cap FileSets : Reached(f) /\ (f \in object \/ f \in busy \/ Tended(f))

Upkeeping == {"preserve", "preserveChildren", "characterize"}

Settled == /\ \A w \in Workers : worker[w].pc = "idle"
           /\ JobsAre(Upkeeping \cup {"cleanupFiles", "cleanupPreservation"})
           /\ Marks({}) /\ Upkeep({})
           /\ exists = wanted /\ ListsMembers

RequestDeletes(w) ==
    LET d == worker[w]
    IN  /\ OthersIdle(w) /\ d.pc = "deleting" /\ JobsAre({"cleanupFiles"})
        /\ Resting /\ Work \in exists /\ d.of \in exists
        /\ d.ids = IF d.of = Work THEN members ELSE <<>>
        /\ wanted = exists \ ({d.of} \cup ToSet(d.ids))
        /\ d.marker.of = d.of /\ d.marker.kept
        /\ d.marker.parent = IF d.of = Work THEN Nothing ELSE Work

Deletes(w, f) == worker[w].of = f /\ worker[w].pc \in Deleting

Going == {worker[w].of : w \in {v \in Workers : worker[v].pc \in Deleting}}

DeleteJob(f) == [kind |-> "deleteMember", of |-> f, id |-> 0]

\* The work is gone, and its members go.
MembersGo ==
    /\ \A w \in Workers : worker[w].pc \in {"idle"} \cup Deleting
    /\ JobsAre({"deleteMember", "cleanupFiles", "cleanupPreservation"})
    /\ Work \notin exists /\ wanted = {} /\ InCloud
    /\ \A j \in jobs : j.kind = "cleanupPreservation" => j.of \notin object
    /\ \A f \in exists : /\ DeleteJob(f) \in jobs \/ \E w \in Workers : Deletes(w, f)
                         /\ f \in object \/ \E w \in Workers : Deletes(w, f) /\ worker[w].pc = "dropped"
    /\ \A w \in Workers : worker[w].pc \in Deleting =>
          /\ DeleteJob(worker[w].of) \notin jobs
          /\ \A v \in Workers : Deletes(v, worker[w].of) => v = w
          /\ worker[w].pc = "dropped" => worker[w].of \notin object
    /\ Marks(Going)

RestoreAsked ==
    /\ \A w \in Workers : worker[w].pc = "idle"
    /\ Resting
    /\ \E m \in markers : jobs = {RestoreJob(m)} /\ wanted = exists \cup WithMembers(m.of)

Importing(w) ==
    LET d == worker[w]
    IN  /\ OthersIdle(w) /\ jobs = {} /\ Resting
        /\ d.pc = "import" /\ d.outer = Nothing /\ d.ids = <<>> /\ d.marker \in markers
        /\ wanted = exists \cup WithMembers(d.marker.of)

\* A file set is back that its work does not list yet.
Attaching(w) ==
    LET d == worker[w]
        f == worker[w].marker.of
    IN  /\ OthersIdle(w) /\ jobs = {} /\ Marks({f})
        /\ d.pc = "attach" /\ d.outer = Nothing /\ d.ids = <<>> /\ d.marker \in markers
        /\ f \in exists \cap FileSets /\ wanted = exists
        /\ Work \in exists => /\ InCloud /\ stored = members
                              /\ object = exists \ {f} /\ ToSet(members) = object \cap FileSets

Listing(w) ==
    LET d == worker[w]
        f == worker[w].marker.of
    IN  /\ OthersIdle(w) /\ JobsAre(Upkeeping) /\ Marks({f}) /\ Upkeep({f})
        /\ d.pc = "finish" /\ d.outer = Nothing /\ d.ids = <<>> /\ d.marker \in markers
        /\ f \in FileSets /\ wanted = exists /\ ListsMembers

\* The work is back, and its members, in their order, as far as they are not in ids.
MembersCome(w) ==
    LET d == worker[w]
        f == worker[w].marker.of
        n == Len(members) - Len(worker[w].ids)
    IN  /\ OthersIdle(w) /\ JobsAre(Upkeeping)
        /\ \/ d.pc \in {"attach", "members"} /\ f = Work /\ d.outer = Nothing
           \/ /\ d.pc \in {"import", "attach", "finish"} /\ f \in FileSets
              /\ d.outer # Nothing /\ d.outer.of = Work /\ d.outer \in markers
        /\ d.marker \in markers /\ Marks({f, Work})
        /\ Upkeep(IF d.pc \in {"attach", "finish"} THEN {f} ELSE {})
        /\ n >= 0 /\ \A i \in 1 .. Len(d.ids) : d.ids[i] = members[n + i]
        /\ IF d.pc = "import"
           THEN /\ f \notin exists /\ n > 0 /\ members[n] = f /\ \A k \in 1 .. n - 1 : members[k] \in exists
                /\ wanted = exists \cup ToSet(d.ids) \cup {f}
           ELSE /\ f \in exists /\ \A k \in 1 .. n : members[k] \in exists
                /\ wanted = exists \cup ToSet(d.ids)
        /\ ToSet(members) = wanted \cap FileSets

OnCourse ==
    \/ untimely \/ failed # {}
    \/ Settled \/ MembersGo \/ RestoreAsked
    \/ \E w \in Workers : RequestDeletes(w) \/ Importing(w) \/ Attaching(w) \/ Listing(w) \/ MembersCome(w)

\* A request too early, and a failure, end the course.
LEMMA EarlyRequest ==
    ASSUME NEW event, Request(event), ~Quiet
    PROVE  OnCourse'
BY DEF Request, OnCourse

LEMMA FailureEnds ==
    ASSUME NEW event, Failure(event)
    PROVE  OnCourse'
BY DEF Failure, OnCourse

\* The phase that a thread at work is in.
LEMMA PhaseOf ==
    ASSUME OnCourse, ~untimely, failed = {}, NEW w \in Workers, worker[w].pc # "idle"
    PROVE  \/ MembersGo /\ worker[w].pc \in Deleting
           \/ RequestDeletes(w) \/ Importing(w) \/ Attaching(w) \/ Listing(w) \/ MembersCome(w)
<1>1. CASE Settled \/ RestoreAsked
  BY <1>1 DEF Settled, RestoreAsked
<1>2. CASE MembersGo
  BY <1>2 DEF MembersGo
<1>3. ASSUME NEW v \in Workers, OthersIdle(v)
      PROVE  v = w
  BY <1>3 DEF OthersIdle
<1>4. CASE \E v \in Workers : RequestDeletes(v) \/ Importing(v) \/ Attaching(v) \/ Listing(v) \/ MembersCome(v)
  <2>1. PICK v \in Workers : RequestDeletes(v) \/ Importing(v) \/ Attaching(v) \/ Listing(v) \/ MembersCome(v)
    BY <1>4
  <2>2. OthersIdle(v)
    BY <2>1 DEF RequestDeletes, Importing, Attaching, Listing, MembersCome
  <2> QED BY <1>3, <2>1, <2>2
<1> QED BY <1>1, <1>2, <1>4 DEF OnCourse

\* The phase that the system is in when nothing is under way.
LEMMA PhaseQuiet ==
    ASSUME OnCourse, ~untimely, failed = {}, Quiet
    PROVE  Settled \/ MembersGo
<1>1. ~RestoreAsked
  BY DEF RestoreAsked, Quiet
<1>2. \A w \in Workers : ~(RequestDeletes(w) \/ Importing(w) \/ Attaching(w) \/ Listing(w) \/ MembersCome(w))
  BY DEF Quiet, RequestDeletes, Importing, Attaching, Listing, MembersCome
<1> QED BY <1>1, <1>2 DEF OnCourse

\* A PreserveResourceJob of what is saved.
LEMMA SavesPreserved ==
    ASSUME NEW r, NEW rs, r \in rs, NEW there, r \in there, NEW ids, NEW t,
           r = Work \/ (Work \in there /\ Work \in object /\ r \in ToSet(ids))
    PROVE  PreserveOf(r, IF r = Work THEN t ELSE 0) \in PreserveJobs(rs, there, ids, t)
BY DEF PreserveJobs, PreserveOf

LEMMA PreservedAre ==
    ASSUME NEW rs, NEW there, NEW ids, NEW t, NEW j \in PreserveJobs(rs, there, ids, t)
    PROVE  /\ j.kind = "preserve" /\ j.of \in rs \cap there
           /\ j = PreserveOf(j.of, IF j.of = Work THEN t ELSE 0)
           /\ j.of = Work \/ (Work \in there /\ Work \in object /\ j.of \in ToSet(ids))
BY DEF PreserveJobs, PreserveOf

\* What waits: a job of a kind and of a resource.
LEMMA KindsOfJobs ==
    /\ \A r, t : PreserveOf(r, t).kind = "preserve" /\ PreserveOf(r, t).of = r /\ PreserveOf(r, t).id = t
    /\ \A f : CharacterizeOf(f).kind = "characterize" /\ CharacterizeOf(f).of = f
    /\ \A f : DeleteJob(f).kind = "deleteMember" /\ DeleteJob(f).of = f
    /\ \A n : ChildrenJob(n).kind = "preserveChildren" /\ ChildrenJob(n).id = n
    /\ \A m : RestoreJob(m).kind = "restore" /\ RestoreJob(m).of = m.of
BY DEF PreserveOf, CharacterizeOf, DeleteJob, ChildrenJob, RestoreJob

LEMMA QueuedAre ==
    ASSUME NEW kind, NEW rs, NEW j
    PROVE  j \in Queued(kind, rs) <=> \E r \in rs : j = [kind |-> kind, of |-> r, id |-> 0]
BY DEF Queued

LEMMA Reaching ==
    ASSUME NEW f, Reached(f), TypeInv
    PROVE  f \in ToSet(members) /\ members # <<>>
BY DEF Reached, ToSet, TypeInv, TypeOK

\* All members can be reached if the list names those that are there.
LEMMA ReachesAll ==
    ASSUME NEW ids \in Seq(FileSets), NEW there, ToSet(ids) = there \cap FileSets
    PROVE  \A f \in there \cap FileSets :
              \E i \in 1 .. Len(ids) : ids[i] = f /\ \A k \in 1 .. i : ids[k] \in there
<1> SUFFICES ASSUME NEW f \in ToSet(ids)
             PROVE  \E i \in 1 .. Len(ids) : ids[i] = f /\ \A k \in 1 .. i : ids[k] \in there
  OBVIOUS
<1>1. PICK i \in 1 .. Len(ids) : ids[i] = f
  BY DEF ToSet
<1>2. \A k \in 1 .. i : ids[k] \in ToSet(ids)
  BY <1>1 DEF ToSet
<1> QED BY <1>1, <1>2

LEMMA ThereAreResources ==
    ASSUME TypeInv, NEW r \in exists
    PROVE  r = Work \/ r \in FileSets
BY DEF TypeInv, TypeOK, Resources

LEMMA SettledRests ==
    ASSUME TypeInv, Settled, jobs = {}
    PROVE  Resting /\ Work \in exists /\ wanted = exists
<1>1. Upkeep({}) /\ Marks({}) /\ ListsMembers /\ wanted = exists
  BY DEF Settled
<1>2. Work \in object /\ stored = members /\ Work \in exists /\ InCloud
  BY <1>1 DEF Upkeep
<1>3. \A f \in exists \cap FileSets : f \in object
  BY <1>1, <1>2 DEF Upkeep, Tended
<1> QED BY <1>1, <1>2, <1>3, ThereAreResources DEF Resting

LEMMA GoneRests ==
    ASSUME TypeInv, MembersGo, Quiet
    PROVE  Resting /\ exists = {} /\ wanted = {}
<1>1. exists = {} /\ wanted = {} /\ InCloud
  BY DEF MembersGo, Quiet, Deletes, Deleting
<1>2. Marks({})
  <2>1. Going = {}
    BY DEF Quiet, Going, Deleting
  <2> QED BY <2>1 DEF MembersGo
<1> QED BY <1>1, <1>2 DEF Resting

\* When everything is done.
LEMMA CourseEnds == TypeInv /\ OnCourse => DoneAsAsked /\ PreservedAgain
<1> SUFFICES ASSUME TypeInv, OnCourse, Orderly
             PROVE  /\ exists = wanted /\ (Work \in exists => ToSet(members) = exists \cap FileSets)
                    /\ exists \subseteq object /\ exists \subseteq cloud
                    /\ Work \in exists => stored = members
  BY DEF DoneAsAsked, PreservedAgain
<1>1. Quiet /\ jobs = {} /\ ~untimely /\ failed = {}
  BY DEF Orderly, Quiet
<1>2. Resting /\ wanted = exists
  BY <1>1, PhaseQuiet, SettledRests, GoneRests
<1> QED BY <1>2 DEF Resting, ListsMembers, InCloud
-----------------------------------------------------------------------------
(* The jobs that preserve, characterize and clean up.                      *)

LEMMA HandlersFrame ==
    ASSUME NEW j \in jobs,
           \/ RunCleanupFiles(j) \/ RunCleanupPreservation(j)
           \/ PreserveResource(j) \/ PreserveChildren(j) \/ Characterize(j)
    PROVE  /\ UNCHANGED <<worker, exists, members, token, markers, wanted, untimely, failed>>
           /\ \A i \in jobs' \ jobs : i.kind \in {"preserve", "preserveChildren"}
           /\ \A i \in jobs : i.kind # j.kind => i \in jobs'
           /\ j.kind \in Upkeeping \cup {"cleanupFiles", "cleanupPreservation"}
<1>1. UNCHANGED <<worker, exists, members, token, markers, wanted, untimely, failed>>
  BY DEF RunCleanupFiles, RunCleanupPreservation, PreserveResource, PreserveChildren, Characterize,
         database, aside
<1>2. j.kind \in Upkeeping \cup {"cleanupFiles", "cleanupPreservation"}
  BY DEF RunCleanupFiles, RunCleanupPreservation, PreserveResource, PreserveChildren, Characterize, Upkeeping
<1>3. (jobs \ {j}) \subseteq jobs'
  BY DEF RunCleanupFiles, RunCleanupPreservation, PreserveResource, PreserveChildren, Characterize
<1>4. \A i \in jobs' \ jobs : i.kind \in {"preserve", "preserveChildren"}
  <2>1. CASE RunCleanupFiles(j) \/ RunCleanupPreservation(j)
    BY <2>1 DEF RunCleanupFiles, RunCleanupPreservation
  <2>2. CASE PreserveResource(j)
    <3>1. \A i \in Children(j.of) : i.kind = "preserveChildren"
      BY DEF Children, ChildrenJob
    <3> QED BY <2>2, <3>1 DEF PreserveResource
  <2>3. CASE PreserveChildren(j)
    BY <2>3 DEF PreserveChildren
  <2>4. CASE Characterize(j)
    BY <2>4, PreserveKind DEF Characterize, Preserve
  <2> QED BY <2>1, <2>2, <2>3, <2>4
<1> QED BY <1>1, <1>2, <1>3, <1>4

LEMMA PreserveResourceTends ==
    ASSUME TypeInv, NEW busy, Upkeep(busy), NEW j \in jobs, PreserveResource(j)
    PROVE  Upkeep(busy)'
<1> DEFINE r == j.of
<1>1. /\ UNCHANGED <<worker, exists, members, token, markers>>
      /\ \A i \in jobs' \ jobs : i.kind \in {"preserve", "preserveChildren"}
      /\ \A i \in jobs : i.kind # "preserve" => i \in jobs'
      /\ \A i \in jobs : i # j => i \in jobs' /\ j.kind = "preserve"
  BY HandlersFrame DEF PreserveResource
<1>2. \A f \in exists \cap FileSets : Reached(f)' /\ f \in ToSet(members) /\ members # <<>> /\ f # Work
  BY <1>1, Reaching, DeletionAssumption DEF Upkeep, Reached
<1>3. /\ Work \in exists /\ InCloud
      /\ \A i \in jobs : i.kind = "cleanupPreservation" => i.of \notin exists
      /\ (Work \in object /\ stored = members) \/ PreserveOf(Work, token) \in jobs
      /\ \A f \in exists \cap FileSets : f \in object \/ f \in busy \/ Tended(f)
  BY DEF Upkeep
<1>4. \A i \in jobs' : i.kind = "cleanupPreservation" => i.of \notin exists'
  BY <1>1, <1>3
<1>5. CASE j \in Preserve({r})
  <2>1. /\ r \in exists /\ j = PreserveOf(r, IF r = Work THEN token ELSE 0)
        /\ r = Work \/ (Work \in object /\ r \in ToSet(members))
    BY <1>5, PreservedAre DEF Preserve
  <2>2. /\ object' = object \cup {r} /\ cloud' = cloud \cup {r}
        /\ stored' = (IF r = Work THEN members ELSE stored)
        /\ jobs' = (jobs \ {j}) \cup Children(r)
    BY <1>5 DEF PreserveResource
  <2>3. InCloud'
    BY <1>1, <1>3, <2>1, <2>2 DEF InCloud
  <2>4. (Work \in object' /\ stored' = members') \/ PreserveOf(Work, token') \in jobs'
    BY <1>1, <1>3, <2>1, <2>2, KindsOfJobs
  <2>5. \A f \in exists \cap FileSets : f \in object' \/ f \in busy \/ Tended(f)'
    <3> SUFFICES ASSUME NEW f \in exists \cap FileSets, f \notin object', f \notin busy
                 PROVE  Tended(f)'
      OBVIOUS
    <3>1. Tended(f) /\ f # r
      BY <1>3, <2>2
    <3>2. CASE Work \notin object
      <4>1. r = Work
        BY <2>1, <3>2
      <4>2. ChildrenJob(0) \in Children(Work)
        BY <1>2, <3>2, KindsOfJobs DEF Children
      <4> QED BY <2>2, <4>1, <4>2 DEF Tended
    <3>3. CASE Work \in object
      BY <1>1, <2>1, <3>1, <3>3, KindsOfJobs DEF Tended
    <3> QED BY <3>2, <3>3
  <2> QED BY <1>1, <1>2, <1>3, <1>4, <2>3, <2>4, <2>5 DEF Upkeep
<1>6. CASE j \notin Preserve({r})
  <2>1. jobs' = jobs \ {j} /\ UNCHANGED <<object, cloud, stored>>
    BY <1>6 DEF PreserveResource
  <2>2. PreserveOf(Work, token) # j
    <3>1. PreserveOf(Work, token) \in Preserve({Work})
      BY <1>3, SavesPreserved DEF Preserve
    <3>2. j = PreserveOf(Work, token) => r = Work
      BY KindsOfJobs
    <3> QED BY <1>6, <3>1, <3>2
  <2>3. \A f \in exists \cap FileSets : Work \in object => PreserveOf(f, 0) # j
    <3> SUFFICES ASSUME NEW f \in exists \cap FileSets, Work \in object PROVE PreserveOf(f, 0) # j
      OBVIOUS
    <3>1. PreserveOf(f, 0) \in Preserve({f})
      BY <1>2, <1>3, SavesPreserved DEF Preserve
    <3>2. j = PreserveOf(f, 0) => r = f
      BY KindsOfJobs
    <3> QED BY <1>6, <3>1, <3>2
  <2>4. \A f \in exists \cap FileSets : Tended(f) => Tended(f)'
    BY <1>1, <2>1, <2>3, KindsOfJobs DEF Tended
  <2> QED BY <1>1, <1>2, <1>3, <1>4, <2>1, <2>2, <2>4 DEF Upkeep, InCloud
<1> QED BY <1>5, <1>6

LEMMA OtherHandlersTend ==
    ASSUME TypeInv, NEW busy, Upkeep(busy), NEW j \in jobs,
           RunCleanupFiles(j) \/ RunCleanupPreservation(j) \/ PreserveChildren(j) \/ Characterize(j)
    PROVE  Upkeep(busy)'
<1>1. /\ UNCHANGED <<worker, exists, members, token, markers, object, stored>>
      /\ \A i \in jobs' \ jobs : i.kind \in {"preserve", "preserveChildren"}
      /\ \A i \in jobs : i # j => i \in jobs'
      /\ j.kind # "preserve"
  BY HandlersFrame DEF RunCleanupFiles, RunCleanupPreservation, PreserveChildren, Characterize
<1>2. \A f \in exists \cap FileSets : Reached(f)' /\ Reached(f) /\ f \in ToSet(members)
  BY <1>1, Reaching DEF Upkeep, Reached
<1>3. /\ Work \in exists /\ InCloud
      /\ \A i \in jobs : i.kind = "cleanupPreservation" => i.of \notin exists
      /\ (Work \in object /\ stored = members) \/ PreserveOf(Work, token) \in jobs
      /\ \A f \in exists \cap FileSets : f \in object \/ f \in busy \/ Tended(f)
  BY DEF Upkeep
<1>4. \A i \in jobs' : i.kind = "cleanupPreservation" => i.of \notin exists'
  BY <1>1, <1>3
<1>5. (Work \in object' /\ stored' = members') \/ PreserveOf(Work, token') \in jobs'
  BY <1>1, <1>3, KindsOfJobs
<1>6. InCloud'
  BY <1>1, <1>3 DEF InCloud, RunCleanupFiles, RunCleanupPreservation, PreserveChildren, Characterize
<1>7. \A f \in exists \cap FileSets : Tended(f) => Tended(f)'
  <2> SUFFICES ASSUME NEW f \in exists \cap FileSets, Tended(f), Work \in object
               PROVE  Tended(f)'
    BY <1>1 DEF Tended
  <2>1. CASE j # CharacterizeOf(f) /\ j # ChildrenJob(0)
    BY <1>1, <2>1, KindsOfJobs DEF Tended
  <2>2. CASE j = CharacterizeOf(f)
    <3>1. Characterize(j) /\ j.of = f
      BY <2>2, KindsOfJobs DEF RunCleanupFiles, RunCleanupPreservation, PreserveChildren
    <3>2. PreserveOf(f, 0) \in Preserve({f})
      BY <1>2, <1>3, DeletionAssumption, SavesPreserved DEF Preserve
    <3> QED BY <3>1, <3>2 DEF Characterize, Tended
  <2>3. CASE j = ChildrenJob(0)
    <3> DEFINE reached == {members[i] : i \in {i \in DOMAIN members : \A k \in 1..i : members[k] \in exists}}
    <3>1. PreserveChildren(j)
      BY <2>3, KindsOfJobs DEF RunCleanupFiles, RunCleanupPreservation, Characterize
    <3>2. f \in reached
      <4>1. PICK i \in 1 .. Len(members) : members[i] = f /\ \A k \in 1 .. i : members[k] \in exists
        BY <1>2 DEF Reached
      <4>2. i \in DOMAIN members
        BY <4>1 DEF TypeInv, TypeOK
      <4> QED BY <4>1, <4>2
    <3>3. jobs' = (jobs \ {j}) \cup
             {[kind |-> "preserve", of |-> g, id |-> 0] : g \in {g \in reached : Work \in exists}}
      BY <2>3, <3>1 DEF PreserveChildren
    <3> HIDE DEF reached
    <3>4. PreserveOf(f, 0) \in jobs'
      BY <1>3, <3>2, <3>3 DEF PreserveOf
    <3> QED BY <3>4 DEF Tended
  <2> QED BY <2>1, <2>2, <2>3
<1> QED BY <1>1, <1>2, <1>3, <1>4, <1>5, <1>6, <1>7 DEF Upkeep
LEMMA SameMarks ==
    ASSUME NEW half, Marks(half), UNCHANGED <<markers, exists>>
    PROVE  Marks(half)'
BY DEF Marks

LEMMA SameIdle ==
    ASSUME NEW w, OthersIdle(w), UNCHANGED worker
    PROVE  OthersIdle(w)'
BY DEF OthersIdle

LEMMA HandlersOnCourse ==
    ASSUME TypeInv, OnCourse, NEW j \in jobs,
           \/ RunCleanupFiles(j) \/ RunCleanupPreservation(j)
           \/ PreserveResource(j) \/ PreserveChildren(j) \/ Characterize(j)
    PROVE  OnCourse'
<1>1. /\ UNCHANGED <<worker, exists, members, token, markers, wanted, untimely, failed>>
      /\ \A i \in jobs' \ jobs : i.kind \in {"preserve", "preserveChildren"}
      /\ \A i \in jobs : i.kind # j.kind => i \in jobs'
      /\ j.kind \in Upkeeping \cup {"cleanupFiles", "cleanupPreservation"}
  BY HandlersFrame
<1>2. \A busy : Upkeep(busy) => Upkeep(busy)'
  BY PreserveResourceTends, OtherHandlersTend
<1>3. ASSUME NEW kinds, JobsAre(kinds), Upkeeping \subseteq kinds PROVE JobsAre(kinds)'
  BY <1>1, <1>3 DEF JobsAre, Upkeeping
<1>4. CASE Settled
  BY <1>1, <1>2, <1>3, <1>4, SameMarks DEF Settled, ListsMembers, OnCourse
<1>5. ASSUME NEW w \in Workers, Listing(w) PROVE OnCourse'
  <2> DEFINE f == worker[w].marker.of
  <2>1. Upkeep({f})' /\ Marks({f})' /\ JobsAre(Upkeeping)' /\ OthersIdle(w)' /\ ListsMembers'
    BY <1>1, <1>2, <1>3, <1>5, SameMarks, SameIdle DEF Listing, ListsMembers
  <2>2. Listing(w)'
    BY <1>1, <1>5, <2>1 DEF Listing
  <2> QED BY <2>2 DEF OnCourse
<1>6. ASSUME NEW w \in Workers, MembersCome(w) PROVE OnCourse'
  <2> DEFINE f == worker[w].marker.of
             busy == IF worker[w].pc \in {"attach", "finish"} THEN {f} ELSE {}
  <2>1. Upkeep(busy)' /\ Marks({f, Work})' /\ JobsAre(Upkeeping)' /\ OthersIdle(w)'
    BY <1>1, <1>2, <1>3, <1>6, SameMarks, SameIdle DEF MembersCome
  <2>2. MembersCome(w)'
    BY <1>1, <1>6, <2>1 DEF MembersCome
  <2> QED BY <2>2 DEF OnCourse
<1>7. CASE MembersGo
  <2>1. RunCleanupFiles(j) \/ RunCleanupPreservation(j)
    BY <1>7 DEF MembersGo, JobsAre, PreserveResource, PreserveChildren, Characterize
  <2>2. jobs' = jobs \ {j} /\ j.kind \in {"cleanupFiles", "cleanupPreservation"} /\ UNCHANGED <<object, stored>>
    BY <2>1 DEF RunCleanupFiles, RunCleanupPreservation
  <2>3. InCloud'
    BY <1>1, <1>7, <2>1 DEF MembersGo, InCloud, RunCleanupFiles, RunCleanupPreservation
  <2>4. JobsAre({"deleteMember", "cleanupFiles", "cleanupPreservation"})'
    BY <1>7, <2>2 DEF MembersGo, JobsAre
  <2>5. Marks(Going)'
    BY <1>1, <1>7, SameMarks DEF MembersGo, Going
  <2>6. \A f : DeleteJob(f) \in jobs <=> DeleteJob(f) \in jobs'
    BY <2>2, KindsOfJobs
  <2>7. /\ \A f \in exists : /\ DeleteJob(f) \in jobs \/ \E w \in Workers : Deletes(w, f)
                             /\ f \in object \/ \E w \in Workers : Deletes(w, f) /\ worker[w].pc = "dropped"
        /\ \A w \in Workers : worker[w].pc \in Deleting =>
              /\ DeleteJob(worker[w].of) \notin jobs
              /\ \A v \in Workers : Deletes(v, worker[w].of) => v = w
              /\ worker[w].pc = "dropped" => worker[w].of \notin object
        /\ \A i \in jobs : i.kind = "cleanupPreservation" => i.of \notin object
        /\ \A w \in Workers : worker[w].pc \in {"idle"} \cup Deleting
        /\ Work \notin exists /\ wanted = {}
    BY <1>7 DEF MembersGo
  <2>8. MembersGo'
    BY <1>1, <2>2, <2>3, <2>4, <2>5, <2>6, <2>7 DEF MembersGo, Deletes
  <2> QED BY <2>8 DEF OnCourse
<1>8. ASSUME NEW w \in Workers, RequestDeletes(w) PROVE OnCourse'
  <2>1. RunCleanupFiles(j)
    BY <1>8 DEF RequestDeletes, JobsAre, RunCleanupPreservation, PreserveResource, PreserveChildren, Characterize
  <2>2. jobs' = jobs \ {j} /\ UNCHANGED <<object, cloud, stored>>
    BY <2>1 DEF RunCleanupFiles
  <2>3. Resting'
    BY <1>1, <1>8, <2>2, SameMarks DEF RequestDeletes, Resting, InCloud, ListsMembers
  <2>4. RequestDeletes(w)'
    BY <1>1, <1>8, <2>2, <2>3, SameIdle DEF RequestDeletes, JobsAre
  <2> QED BY <2>4 DEF OnCourse
<1>9. CASE RestoreAsked
  <2>1. \A i \in jobs : i.kind = "restore"
    BY <1>9, KindsOfJobs DEF RestoreAsked
  <2> QED BY <1>1, <2>1 DEF Upkeeping
<1>10. CASE \E w \in Workers : Importing(w) \/ Attaching(w)
  BY <1>10 DEF Importing, Attaching
<1>11. CASE untimely \/ failed # {}
  BY <1>1, <1>11 DEF OnCourse
<1> QED BY <1>4, <1>5, <1>6, <1>7, <1>8, <1>9, <1>10, <1>11 DEF OnCourse
-----------------------------------------------------------------------------
(* A request that deletes.                                                 *)

\* What a request in time finds.
LEMMA InTimeRests ==
    ASSUME TypeInv, OnCourse, NEW event, Request(event)
    PROVE  \/ OnCourse'
           \/ /\ ~untimely /\ failed = {} /\ ~untimely' /\ failed' = {}
              /\ jobs = {} /\ \A w \in Workers : worker[w].pc = "idle"
              /\ Resting /\ wanted = exists
<1>1. CASE untimely' \/ failed # {}
  BY <1>1 DEF Request, OnCourse
<1>2. CASE ~untimely' /\ failed = {}
  <2>1. ~untimely /\ jobs = {} /\ \A w \in Workers : worker[w].pc = "idle"
    BY <1>2, InTime
  <2>2. Quiet
    BY <2>1 DEF Quiet
  <2>3. Resting /\ wanted = exists
    BY <1>2, <2>1, <2>2, PhaseQuiet, SettledRests, GoneRests
  <2> QED BY <1>2, <2>1, <2>3 DEF Request
<1> QED BY <1>1, <1>2

\* One more marker, of what goes.
LEMMA MarksMore ==
    ASSUME NEW half, Marks(half), NEW m, m.of \in Resources, m.of \in exists, m.of \notin half, m.kept,
           m.parent = IF m.of = Work THEN Nothing ELSE Work,
           markers' = markers \cup {m}, NEW now,
           \A r \in Resources : r \notin exists' \/ r \in now <=> r \notin exists \/ r \in half \/ r = m.of
    PROVE  Marks(now)'
BY DEF Marks

LEMMA DestroyOnCourse ==
    ASSUME TypeInv, Inv, OnCourse, NEW w \in Workers, NEW r \in Resources, Destroy(w, r)
    PROVE  OnCourse'
<1>a. Request("deletes")
  BY DEF Destroy
<1> SUFFICES ASSUME ~OnCourse' PROVE FALSE
  OBVIOUS
<1>1. /\ ~untimely /\ failed = {} /\ ~untimely' /\ failed' = {}
      /\ jobs = {} /\ \A v \in Workers : worker[v].pc = "idle"
      /\ Resting /\ wanted = exists
  BY <1>a, InTimeRests
<1>2. Work \in exists /\ stored = members /\ ListsMembers /\ exists \subseteq object /\ r \in exists
  BY <1>1 DEF Resting, Destroy
<1> DEFINE ids == IF r = Work THEN members ELSE <<>>
           parent == IF r # Work /\ Listed(r) THEN Work ELSE Nothing
           m   == MarkerOf(r, parent)
           d   == [Idle EXCEPT !.pc = "deleting", !.of = r, !.ids = ids, !.marker = m]
<1>3. /\ worker' = [worker EXCEPT ![w] = d]
      /\ wanted' = wanted \ ({r} \cup ToSet(ids))
      /\ jobs' = jobs \cup {CleanupFiles(f) : f \in {r} \cap FileSets}
      /\ UNCHANGED <<exists, members, token, object, cloud, stored, markers>>
  BY DEF Destroy, database
<1>4. m.of = r /\ m.kept /\ m.parent = IF r = Work THEN Nothing ELSE Work
  BY <1>2 DEF MarkerOf, Listed, ListsMembers, Resources
<1> HIDE DEF m, ids
<1>5. IsRun(d) /\ d.pc = "deleting" /\ d.of = r /\ d.marker = m /\ d.ids = ids
  BY IdleRun DEF IsRun, Fields
<1> HIDE DEF d
<1>6. /\ \A v \in Workers \ {w} : worker'[v] = worker[v]
      /\ worker'[w] = d
  BY <1>3, <1>5, Became DEF Inv
<1>7. OthersIdle(w)' /\ JobsAre({"cleanupFiles"})'
  BY <1>1, <1>3, <1>6 DEF OthersIdle, JobsAre, CleanupFiles
<1>8. Resting' /\ Work \in exists'
  BY <1>1, <1>2, <1>3, SameMarks DEF Resting, InCloud, ListsMembers
<1>9. RequestDeletes(w)'
  BY <1>1, <1>2, <1>3, <1>4, <1>5, <1>6, <1>7, <1>8 DEF RequestDeletes, ids
<1> QED BY <1>9 DEF OnCourse

LEMMA CommitOnCourse ==
    ASSUME TypeInv, Inv, OnCourse, NEW w \in Workers, Commit(w)
    PROVE  OnCourse'
<1> DEFINE d == worker[w]
<1>1. /\ d.pc = "deleting" /\ exists' = exists \ {d.of} /\ markers' = markers \cup {d.marker}
      /\ object' = object \ {d.of} /\ Rests(w) /\ UNCHANGED <<cloud, stored, wanted, untimely>>
  BY DEF Commit
<1>2. CASE untimely \/ failed # {}
  BY <1>1, <1>2 DEF Commit, Failure, OnCourse
<1>3. CASE Failure("crashes")
  BY <1>3, FailureEnds
<1>4. CASE ~untimely /\ failed = {} /\ jobs' = jobs \cup AfterDelete(d)
  <2>1. RequestDeletes(w)
    BY <1>1, <1>4, PhaseOf DEF Importing, Attaching, Listing, MembersCome, Deleting
  <2>2. \A v \in Workers : worker'[v].pc = "idle"
    BY <1>1, <2>1, Rested, IdleRun DEF RequestDeletes, OthersIdle, Inv
  <2>3. /\ Work \in exists /\ d.of \in exists /\ Resting
        /\ Marks({}) /\ InCloud /\ exists \subseteq object /\ stored = members /\ ListsMembers
        /\ JobsAre({"cleanupFiles"})
    BY <2>1 DEF RequestDeletes, Resting
  <2>4. d.of \in Resources /\ Work \in Resources /\ \A r \in exists : r = Work \/ r \in FileSets
    BY <2>3, ThereAreResources DEF Resources
  <2>5. Marks({})'
    BY <1>1, <2>1, <2>3, <2>4, MarksMore DEF RequestDeletes
  <2>6. InCloud'
    BY <1>1, <2>3 DEF InCloud
  <2>7. CASE d.of = Work
    <3>1. wanted' = {} /\ Work \notin exists'
      BY <1>1, <2>1, <2>3, <2>4, <2>7 DEF RequestDeletes, ListsMembers
    <3>2. PreserveSaved({}) = {}
      BY DEF PreserveSaved, PreserveJobs
    <3>3. jobs' = jobs \cup Queued("cleanupPreservation", {Work} \cap object) \cup Queued("deleteMember", ToSet(members))
      BY <1>4, <2>1, <2>7, <3>2 DEF AfterDelete, RequestDeletes
    <3>4. /\ \A j \in jobs' : j.kind \in {"deleteMember", "cleanupFiles", "cleanupPreservation"}
          /\ \A j \in jobs' : j.kind = "cleanupPreservation" => j.of \notin object'
      BY <1>1, <2>3, <2>7, <3>3, QueuedKind DEF JobsAre
    <3>5. \A f \in exists' : DeleteJob(f) \in jobs' /\ f \in object'
      BY <1>1, <2>3, <2>4, <2>7, <3>3, QueuedAre DEF ListsMembers, DeleteJob
    <3>6. Going' = {}
      BY <2>2 DEF Going, Deleting
    <3>7. Marks(Going)'
      BY <2>5, <3>6 DEF Marks
    <3>8. \A v \in Workers : worker'[v].pc \notin Deleting
      BY <2>2 DEF Deleting
    <3>9. MembersGo'
      BY <2>2, <2>6, <3>1, <3>4, <3>5, <3>7, <3>8 DEF MembersGo, JobsAre
    <3> QED BY <3>9 DEF OnCourse
  <2>8. CASE d.of # Work
    <3>1. Listed(d.of) /\ d.of \in FileSets
      BY <2>3, <2>4, <2>8 DEF Listed, ListsMembers
    <3>2. members' = Without(members, {d.of}) /\ token' = token + 1
      BY <2>8, <3>1 DEF Commit
    <3>3. members' \in Seq(FileSets) /\ ToSet(members') = ToSet(members) \ {d.of}
      BY <3>2, WithoutTyped DEF TypeInv, TypeOK
    <3>4. ListsMembers' /\ Work \in exists'
      BY <1>1, <2>3, <2>8, <3>3 DEF ListsMembers
    <3>5. \A f \in exists' \cap FileSets : Reached(f)'
      <4>1. members' \in Seq(FileSets) /\ ToSet(members') = exists' \cap FileSets
        BY <3>3, <3>4 DEF ListsMembers
      <4>2. \A f \in exists' \cap FileSets :
               \E i \in 1 .. Len(members') : members'[i] = f /\ \A k \in 1 .. i : members'[k] \in exists'
        BY <4>1, ReachesAll
      <4> QED BY <4>2 DEF Reached
    <3>6. jobs' = jobs \cup PreserveSaved({Work}) \cup Queued("cleanupPreservation", {d.of} \cap object)
                       \cup Queued("deleteMember", {})
      <4>1. ToSet(d.ids) = {}
        BY <2>1, <2>8 DEF RequestDeletes, ToSet
      <4> QED BY <1>4, <2>8, <3>1, <4>1 DEF AfterDelete
    <3>7. PreserveOf(Work, token') \in jobs'
      BY <3>4, <3>6, SavesPreserved DEF PreserveSaved
    <3>8. /\ \A j \in jobs' : j.kind \in Upkeeping \cup {"cleanupFiles", "cleanupPreservation"}
          /\ \A j \in jobs' : j.kind = "cleanupPreservation" => j.of \notin exists'
      BY <1>1, <2>3, <3>6, QueuedKind, PreserveKind DEF JobsAre, Upkeeping, PreserveSaved
    <3>9. \A f \in exists' \cap FileSets : f \in object'
      BY <1>1, <2>3
    <3>10. Upkeep({})'
      BY <2>6, <3>4, <3>5, <3>7, <3>8, <3>9 DEF Upkeep
    <3>11. exists' = wanted'
      BY <1>1, <2>1, <2>8 DEF RequestDeletes, ToSet
    <3>12. Settled'
      BY <2>2, <2>5, <3>4, <3>8, <3>10, <3>11 DEF Settled, JobsAre
    <3> QED BY <3>12 DEF OnCourse
  <2> QED BY <2>7, <2>8
<1> QED BY <1>2, <1>3, <1>4 DEF Commit
-----------------------------------------------------------------------------
(* The members of a work that is gone.                                     *)

LEMMA DeletingPhase ==
    ASSUME OnCourse, NEW w \in Workers, worker[w].pc \in Deleting
    PROVE  untimely \/ failed # {} \/ MembersGo
BY PhaseOf DEF RequestDeletes, Importing, Attaching, Listing, MembersCome, Deleting

LEMMA DeleteMemberOnCourse ==
    ASSUME TypeInv, Inv, OnCourse, NEW w \in Workers, NEW f \in FileSets, DeleteMember(w, f)
    PROVE  OnCourse'
<1>1. /\ worker[w].pc = "idle" /\ DeleteJob(f) \in jobs
      /\ UNCHANGED <<exists, members, token, object, cloud, stored, wanted, untimely, failed>>
  BY QueuedAre DEF DeleteMember, DeleteJob, database, aside
<1>2. DeleteJob(f).kind = "deleteMember"
  BY KindsOfJobs
<1>3. CASE untimely \/ failed # {}
  BY <1>1, <1>3 DEF OnCourse
<1>4. CASE ~untimely /\ failed = {}
  <2>1. MembersGo
    <3>1. ~Settled /\ \A v \in Workers : ~RequestDeletes(v) /\ ~Listing(v) /\ ~MembersCome(v)
      BY <1>1, <1>2 DEF Settled, RequestDeletes, Listing, MembersCome, JobsAre, Upkeeping
    <3>2. ~RestoreAsked
      BY <1>1, <1>2, KindsOfJobs DEF RestoreAsked
    <3>3. \A v \in Workers : ~Importing(v) /\ ~Attaching(v)
      BY <1>1 DEF Importing, Attaching
    <3> QED BY <1>4, <3>1, <3>2, <3>3 DEF OnCourse
  <2>2. /\ \A g \in exists : /\ DeleteJob(g) \in jobs \/ \E v \in Workers : Deletes(v, g)
                             /\ g \in object \/ \E v \in Workers : Deletes(v, g) /\ worker[v].pc = "dropped"
        /\ \A v \in Workers : worker[v].pc \in Deleting =>
              /\ DeleteJob(worker[v].of) \notin jobs
              /\ \A u \in Workers : Deletes(u, worker[v].of) => u = v
              /\ worker[v].pc = "dropped" => worker[v].of \notin object
        /\ \A i \in jobs : /\ i.kind = "cleanupPreservation" => i.of \notin object
                           /\ i.kind \in {"deleteMember", "cleanupFiles", "cleanupPreservation"}
        /\ \A v \in Workers : worker[v].pc \in {"idle"} \cup Deleting
        /\ Work \notin exists /\ wanted = {} /\ InCloud /\ Marks(Going)
    BY <2>1 DEF MembersGo, JobsAre
  <2>3. \A v \in Workers : ~Deletes(v, f)
    BY <1>1, <2>2 DEF Deletes
  <2>4. \A g : DeleteJob(g) = DeleteJob(f) => g = f
    BY KindsOfJobs
  <2>5. InCloud'
    BY <1>1, <2>2 DEF InCloud
  <2>6. CASE f \in exists
    <3> DEFINE d == [Idle EXCEPT !.pc = "marked", !.of = f]
               m == MarkerOf(f, Work)
    <3>1. /\ markers' = markers \cup {m} /\ jobs' = (jobs \ {DeleteJob(f)}) \cup {CleanupFiles(f)}
          /\ worker' = [worker EXCEPT ![w] = d]
      BY <2>6 DEF DeleteMember, Queued, DeleteJob
    <3>2. IsRun(d) /\ d.pc = "marked" /\ d.of = f
      BY IdleRun DEF IsRun, Fields
    <3> HIDE DEF d
    <3>3. /\ \A v \in Workers \ {w} : worker'[v] = worker[v]
          /\ worker'[w].pc = "marked" /\ worker'[w].of = f
      BY <3>1, <3>2, Became DEF Inv, Deleting
    <3>4. CleanupFiles(f).kind = "cleanupFiles"
      BY DEF CleanupFiles
    <3>5. f \in object
      BY <2>2, <2>3, <2>6
    <3>6. m.of = f /\ m.kept /\ m.parent = Work /\ f # Work /\ f \in Resources
      BY <3>5, DeletionAssumption DEF MarkerOf, Resources
    <3> HIDE DEF m
    <3>7. /\ \A g : g # f => (g \in Going' <=> g \in Going)
          /\ f \in Going' /\ f \notin Going
      BY <1>1, <2>3, <3>3 DEF Going, Deletes, Deleting
    <3>8. Marks(Going)'
      BY <1>1, <2>2, <2>6, <3>1, <3>6, <3>7, MarksMore
    <3>9. /\ Deletes(w, f)' /\ \A g : Deletes(w, g)' => g = f
          /\ \A v \in Workers \ {w} : \A g : Deletes(v, g)' <=> Deletes(v, g)
          /\ \A g : ~Deletes(w, g)
      BY <1>1, <3>3 DEF Deletes, Deleting
    <3>10. \A g \in exists' : /\ DeleteJob(g) \in jobs' \/ \E v \in Workers : Deletes(v, g)'
                              /\ g \in object' \/ \E v \in Workers : Deletes(v, g)' /\ worker'[v].pc = "dropped"
      BY <1>1, <2>2, <2>4, <3>1, <3>3, <3>5, <3>9
    <3>11. ASSUME NEW v \in Workers, worker'[v].pc \in Deleting
           PROVE  /\ DeleteJob(worker'[v].of) \notin jobs'
                  /\ \A u \in Workers : Deletes(u, worker[v].of)' => u = v
                  /\ worker'[v].pc = "dropped" => worker'[v].of \notin object'
      <4>1. CASE v = w
        <5>1. DeleteJob(f) \notin jobs'
          BY <1>2, <3>1, <3>4
        <5>2. \A u \in Workers : Deletes(u, f)' => u = w
          BY <2>3, <3>9
        <5> QED BY <3>3, <4>1, <5>1, <5>2
      <4>2. CASE v # w
        <5> DEFINE g == worker[v].of
        <5>1. worker'[v] = worker[v] /\ Deletes(v, g) /\ g # f
          BY <2>3, <3>3, <3>11, <4>2 DEF Deletes
        <5>2. DeleteJob(g) \notin jobs /\ DeleteJob(g) # CleanupFiles(f)
          BY <2>2, <3>4, <5>1, KindsOfJobs DEF Deletes
        <5>3. \A u \in Workers : Deletes(u, g)' => u = v
          BY <2>2, <3>9, <5>1 DEF Deletes
        <5> QED BY <1>1, <2>2, <3>1, <3>11, <5>1, <5>2, <5>3
      <4> QED BY <4>1, <4>2
    <3>12. /\ JobsAre({"deleteMember", "cleanupFiles", "cleanupPreservation"})'
           /\ \A i \in jobs' : i.kind = "cleanupPreservation" => i.of \notin object'
      BY <1>1, <2>2, <3>1, <3>4 DEF JobsAre
    <3>13. \A v \in Workers : worker'[v].pc \in {"idle"} \cup Deleting
      BY <2>2, <3>3 DEF Deleting
    <3>14. MembersGo'
      BY <1>1, <2>2, <2>5, <3>8, <3>10, <3>11, <3>12, <3>13 DEF MembersGo
    <3> QED BY <3>14 DEF OnCourse
  <2>7. CASE f \notin exists
    <3>1. jobs' = jobs \ {DeleteJob(f)} /\ UNCHANGED <<worker, markers>>
      BY <2>7 DEF DeleteMember, Queued, DeleteJob
    <3>2. Marks(Going)'
      BY <1>1, <2>2, <3>1, SameMarks DEF Going
    <3>3. \A g \in exists : DeleteJob(g) \in jobs => DeleteJob(g) \in jobs'
      BY <2>4, <2>7, <3>1
    <3>4. MembersGo'
      BY <1>1, <2>2, <2>5, <3>1, <3>2, <3>3 DEF MembersGo, Deletes, JobsAre
    <3> QED BY <3>4 DEF OnCourse
  <2> QED BY <2>6, <2>7
<1> QED BY <1>3, <1>4

LEMMA CleanupOnCourse ==
    ASSUME Inv, OnCourse, NEW w \in Workers, CleanupStructure(w) \/ CleanupMembership(w)
    PROVE  OnCourse'
<1>1. /\ worker[w].pc \in {"marked", "unlisting"} /\ \E pc \in {"unlisting", "unlinked"} : Goes(w, pc)
      /\ UNCHANGED <<object, cloud, stored, markers, wanted, untimely, failed>>
      /\ Work \notin exists => UNCHANGED <<exists, jobs>>
  BY DEF CleanupStructure, CleanupMembership, Listed, database, aside
<1>2. untimely \/ failed # {} \/ MembersGo
  BY <1>1, DeletingPhase DEF Deleting
<1>3. CASE untimely \/ failed # {}
  BY <1>1, <1>3 DEF OnCourse
<1>4. CASE MembersGo
  <2>1. /\ \A v \in Workers \ {w} : worker'[v] = worker[v]
        /\ worker'[w].pc \in {"unlisting", "unlinked"} /\ worker'[w].of = worker[w].of
    BY <1>1, Went DEF Inv, Deleting
  <2>2. \A v \in Workers : /\ worker'[v].of = worker[v].of
                           /\ worker'[v].pc \in Deleting <=> worker[v].pc \in Deleting
                           /\ worker'[v].pc = "dropped" <=> worker[v].pc = "dropped"
                           /\ worker'[v].pc = "idle" <=> worker[v].pc = "idle"
    BY <1>1, <2>1 DEF Deleting
  <2>3. /\ \A v \in Workers : \A g : Deletes(v, g)' <=> Deletes(v, g)
        /\ Going' = Going
    BY <2>2 DEF Deletes, Going
  <2>4. UNCHANGED <<exists, jobs>>
    BY <1>1, <1>4 DEF MembersGo
  <2>5. Marks(Going)' /\ InCloud'
    BY <1>1, <1>4, <2>3, <2>4 DEF MembersGo, Marks, InCloud
  <2>6. MembersGo'
    BY <1>1, <1>4, <2>2, <2>3, <2>4, <2>5 DEF MembersGo, JobsAre
  <2> QED BY <2>6 DEF OnCourse
<1> QED BY <1>2, <1>3, <1>4

LEMMA DeleteReferencedOnCourse ==
    ASSUME Inv, OnCourse, NEW w \in Workers, DeleteReferenced(w)
    PROVE  OnCourse'
<1> DEFINE f == worker[w].of
<1>1. /\ worker[w].pc = "unlinked" /\ Goes(w, "dropped")
      /\ UNCHANGED <<exists, cloud, stored, markers, wanted, untimely, failed>>
      /\ object' = object \ {f} /\ jobs' = jobs \cup Queued("cleanupPreservation", {f} \cap object)
  BY DEF DeleteReferenced, database, aside
<1>2. untimely \/ failed # {} \/ MembersGo
  BY <1>1, DeletingPhase DEF Deleting
<1>3. CASE untimely \/ failed # {}
  BY <1>1, <1>3 DEF OnCourse
<1>4. CASE MembersGo
  <2>1. /\ \A v \in Workers \ {w} : worker'[v] = worker[v]
        /\ worker'[w].pc = "dropped" /\ worker'[w].of = worker[w].of
    BY <1>1, Went DEF Inv, Deleting
  <2>2. \A v \in Workers : /\ worker'[v].of = worker[v].of
                           /\ worker'[v].pc \in Deleting <=> worker[v].pc \in Deleting
                           /\ worker'[v].pc = "dropped" <=> worker[v].pc = "dropped" \/ v = w
                           /\ worker'[v].pc = "idle" <=> worker[v].pc = "idle"
    BY <1>1, <2>1 DEF Deleting
  <2>3. /\ \A v \in Workers : \A g : Deletes(v, g)' <=> Deletes(v, g)
        /\ Going' = Going /\ Deletes(w, f)
    BY <1>1, <2>2 DEF Deletes, Going, Deleting
  <2>4. Marks(Going)' /\ InCloud'
    BY <1>1, <1>4, <2>3 DEF MembersGo, Marks, InCloud
  <2>5. \A i \in jobs' \ jobs : i.kind = "cleanupPreservation" /\ i.of = f
    BY <1>1, QueuedKind
  <2>6. \A g : DeleteJob(g) \in jobs' <=> DeleteJob(g) \in jobs
    BY <1>1, <2>5, KindsOfJobs
  <2>7. /\ JobsAre({"deleteMember", "cleanupFiles", "cleanupPreservation"})'
        /\ \A i \in jobs' : i.kind = "cleanupPreservation" => i.of \notin object'
    BY <1>1, <1>4, <2>5 DEF MembersGo, JobsAre
  <2>8. \A g \in exists' : /\ DeleteJob(g) \in jobs' \/ \E v \in Workers : Deletes(v, g)'
                           /\ g \in object' \/ \E v \in Workers : Deletes(v, g)' /\ worker'[v].pc = "dropped"
    BY <1>1, <1>4, <2>2, <2>3, <2>6 DEF MembersGo
  <2>9. \A v \in Workers : worker'[v].pc \in Deleting =>
          /\ DeleteJob(worker'[v].of) \notin jobs'
          /\ \A u \in Workers : Deletes(u, worker[v].of)' => u = v
          /\ worker'[v].pc = "dropped" => worker'[v].of \notin object'
    BY <1>1, <1>4, <2>2, <2>3, <2>6 DEF MembersGo
  <2>10. MembersGo'
    BY <1>1, <1>4, <2>2, <2>4, <2>7, <2>8, <2>9 DEF MembersGo
  <2> QED BY <2>10 DEF OnCourse
<1> QED BY <1>2, <1>3, <1>4

LEMMA DeleteRowOnCourse ==
    ASSUME Inv, OnCourse, NEW w \in Workers, DeleteRow(w)
    PROVE  OnCourse'
<1> DEFINE f == worker[w].of
<1>1. /\ worker[w].pc = "dropped" /\ Rests(w) /\ exists' = exists \ {f}
      /\ UNCHANGED <<object, cloud, stored, markers, wanted, jobs, untimely, failed>>
  BY DEF DeleteRow, aside
<1>2. untimely \/ failed # {} \/ MembersGo
  BY <1>1, DeletingPhase DEF Deleting
<1>3. CASE untimely \/ failed # {}
  BY <1>1, <1>3 DEF OnCourse
<1>4. CASE MembersGo
  <2>1. /\ \A v \in Workers \ {w} : worker'[v] = worker[v]
        /\ worker'[w].pc = "idle"
    BY <1>1, Rested, IdleRun DEF Inv
  <2>2. /\ Deletes(w, f) /\ \A v \in Workers : Deletes(v, f) => v = w
        /\ f \notin object
    BY <1>1, <1>4 DEF MembersGo, Deletes, Deleting
  <2>3. /\ \A v \in Workers : \A g : Deletes(v, g)' <=> Deletes(v, g) /\ v # w
        /\ \A g : g \in Going' <=> g \in Going /\ g # f
        /\ f \in Going
    BY <1>1, <2>1, <2>2 DEF Deletes, Going, Deleting
  <2>4. Marks(Going)' /\ InCloud'
    BY <1>1, <1>4, <2>2, <2>3 DEF MembersGo, Marks, InCloud
  <2>5. \A g \in exists' : \A v \in Workers : Deletes(v, g) => v # w
    BY <1>1 DEF Deletes
  <2>6. \A g \in exists' : /\ DeleteJob(g) \in jobs' \/ \E v \in Workers : Deletes(v, g)'
                           /\ g \in object' \/ \E v \in Workers : Deletes(v, g)' /\ worker'[v].pc = "dropped"
    BY <1>1, <1>4, <2>1, <2>3, <2>5 DEF MembersGo
  <2>7. \A v \in Workers : worker'[v].pc \in Deleting =>
          /\ v # w /\ DeleteJob(worker'[v].of) \notin jobs'
          /\ \A u \in Workers : Deletes(u, worker[v].of)' => u = v
          /\ worker'[v].pc = "dropped" => worker'[v].of \notin object'
    BY <1>1, <1>4, <2>1, <2>3 DEF MembersGo, Deleting
  <2>8. \A v \in Workers : worker'[v].pc \in {"idle"} \cup Deleting
    BY <1>4, <2>1 DEF MembersGo
  <2>9. MembersGo'
    BY <1>1, <1>4, <2>4, <2>6, <2>7, <2>8 DEF MembersGo, JobsAre
  <2> QED BY <2>9 DEF OnCourse
<1> QED BY <1>2, <1>3, <1>4
-----------------------------------------------------------------------------
(* Requests that restore.                                                  *)

LEMMA MarksAs ==
    ASSUME NEW half, Marks(half), markers' = markers, NEW now,
           \A r \in Resources : r \notin exists' \/ r \in now <=> r \notin exists \/ r \in half
    PROVE  Marks(now)'
BY DEF Marks

\* One marker less, of what is back.
LEMMA MarksLess ==
    ASSUME NEW half, Marks(half), NEW m \in markers, markers' = markers \ {m}, NEW now,
           \A r \in Resources : r \notin exists' \/ r \in now <=> (r \notin exists \/ r \in half) /\ r # m.of
    PROVE  Marks(now)'
BY DEF Marks

\* Jobs that save are more, and perhaps a file set that a thread is busy with.
LEMMA UpkeepMore ==
    ASSUME NEW busy, Upkeep(busy), NEW now,
           UNCHANGED <<members, token, object, cloud, stored>>, exists \subseteq exists', jobs \subseteq jobs',
           \A i \in jobs' : i.kind # "cleanupPreservation",
           \A f \in exists' \cap FileSets : f \in exists \/ (f \in now /\ Reached(f)'),
           \A f \in exists \cap FileSets : f \in busy => f \in now \/ CharacterizeOf(f) \in jobs'
    PROVE  Upkeep(now)'
<1>1. \A f : Reached(f) => Reached(f)'
  BY DEF Reached
<1>2. \A f : Tended(f) => Tended(f)'
  BY DEF Tended
<1> QED BY <1>1, <1>2 DEF Upkeep, InCloud, Tended

LEMMA MarkerOfMissing ==
    ASSUME TypeInv, Resting, NEW m \in markers
    PROVE  /\ m.kept /\ m.of \notin exists /\ m.of \in Resources /\ Work # Nothing /\ Work \notin FileSets
           /\ m.parent = IF m.of = Work THEN Nothing ELSE Work
           /\ m.of # Work => m.of \in FileSets
<1>1. Proper(m)
  BY DEF TypeInv
<1>2. m.of \in Resources /\ Work # Nothing /\ Work \notin FileSets
  BY <1>1, ProperMarker
<1> QED BY <1>2 DEF Resting, Marks, Resources

LEMMA RestoreOnCourse ==
    ASSUME TypeInv, OnCourse, NEW m \in markers, Restore(m)
    PROVE  OnCourse'
<1>a. Request("restores")
  BY DEF Restore
<1> SUFFICES ASSUME ~OnCourse' PROVE FALSE
  OBVIOUS
<1>1. /\ jobs = {} /\ \A v \in Workers : worker[v].pc = "idle"
      /\ Resting /\ wanted = exists
  BY <1>a, InTimeRests
<1>2. /\ wanted' = wanted \cup WithMembers(m.of) /\ jobs' = {RestoreJob(m)}
      /\ UNCHANGED <<exists, members, object, cloud, stored, markers, worker>>
  BY <1>1, MarkerOfMissing DEF Restore, database
<1>3. Resting'
  BY <1>1, <1>2, SameMarks DEF Resting, InCloud, ListsMembers
<1>4. RestoreAsked'
  BY <1>1, <1>2, <1>3 DEF RestoreAsked, WithMembers
<1> QED BY <1>4 DEF OnCourse

LEMMA ReinstateOnCourse ==
    ASSUME TypeInv, OnCourse, NEW m \in markers, Reinstate(m)
    PROVE  OnCourse'
<1> DEFINE f == m.of
<1>a. Request("restores") /\ m.parent = Work /\ Work \in exists
  BY DEF Reinstate
<1> SUFFICES ASSUME ~OnCourse' PROVE FALSE
  OBVIOUS
<1>1. /\ jobs = {} /\ \A v \in Workers : worker[v].pc = "idle"
      /\ Resting /\ wanted = exists
  BY <1>a, InTimeRests
<1>2. /\ Marks({}) /\ InCloud /\ exists \subseteq object /\ stored = members /\ ListsMembers
      /\ m.kept /\ f \notin exists /\ f \in FileSets /\ f # Work
  BY <1>a, <1>1, MarkerOfMissing DEF Resting
<1>3. /\ exists' = exists \cup {f} /\ members' = Append(members, f) /\ token' = token + 1
      /\ markers' = markers \ {m} /\ wanted' = wanted \cup {f}
      /\ jobs' = Queued("characterize", {f}) \cup PreserveSaved({Work, f})
      /\ UNCHANGED <<object, cloud, stored, worker>>
  BY <1>1, <1>2 DEF Reinstate, Reimported
<1>4. members' \in Seq(FileSets) /\ ToSet(members') = ToSet(members) \cup {f}
  BY <1>2, <1>3, Appended DEF TypeInv, TypeOK
<1>5. ListsMembers' /\ Work \in exists' /\ exists' = wanted'
  BY <1>a, <1>1, <1>2, <1>3, <1>4 DEF ListsMembers
<1>6. \A g \in exists' \cap FileSets : Reached(g)'
  <2>1. members' \in Seq(FileSets) /\ ToSet(members') = exists' \cap FileSets
    BY <1>4, <1>5 DEF ListsMembers
  <2>2. \A g \in exists' \cap FileSets :
           \E i \in 1 .. Len(members') : members'[i] = g /\ \A k \in 1 .. i : members'[k] \in exists'
    BY <2>1, ReachesAll
  <2> QED BY <2>2 DEF Reached
<1>7. PreserveOf(Work, token') \in jobs'
  BY <1>3, <1>5, SavesPreserved DEF PreserveSaved
<1>8. CharacterizeOf(f) \in jobs'
  BY <1>3, QueuedAre DEF CharacterizeOf
<1>9. \A j \in jobs' : j.kind \in Upkeeping
  BY <1>3, QueuedKind, PreserveKind DEF PreserveSaved, Upkeeping
<1>10. InCloud'
  BY <1>2, <1>3 DEF InCloud
<1>11. \A g \in exists' \cap FileSets : g \in object' \/ Tended(g)'
  BY <1>2, <1>3, <1>8 DEF Tended
<1>12. Upkeep({})'
  BY <1>5, <1>6, <1>7, <1>9, <1>10, <1>11 DEF Upkeep, Upkeeping
<1>13. Marks({})'
  BY <1>2, <1>3, MarksLess
<1>14. Settled'
  BY <1>1, <1>3, <1>5, <1>9, <1>12, <1>13 DEF Settled, JobsAre
<1> QED BY <1>14 DEF OnCourse

-----------------------------------------------------------------------------
(* The job that restores.                                                  *)

LEMMA RestoringPhase ==
    ASSUME OnCourse, ~untimely, failed = {}, NEW w \in Workers, worker[w].pc \in Restoring
    PROVE  \/ Importing(w) /\ worker[w].pc = "import"
           \/ Attaching(w) /\ worker[w].pc = "attach"
           \/ Listing(w) /\ worker[w].pc = "finish"
           \/ MembersCome(w)
BY PhaseOf DEF RequestDeletes, Importing, Attaching, Listing, Restoring, Deleting

LEMMA TakeRestoreOnCourse ==
    ASSUME TypeInv, Inv, OnCourse, NEW w \in Workers, TakeRestore(w)
    PROVE  OnCourse'
<1>1. /\ UNCHANGED <<exists, members, object, cloud, stored, markers, wanted, untimely, failed>>
      /\ worker[w].pc = "idle"
  BY DEF TakeRestore, database, aside
<1>2. CASE untimely \/ failed # {}
  BY <1>1, <1>2 DEF OnCourse
<1>3. CASE ~untimely /\ failed = {}
  <2>1. PICK j \in jobs : /\ j.kind = "restore" /\ jobs' = jobs \ {j}
                          /\ LET found == {m \in markers : RestoreJob(m) = j /\ m.kept}
                             IN  \/ \E m \in found : worker' = [worker EXCEPT ![w] =
                                           [Idle EXCEPT !.pc = "import", !.marker = m]]
                                 \/ found = {} /\ UNCHANGED worker
    BY DEF TakeRestore
  <2>2. RestoreAsked
    <3>1. ~Settled /\ ~MembersGo /\ \A v \in Workers : ~RequestDeletes(v) /\ ~Listing(v) /\ ~MembersCome(v)
      BY <2>1 DEF Settled, MembersGo, RequestDeletes, Listing, MembersCome, JobsAre, Upkeeping
    <3>2. \A v \in Workers : ~Importing(v) /\ ~Attaching(v)
      BY <2>1 DEF Importing, Attaching
    <3> QED BY <1>3, <3>1, <3>2 DEF OnCourse
  <2>3. PICK m \in markers : jobs = {RestoreJob(m)} /\ wanted = exists \cup WithMembers(m.of)
    BY <2>2 DEF RestoreAsked
  <2>4. Resting /\ \A v \in Workers : worker[v].pc = "idle"
    BY <2>2 DEF RestoreAsked
  <2>5. m.kept /\ RestoreJob(m) = j /\ jobs' = {}
    BY <2>1, <2>3, <2>4, MarkerOfMissing
  <2>6. \A n \in markers : RestoreJob(n) = RestoreJob(m) => n = m
    <3>1. \A n : RestoreJob(n) = RestoreJob(m) => n.of = m.of
      BY KindsOfJobs
    <3> QED BY <2>4, <3>1 DEF Resting, Marks
  <2> DEFINE d == [Idle EXCEPT !.pc = "import", !.marker = m]
  <2>7. worker' = [worker EXCEPT ![w] = d]
    BY <2>1, <2>5, <2>6
  <2>8. IsRun(d) /\ d.pc = "import" /\ d.marker = m /\ d.outer = Nothing /\ d.ids = <<>>
    BY IdleRun DEF IsRun, Fields
  <2> HIDE DEF d
  <2>9. /\ \A v \in Workers \ {w} : worker'[v] = worker[v]
        /\ worker'[w] = d
    BY <2>7, <2>8, Became DEF Inv, Restoring
  <2>10. Resting' /\ OthersIdle(w)'
    BY <1>1, <2>4, <2>9, SameMarks DEF Resting, InCloud, ListsMembers, OthersIdle
  <2>11. Importing(w)'
    BY <1>1, <2>3, <2>5, <2>8, <2>9, <2>10 DEF Importing, WithMembers
  <2> QED BY <2>11 DEF OnCourse
<1> QED BY <1>2, <1>3

\* What Import does to the threads.
LEMMA ImportGoes ==
    ASSUME Inv, NEW w \in Workers, Import(w)
    PROVE  LET m == worker[w].marker
           IN  /\ \A v \in Workers \ {w} : worker'[v] = worker[v]
               /\ worker'[w].pc = "attach" /\ worker'[w].marker = m /\ worker'[w].outer = worker[w].outer
               /\ worker'[w].ids = IF m.of = Work THEN stored ELSE worker[w].ids
               /\ UNCHANGED <<object, cloud, stored, markers, wanted, untimely, failed>>
               /\ exists' = exists \cup {m.of} /\ jobs' = jobs \cup PreserveSaved({m.of})
               /\ IF m.of = Work THEN members' = stored /\ token' = token + 1 ELSE UNCHANGED <<members, token>>
<1> DEFINE m == worker[w].marker
           next == IF m.of = Work THEN stored ELSE worker[w].ids
<1>1. worker' = [worker EXCEPT ![w].pc = "attach", ![w].ids = next]
  BY DEF Import
<1> HIDE DEF next
<1>2. /\ \A v \in Workers \ {w} : worker'[v] = worker[v]
      /\ worker'[w].pc = "attach" /\ worker'[w].marker = m /\ worker'[w].outer = worker[w].outer
      /\ worker'[w].ids = next
  BY <1>1 DEF Inv, Shape, IsRun, Fields
<1> QED BY <1>2 DEF Import, Imported, aside, next

LEMMA ImportWork ==
    ASSUME TypeInv, Inv, NEW w \in Workers, Import(w), Importing(w), worker[w].marker.of = Work
    PROVE  MembersCome(w)'
<1>1. /\ \A v \in Workers \ {w} : worker'[v] = worker[v]
      /\ worker'[w].pc = "attach" /\ worker'[w].marker = worker[w].marker /\ worker'[w].outer = worker[w].outer
      /\ worker'[w].ids = stored /\ members' = stored /\ token' = token + 1
      /\ UNCHANGED <<object, cloud, stored, markers, wanted, untimely, failed>>
      /\ exists' = exists \cup {Work} /\ jobs' = jobs \cup PreserveSaved({Work})
  BY ImportGoes
<1>2. /\ OthersIdle(w) /\ jobs = {} /\ Resting /\ worker[w].outer = Nothing /\ worker[w].marker \in markers
      /\ wanted = exists \cup WithMembers(Work)
  BY DEF Importing
<1>3. /\ Work \notin exists /\ exists = {} /\ Marks({}) /\ InCloud /\ Work \notin FileSets
  BY <1>2, MarkerOfMissing DEF Resting
<1>4. stored \in Seq(FileSets) /\ ToSet(stored) \subseteq FileSets
  BY ToSetType DEF TypeInv, TypeOK
<1>5. Marks({Work})'
  BY <1>1, <1>3, MarksAs
<1>6. PreserveOf(Work, token') \in jobs'
  BY <1>1, SavesPreserved DEF PreserveSaved
<1>7. \A j \in jobs' : j.kind = "preserve"
  BY <1>1, <1>2, PreserveKind DEF PreserveSaved
<1>8. Upkeep({Work})'
  BY <1>1, <1>3, <1>6, <1>7 DEF Upkeep, InCloud
<1>9. wanted' = exists' \cup ToSet(stored) /\ ToSet(members') = wanted' \cap FileSets
  BY <1>1, <1>2, <1>3, <1>4 DEF WithMembers
<1>10. Len(members') - Len(worker'[w].ids) = 0
  BY <1>1, <1>4
<1>11. {Work, Work} = {Work}
  OBVIOUS
<1>12. /\ OthersIdle(w)' /\ JobsAre(Upkeeping)' /\ Work \in exists'
  BY <1>1, <1>2, <1>7 DEF OthersIdle, JobsAre, Upkeeping
<1>13. \A i \in 1 .. Len(worker'[w].ids) :
          worker'[w].ids[i] = members'[Len(members') - Len(worker'[w].ids) + i]
  BY <1>1, <1>4
<1>14. Marks({worker[w].marker.of, Work})' /\ Upkeep({worker[w].marker.of})'
  BY <1>1, <1>5, <1>8, <1>11
<1> QED BY <1>1, <1>2, <1>9, <1>10, <1>12, <1>13, <1>14 DEF MembersCome

LEMMA ImportFileSet ==
    ASSUME TypeInv, Inv, NEW w \in Workers, Import(w), Importing(w), worker[w].marker.of # Work
    PROVE  Attaching(w)'
<1> DEFINE f == worker[w].marker.of
<1>1. /\ \A v \in Workers \ {w} : worker'[v] = worker[v]
      /\ worker'[w].pc = "attach" /\ worker'[w].marker = worker[w].marker /\ worker'[w].outer = worker[w].outer
      /\ worker'[w].ids = worker[w].ids /\ UNCHANGED <<members, token>>
      /\ UNCHANGED <<object, cloud, stored, markers, wanted, untimely, failed>>
      /\ exists' = exists \cup {f} /\ jobs' = jobs \cup PreserveSaved({f})
  BY ImportGoes
<1>2. /\ OthersIdle(w) /\ jobs = {} /\ Resting /\ worker[w].outer = Nothing /\ worker[w].marker \in markers
      /\ wanted = exists \cup WithMembers(f) /\ worker[w].ids = <<>>
  BY DEF Importing
<1>3. f \notin exists /\ f \in FileSets /\ f # Work
  BY <1>2, MarkerOfMissing
<1>4. /\ Marks({}) /\ InCloud /\ exists \subseteq object
      /\ Work \in exists => stored = members /\ ListsMembers
  BY <1>2 DEF Resting
<1>5. Marks({f})'
  BY <1>1, <1>3, <1>4, MarksAs
<1>6. jobs' = {}
  <2>1. \A j \in PreserveSaved({f}) : FALSE
    <3> SUFFICES ASSUME NEW j \in PreserveSaved({f}) PROVE FALSE
      OBVIOUS
    <3>1. j.of = f /\ (j.of = Work \/ (Work \in exists' /\ j.of \in ToSet(members')))
      BY PreservedAre DEF PreserveSaved
    <3> QED BY <1>1, <1>3, <1>4, <3>1 DEF ListsMembers
  <2> QED BY <1>1, <1>2, <2>1
<1>7. wanted' = exists'
  BY <1>1, <1>2, <1>3 DEF WithMembers
<1>8. Work \in exists' => /\ InCloud' /\ stored' = members'
                          /\ object' = exists' \ {f} /\ ToSet(members') = object' \cap FileSets
  BY <1>1, <1>3, <1>4 DEF InCloud, ListsMembers
<1> QED BY <1>1, <1>2, <1>3, <1>5, <1>6, <1>7, <1>8 DEF Attaching, OthersIdle

\* A position that the thread has come to, and the rest.
LEMMA ImportMember ==
    ASSUME TypeInv, Inv, NEW w \in Workers, Import(w), MembersCome(w)
    PROVE  MembersCome(w)'
<1>0. PICK f : f = worker[w].marker.of
  OBVIOUS
<1> DEFINE d == worker[w]
           n == Len(members) - Len(worker[w].ids)
<1>1. d.pc = "import"
  BY DEF Import
<1>2. /\ OthersIdle(w) /\ JobsAre(Upkeeping) /\ f \in FileSets
      /\ d.outer # Nothing /\ d.outer.of = Work /\ d.outer \in markers /\ d.marker \in markers
      /\ Marks({f, Work}) /\ Upkeep({})
      /\ n >= 0 /\ \A i \in 1 .. Len(d.ids) : d.ids[i] = members[n + i]
      /\ f \notin exists /\ n > 0 /\ members[n] = f /\ \A k \in 1 .. n - 1 : members[k] \in exists
      /\ wanted = exists \cup ToSet(d.ids) \cup {f}
      /\ ToSet(members) = wanted \cap FileSets
  BY <1>0, <1>1 DEF MembersCome
<1>3. f # Work
  BY <1>2, DeletionAssumption
<1>4. /\ \A v \in Workers \ {w} : worker'[v] = worker[v]
      /\ worker'[w].pc = "attach" /\ worker'[w].marker = d.marker /\ worker'[w].outer = d.outer
      /\ worker'[w].ids = d.ids /\ UNCHANGED <<members, token>>
      /\ UNCHANGED <<object, cloud, stored, markers, wanted, untimely, failed>>
      /\ exists' = exists \cup {f} /\ jobs' = jobs \cup PreserveSaved({f})
  BY <1>0, <1>3, ImportGoes
<1>5. Marks({f, Work})'
  BY <1>2, <1>4, MarksAs
<1>6. \A j \in jobs' : j.kind \in Upkeeping
  BY <1>2, <1>4, PreserveKind DEF JobsAre, PreserveSaved, Upkeeping
<1>7. members \in Seq(FileSets) /\ d.ids \in Seq(FileSets) /\ n \in 1 .. Len(members)
  <2>1. members \in Seq(FileSets) /\ d.ids \in Seq(FileSets)
    BY RunOf DEF TypeInv, TypeOK
  <2> QED BY <1>2, <2>1
<1> HIDE DEF n
<1>8. \A k \in 1 .. n : members'[k] \in exists'
  <2>1. \A k \in 1 .. n : k = n \/ k \in 1 .. n - 1
    BY <1>7
  <2> QED BY <1>2, <1>4, <2>1
<1>9. Reached(f)'
  BY <1>2, <1>4, <1>7, <1>8 DEF Reached
<1>10. Upkeep({f})'
  <2>1. \A i \in jobs' : i.kind # "cleanupPreservation"
    BY <1>6 DEF Upkeeping
  <2>2. \A g \in exists' \cap FileSets : g \in exists \/ (g \in {f} /\ Reached(g)')
    BY <1>4, <1>9
  <2>3. /\ UNCHANGED <<members, token, object, cloud, stored>>
        /\ exists \subseteq exists' /\ jobs \subseteq jobs' /\ Upkeep({})
        /\ \A g \in exists \cap FileSets : g \in {} => g \in {f} \/ CharacterizeOf(g) \in jobs'
    BY <1>2, <1>4
  <2> HIDE DEF d
  <2> QED BY <2>1, <2>2, <2>3, UpkeepMore
<1>11. /\ OthersIdle(w)' /\ JobsAre(Upkeeping)' /\ f \in exists' /\ wanted' = exists' \cup ToSet(d.ids)
       /\ n = Len(members') - Len(worker'[w].ids)
  BY <1>2, <1>4, <1>6 DEF OthersIdle, JobsAre, n
<1> QED BY <1>0, <1>2, <1>4, <1>5, <1>8, <1>10, <1>11 DEF MembersCome

LEMMA ImportOnCourse ==
    ASSUME TypeInv, Inv, OnCourse, NEW w \in Workers, Import(w)
    PROVE  OnCourse'
<1>1. worker[w].pc = "import" /\ UNCHANGED <<untimely, failed>>
  BY DEF Import, aside
<1>2. CASE untimely \/ failed # {}
  BY <1>1, <1>2 DEF OnCourse
<1>3. CASE ~untimely /\ failed = {}
  <2>1. Importing(w) \/ MembersCome(w)
    BY <1>1, <1>3, RestoringPhase DEF Restoring
  <2> QED BY <2>1, ImportWork, ImportFileSet, ImportMember DEF OnCourse
<1> QED BY <1>2, <1>3

\* What is imported is not there, and its parent is.
LEMMA StopsOnCourse ==
    ASSUME TypeInv, OnCourse, NEW w \in Workers, ImportStale(w) \/ ParentGone(w)
    PROVE  OnCourse'
<1>1. CASE ParentGone(w)
  BY <1>1 DEF ParentGone, OnCourse
<1>2. CASE ImportStale(w)
  <2>1. worker[w].pc = "import" /\ worker[w].marker.of \in exists /\ UNCHANGED <<untimely, failed>>
    BY <1>2 DEF ImportStale, aside
  <2>2. ASSUME ~untimely, failed = {} PROVE FALSE
    <3>1. Importing(w) \/ MembersCome(w)
      BY <2>1, <2>2, RestoringPhase DEF Restoring
    <3>2. CASE Importing(w)
      BY <2>1, <3>2, MarkerOfMissing DEF Importing
    <3>3. CASE MembersCome(w)
      BY <2>1, <3>3 DEF MembersCome
    <3> QED BY <3>1, <3>2, <3>3
  <2> QED BY <2>1, <2>2 DEF OnCourse
<1> QED BY <1>1, <1>2
LEMMA AttachFileSet ==
    ASSUME TypeInv, Inv, NEW w \in Workers, AttachToParent(w), Attaching(w)
    PROVE  failed' # {} \/ Listing(w)'
<1>0. PICK f : f = worker[w].marker.of
  OBVIOUS
<1> DEFINE d == worker[w]
<1>1. /\ OthersIdle(w) /\ jobs = {} /\ Marks({f}) /\ f \in exists /\ f \in FileSets /\ wanted = exists
      /\ d.pc = "attach" /\ d.outer = Nothing /\ d.ids = <<>> /\ d.marker \in markers
      /\ Work \in exists => /\ InCloud /\ stored = members
                            /\ object = exists \ {f} /\ ToSet(members) = object \cap FileSets
  BY <1>0 DEF Attaching
<1>2. d.marker.parent = Work /\ Work # Nothing /\ f # Work
  BY <1>0, <1>1, DeletionAssumption DEF Marks, Resources
<1>3. ~Listed(f)
  BY <1>1 DEF Listed
<1>4. /\ Work \in exists /\ SaveMembers(Append(members, f)) /\ jobs' = jobs \cup PreserveSaved({Work})
      /\ Goes(w, "finish") /\ UNCHANGED <<object, cloud, stored, markers, wanted, untimely, failed>>
  BY <1>0, <1>2, <1>3 DEF AttachToParent, aside
<1>5. /\ \A v \in Workers \ {w} : worker'[v] = worker[v]
      /\ worker'[w].pc = "finish" /\ worker'[w].marker = d.marker /\ worker'[w].outer = d.outer
      /\ worker'[w].ids = d.ids
  BY <1>4, Went DEF Inv, Restoring
<1>6. members' = Append(members, f) /\ token' = token + 1 /\ exists' = exists
  BY <1>4 DEF SaveMembers
<1>7. members' \in Seq(FileSets) /\ ToSet(members') = ToSet(members) \cup {f}
  BY <1>1, <1>6, Appended DEF TypeInv, TypeOK
<1>8. ListsMembers'
  BY <1>1, <1>4, <1>6, <1>7 DEF ListsMembers
<1>9. \A g \in exists' \cap FileSets : Reached(g)'
  <2>1. members' \in Seq(FileSets) /\ ToSet(members') = exists' \cap FileSets
    BY <1>7, <1>8 DEF ListsMembers
  <2>2. \A g \in exists' \cap FileSets :
           \E i \in 1 .. Len(members') : members'[i] = g /\ \A k \in 1 .. i : members'[k] \in exists'
    BY <2>1, ReachesAll
  <2> QED BY <2>2 DEF Reached
<1>10. PreserveOf(Work, token') \in jobs'
  BY <1>4, <1>6, SavesPreserved DEF PreserveSaved
<1>11. \A j \in jobs' : j.kind = "preserve"
  BY <1>1, <1>4, PreserveKind DEF PreserveSaved
<1>12. Upkeep({f})'
  BY <1>1, <1>4, <1>6, <1>9, <1>10, <1>11 DEF Upkeep, InCloud
<1>13. Marks({f})'
  BY <1>1, <1>4, <1>6, SameMarks
<1>14. OthersIdle(w)' /\ JobsAre(Upkeeping)'
  BY <1>1, <1>5, <1>11 DEF OthersIdle, JobsAre, Upkeeping
<1>15. Listing(w)'
  BY <1>0, <1>1, <1>4, <1>5, <1>6, <1>8, <1>12, <1>13, <1>14 DEF Listing
<1> QED BY <1>15

\* What a thread that restores members knows.
LEMMA Coming ==
    ASSUME TypeInv, NEW w \in Workers, MembersCome(w), worker[w].pc # "import"
    PROVE  LET f == worker[w].marker.of
           IN  /\ Work \in exists /\ Work # Nothing /\ f \in exists /\ f \in Resources
               /\ worker[w].marker.parent = IF f = Work THEN Nothing ELSE Work
               /\ f # Work => f \in FileSets /\ Listed(f)
               /\ members \in Seq(FileSets) /\ worker[w].ids \in Seq(FileSets)
<1> DEFINE f == worker[w].marker.of
<1>1. Work \in exists /\ f \in exists /\ worker[w].marker \in markers /\ Marks({f, Work})
  BY DEF MembersCome, Upkeep
<1>2. f \in Resources /\ Work # Nothing /\ members \in Seq(FileSets) /\ worker[w].ids \in Seq(FileSets)
  BY <1>1, RunOf, ProperMarker DEF TypeInv, TypeOK
<1>3. f # Work => f \in FileSets
  BY <1>2 DEF Resources
<1>4. f # Work => f \in ToSet(members)
  BY <1>1, <1>3 DEF MembersCome
<1>5. worker[w].marker.parent = IF f = Work THEN Nothing ELSE Work
  BY <1>1 DEF Marks
<1> QED BY <1>1, <1>2, <1>3, <1>4, <1>5 DEF Listed

LEMMA AttachMember ==
    ASSUME TypeInv, Inv, NEW w \in Workers, AttachToParent(w), MembersCome(w)
    PROVE  MembersCome(w)'
<1>0. PICK f : f = worker[w].marker.of
  OBVIOUS
<1> DEFINE d == worker[w]
           next == IF f = Work THEN "members" ELSE "finish"
<1>1. d.pc = "attach"
  BY DEF AttachToParent
<1>2. /\ Work \in exists /\ Work # Nothing /\ f \in exists
      /\ d.marker.parent = IF f = Work THEN Nothing ELSE Work
      /\ f # Work => f \in FileSets /\ Listed(f)
  BY <1>0, <1>1, Coming
<1>3. /\ UNCHANGED <<exists, members, token, jobs, object, cloud, stored, markers, wanted, untimely, failed>>
      /\ Goes(w, next)
  BY <1>0, <1>2 DEF AttachToParent, database, aside
<1>4. next \in {"members", "finish"}
  OBVIOUS
<1>5. /\ \A v \in Workers \ {w} : worker'[v] = worker[v]
      /\ worker'[w].pc = next /\ worker'[w].marker = d.marker /\ worker'[w].outer = d.outer
      /\ worker'[w].ids = d.ids
  BY <1>3, <1>4, Went DEF Inv, Restoring
<1>6. OthersIdle(w) /\ JobsAre(Upkeeping) /\ Marks({f, Work}) /\ Upkeep({f})
  BY <1>0, <1>1 DEF MembersCome
<1>7. OthersIdle(w)' /\ JobsAre(Upkeeping)' /\ Marks({f, Work})'
  BY <1>3, <1>5, <1>6, SameMarks DEF OthersIdle, JobsAre
<1>8. Upkeep(IF next = "finish" THEN {f} ELSE {})'
  <2>1. \A i \in jobs' : i.kind # "cleanupPreservation"
    BY <1>3, <1>6 DEF JobsAre, Upkeeping
  <2>2. CASE f # Work
    <3>1. Upkeep({f})'
      BY <1>3, <1>6, <2>1, UpkeepMore
    <3> QED BY <2>2, <3>1
  <2>3. CASE f = Work
    <3>1. Work \notin FileSets
      BY DeletionAssumption
    <3>2. Upkeep({})'
      BY <1>3, <1>6, <2>1, <2>3, <3>1, UpkeepMore
    <3> QED BY <2>3, <3>2
  <2> QED BY <2>2, <2>3
<1>9. /\ \/ next = "members" /\ f = Work /\ d.outer = Nothing
         \/ next = "finish" /\ f \in FileSets /\ d.outer # Nothing /\ d.outer.of = Work /\ d.outer \in markers
      /\ d.marker \in markers
  BY <1>0, <1>1, <1>2, DeletionAssumption DEF MembersCome
<1>10. /\ \/ worker'[w].pc \in {"attach", "members"} /\ f = Work /\ worker'[w].outer = Nothing
          \/ /\ worker'[w].pc \in {"import", "attach", "finish"} /\ f \in FileSets
             /\ worker'[w].outer # Nothing /\ worker'[w].outer.of = Work /\ worker'[w].outer \in markers'
       /\ worker'[w].marker \in markers' /\ worker'[w].pc # "import" /\ worker'[w].marker.of = f
  BY <1>0, <1>3, <1>5, <1>9
<1>11. Upkeep(IF worker[w].pc \in {"attach", "finish"} THEN {f} ELSE {})'
  BY <1>5, <1>8, <1>9
<1> QED BY <1>0, <1>1, <1>3, <1>5, <1>7, <1>10, <1>11 DEF MembersCome

LEMMA AttachOnCourse ==
    ASSUME TypeInv, Inv, OnCourse, NEW w \in Workers, AttachToParent(w)
    PROVE  OnCourse'
<1>1. worker[w].pc = "attach" /\ UNCHANGED <<untimely, failed>>
  BY DEF AttachToParent, aside
<1>2. CASE untimely \/ failed # {}
  BY <1>1, <1>2 DEF OnCourse
<1>3. CASE ~untimely /\ failed = {}
  <2>1. Attaching(w) \/ MembersCome(w)
    BY <1>1, <1>3, RestoringPhase DEF Restoring
  <2> QED BY <1>1, <1>3, <2>1, AttachFileSet, AttachMember DEF OnCourse
<1> QED BY <1>2, <1>3

LEMMA HeadTail ==
    ASSUME NEW S, NEW s \in Seq(S), s # <<>>
    PROVE  /\ Head(s) \in S /\ Tail(s) \in Seq(S) /\ Head(s) = s[1]
           /\ Len(s) \in Nat \ {0} /\ Len(Tail(s)) = Len(s) - 1
           /\ \A i \in 1 .. Len(Tail(s)) : Tail(s)[i] = s[i + 1]
           /\ ToSet(s) = {Head(s)} \cup ToSet(Tail(s))
<1>1. /\ Head(s) \in S /\ Tail(s) \in Seq(S) /\ Head(s) = s[1]
      /\ Len(s) \in Nat \ {0} /\ Len(Tail(s)) = Len(s) - 1
      /\ \A i \in 1 .. Len(Tail(s)) : Tail(s)[i] = s[i + 1]
  OBVIOUS
<1>2. \A x \in ToSet(s) : x = Head(s) \/ x \in ToSet(Tail(s))
  <2> SUFFICES ASSUME NEW i \in 1 .. Len(s), i # 1 PROVE s[i] \in ToSet(Tail(s))
    BY <1>1 DEF ToSet
  <2>1. PICK k \in 1 .. Len(Tail(s)) : i = k + 1
    <3>1. i - 1 \in 1 .. Len(Tail(s)) /\ i = (i - 1) + 1
      BY <1>1
    <3> QED BY <3>1
  <2>2. s[i] = Tail(s)[k] /\ k \in 1 .. Len(Tail(s)) /\ Tail(s) \in Seq(S)
    BY <1>1, <2>1
  <2>3. PICK t \in Seq(S) : t = Tail(s)
    BY <2>2
  <2>4. k \in 1 .. Len(t) /\ s[i] = t[k]
    BY <2>2, <2>3
  <2>5. t[k] \in ToSet(t)
    BY <2>4 DEF ToSet
  <2> QED BY <2>3, <2>4, <2>5
<1>3. \A x \in ToSet(Tail(s)) : x \in ToSet(s)
  <2> SUFFICES ASSUME NEW i \in 1 .. Len(Tail(s)) PROVE s[i + 1] \in ToSet(s)
    BY <1>1 DEF ToSet
  <2>1. i + 1 \in 1 .. Len(s)
    BY <1>1
  <2> QED BY <1>1, <2>1 DEF ToSet
<1>4. Head(s) \in ToSet(s)
  BY <1>1 DEF ToSet
<1> QED BY <1>1, <1>2, <1>3, <1>4

LEMMA RestoreMemberOnCourse ==
    ASSUME TypeInv, Inv, OnCourse, NEW w \in Workers, RestoreMember(w)
    PROVE  OnCourse'
<1> DEFINE d == worker[w]
           n == Len(members) - Len(worker[w].ids)
<1>1. /\ d.pc = "members" /\ d.ids # <<>>
      /\ UNCHANGED <<exists, members, token, jobs, object, cloud, stored, markers, wanted, untimely, failed>>
  BY DEF RestoreMember, database, aside
<1>2. CASE untimely \/ failed # {}
  BY <1>1, <1>2 DEF OnCourse
<1>3. CASE ~untimely /\ failed = {}
  <2>1. MembersCome(w)
    BY <1>1, <1>3, RestoringPhase DEF Restoring
  <2>2. /\ OthersIdle(w) /\ JobsAre(Upkeeping) /\ d.marker.of = Work /\ d.outer = Nothing /\ d.marker \in markers
        /\ Marks({Work, Work}) /\ Upkeep({}) /\ n >= 0
        /\ \A i \in 1 .. Len(d.ids) : d.ids[i] = members[n + i]
        /\ \A k \in 1 .. n : members[k] \in exists
        /\ wanted = exists \cup ToSet(d.ids) /\ ToSet(members) = wanted \cap FileSets
    BY <1>1, <2>1 DEF MembersCome
  <2>3. Work \notin FileSets /\ Work # Nothing /\ members \in Seq(FileSets) /\ d.ids \in Seq(FileSets)
    BY <1>1, <2>1, Coming, DeletionAssumption
  <2>4. PICK rest \in Seq(FileSets) : rest = Tail(d.ids)
    BY <1>1, <2>3, HeadTail
  <2>5. PICK h \in FileSets : h = Head(d.ids)
    BY <1>1, <2>3, HeadTail
  <2>6. n \in Nat /\ Len(d.ids) \in Nat /\ n + Len(d.ids) = Len(members) /\ Len(d.ids) > 0
    BY <1>1, <2>2, <2>3
  <2>7. /\ Len(rest) = Len(d.ids) - 1 /\ h = d.ids[1] /\ ToSet(d.ids) = {h} \cup ToSet(rest)
        /\ \A i \in 1 .. Len(rest) : rest[i] = d.ids[i + 1]
    BY <1>1, <2>3, <2>4, <2>5, HeadTail
  <2>8. h = members[n + 1] /\ h \in Resources /\ h # Work
    <3>1. 1 \in 1 .. Len(d.ids)
      BY <2>6
    <3> QED BY <2>2, <2>3, <2>7, <3>1 DEF Resources
  <2> HIDE DEF n
  <2>9. PICK o \in Nat : o = n + 1
    BY <2>6
  <2>10. o = n + 1 /\ o = Len(members) - Len(rest)
    <3>1. PICK l \in Nat : l = Len(d.ids)
      BY <2>6
    <3>2. Len(members) = n + l /\ Len(rest) = l - 1
      BY <2>6, <2>7, <3>1
    <3>3. PICK k \in Nat : k = n
      BY <2>6
    <3>4. (k + l) - (l - 1) = k + 1
      OBVIOUS
    <3> QED BY <2>9, <3>2, <3>3, <3>4
  <2>11. \A i \in 1 .. Len(rest) : rest[i] = members[o + i]
    <3>1. \A i \in 1 .. Len(rest) : i + 1 \in 1 .. Len(d.ids) /\ n + (i + 1) = o + i
      BY <2>4, <2>6, <2>7, <2>10
    <3> QED BY <2>2, <2>7, <3>1
  <2>12. d \in Run /\ d.ids \in Seq(FileSets)
    BY RunOf
  <2> DEFINE next == [d EXCEPT !.ids = Tail(@)]
             into(m) == [next EXCEPT !.pc = "import", !.marker = m, !.outer = d.marker]
  <2>13. IsRun(next) /\ next.pc = "members" /\ next.marker = d.marker /\ next.outer = d.outer /\ next.ids = rest
    BY <1>1, <2>4, <2>12 DEF IsRun, Fields, Run
  <2>14. \A m : IsRun(into(m)) /\ into(m).pc = "import" /\ into(m).marker = m /\ into(m).outer = d.marker
                               /\ into(m).ids = rest
    BY <2>13 DEF IsRun, Fields
  <2>15. \/ \E m \in markers : m.of = h /\ m.kept /\ worker' = [worker EXCEPT ![w] = into(m)]
         \/ /\ worker' = [worker EXCEPT ![w] = next]
            /\ (\A m \in markers : m.of # h) \/ \E m \in markers : ~m.kept
    BY <2>5 DEF RestoreMember
  <2> HIDE DEF next, into, d
  <2>16. JobsAre(Upkeeping)' /\ \A i \in jobs' : i.kind # "cleanupPreservation"
    BY <1>1, <2>2 DEF JobsAre, Upkeeping
  <2>17. Upkeep({})'
    BY <1>1, <2>2, <2>16, UpkeepMore
  <2>18. ASSUME NEW m \in markers, m.of = h, worker' = [worker EXCEPT ![w] = into(m)]
         PROVE  MembersCome(w)'
    <3>1. /\ \A v \in Workers \ {w} : worker'[v] = worker[v]
          /\ worker'[w] = into(m)
      BY <2>14, <2>18, Became DEF Inv, Restoring
    <3>2. /\ worker'[w].pc = "import" /\ worker'[w].marker = m /\ worker'[w].outer = d.marker
          /\ worker'[w].ids = rest /\ worker'[w].marker.of = h
      BY <2>14, <2>18, <3>1
    <3>3. h \notin exists /\ d.marker # Nothing
      <4>1. d.marker # Nothing
        BY <2>2, <2>3, ProperMarker DEF TypeInv
      <4> QED BY <2>2, <2>8, <2>18, <4>1 DEF Marks
    <3>4. Marks({h, Work})'
      BY <1>1, <2>2, <3>3, MarksAs
    <3>5. OthersIdle(w)'
      BY <2>2, <3>1 DEF OthersIdle
    <3>6. o = Len(members') - Len(worker'[w].ids) /\ o >= 0 /\ o > 0 /\ members'[o] = h
      BY <1>1, <2>6, <2>8, <2>10, <3>2
    <3>7. \A k \in 1 .. o - 1 : members'[k] \in exists'
      BY <1>1, <2>2, <2>6, <2>10
    <3>8. wanted' = exists' \cup ToSet(rest) \cup {h} /\ ToSet(members') = wanted' \cap FileSets
      BY <1>1, <2>2, <2>7
    <3>9. h \notin exists' /\ d.marker \in markers' /\ m \in markers'
      BY <1>1, <2>2, <2>18, <3>3
    <3> QED BY <2>2, <2>11, <2>16, <2>17, <3>2, <3>3, <3>4, <3>5, <3>6, <3>7, <3>8, <3>9, <1>1 DEF MembersCome
  <2>19. ASSUME (\A m \in markers : m.of # h) \/ \E m \in markers : ~m.kept,
                worker' = [worker EXCEPT ![w] = next]
         PROVE  MembersCome(w)'
    <3>1. /\ \A v \in Workers \ {w} : worker'[v] = worker[v]
          /\ worker'[w] = next
      BY <2>13, <2>19, Became DEF Inv, Restoring
    <3>2. /\ worker'[w].pc = "members" /\ worker'[w].marker = d.marker /\ worker'[w].outer = d.outer
          /\ worker'[w].ids = rest /\ worker'[w].marker.of = Work
      BY <2>2, <2>13, <3>1
    <3>3. h \in exists
      BY <2>2, <2>8, <2>19 DEF Marks
    <3>4. Marks({Work, Work})'
      BY <1>1, <2>2, SameMarks
    <3>5. OthersIdle(w)'
      BY <2>2, <3>1 DEF OthersIdle
    <3>6. o = Len(members') - Len(worker'[w].ids) /\ o >= 0
      BY <1>1, <2>6, <2>10, <3>2
    <3>7. \A k \in 1 .. o : members'[k] \in exists'
      <4>1. \A k \in 1 .. o : k \in 1 .. n \/ k = n + 1
        BY <2>6, <2>10
      <4> QED BY <1>1, <2>2, <2>8, <3>3, <4>1
    <3>8. wanted' = exists' \cup ToSet(rest) /\ ToSet(members') = wanted' \cap FileSets
      BY <1>1, <2>2, <2>7, <3>3
    <3>9. Work \in exists' /\ d.marker \in markers'
      BY <1>1, <2>2 DEF Upkeep
    <3> QED BY <2>2, <2>11, <2>16, <2>17, <3>2, <3>4, <3>5, <3>6, <3>7, <3>8, <3>9, <1>1 DEF MembersCome
  <2> QED BY <2>15, <2>18, <2>19 DEF OnCourse
<1> QED BY <1>2, <1>3
LEMMA FinishListing ==
    ASSUME TypeInv, Inv, ~untimely, NEW w \in Workers, Finish(w), Listing(w)
    PROVE  Settled'
<1>0. PICK f : f = worker[w].marker.of
  OBVIOUS
<1> DEFINE d == worker[w]
<1>1. /\ OthersIdle(w) /\ JobsAre(Upkeeping) /\ Marks({f}) /\ Upkeep({f})
      /\ d.pc = "finish" /\ d.outer = Nothing /\ d.marker \in markers
      /\ f \in FileSets /\ wanted = exists /\ ListsMembers
  BY <1>0 DEF Listing
<1>2. /\ UNCHANGED <<exists, members, token, object, cloud, stored, wanted>>
      /\ jobs' = jobs \cup Queued("characterize", {f}) /\ markers' = markers \ {d.marker}
      /\ worker' = [worker EXCEPT ![w] = Idle]
  BY <1>0, <1>1 DEF Finish, database, aside
<1>3. f \in exists
  BY <1>0, <1>1 DEF Inv, Phases, Here, Does, Restoring
<1>4. \A v \in Workers : worker'[v].pc = "idle"
  BY <1>1, <1>2, Rested, IdleRun DEF Inv, Rests, OthersIdle
<1>5. Marks({})'
  BY <1>0, <1>1, <1>2, <1>3, MarksLess
<1>6. CharacterizeOf(f) \in jobs'
  BY <1>2, QueuedAre DEF CharacterizeOf
<1>7. \A j \in jobs' : j.kind \in Upkeeping
  BY <1>1, <1>2, QueuedKind DEF JobsAre, Upkeeping
<1>8. Upkeep({})'
  <2>1. /\ \A i \in jobs' : i.kind # "cleanupPreservation"
        /\ \A g \in exists \cap FileSets : g \in {f} => g \in {} \/ CharacterizeOf(g) \in jobs'
        /\ \A g \in exists' \cap FileSets : g \in exists
        /\ exists \subseteq exists' /\ jobs \subseteq jobs'
    BY <1>2, <1>6, <1>7 DEF Upkeeping
  <2> QED BY <1>1, <1>2, <2>1, UpkeepMore
<1> QED BY <1>1, <1>2, <1>4, <1>5, <1>7, <1>8 DEF Settled, JobsAre, ListsMembers

LEMMA FinishMember ==
    ASSUME TypeInv, Inv, NEW w \in Workers, Finish(w), MembersCome(w), worker[w].pc = "finish"
    PROVE  MembersCome(w)'
<1>0. PICK f : f = worker[w].marker.of
  OBVIOUS
<1> DEFINE d == worker[w]
           back == [d EXCEPT !.pc = "members", !.marker = d.outer, !.outer = Nothing]
<1>1. /\ OthersIdle(w) /\ JobsAre(Upkeeping) /\ f \in FileSets
      /\ d.outer # Nothing /\ d.outer.of = Work /\ d.outer \in markers /\ d.marker \in markers
      /\ Marks({f, Work}) /\ Upkeep({f}) /\ f \in exists
  BY <1>0 DEF MembersCome
<1>2. /\ UNCHANGED <<exists, members, token, object, cloud, stored, wanted>>
      /\ jobs' = jobs \cup Queued("characterize", {f}) /\ markers' = markers \ {d.marker}
      /\ worker' = [worker EXCEPT ![w] = back]
  BY <1>0, <1>1 DEF Finish, database, aside
<1>3. /\ IsRun(back) /\ back.pc = "members" /\ back.marker = d.outer /\ back.outer = Nothing
      /\ back.ids = d.ids
  BY DEF Inv, Shape, IsRun, Fields
<1> HIDE DEF back
<1>4. /\ \A v \in Workers \ {w} : worker'[v] = worker[v]
      /\ worker'[w] = back
  BY <1>2, <1>3, Became DEF Inv, Restoring
<1>5. /\ worker'[w].pc = "members" /\ worker'[w].marker = d.outer /\ worker'[w].outer = Nothing
      /\ worker'[w].ids = d.ids /\ worker'[w].marker.of = Work
  BY <1>1, <1>3, <1>4
<1>6. f # Work /\ d.outer \in markers'
  BY <1>0, <1>1, <1>2, DeletionAssumption
<1>7. Marks({Work, Work})'
  BY <1>0, <1>1, <1>2, <1>6, MarksLess
<1>8. CharacterizeOf(f) \in jobs'
  BY <1>2, QueuedAre DEF CharacterizeOf
<1>9. \A j \in jobs' : j.kind \in Upkeeping
  BY <1>1, <1>2, QueuedKind DEF JobsAre, Upkeeping
<1>10. Upkeep({})'
  <2>1. /\ \A i \in jobs' : i.kind # "cleanupPreservation"
        /\ \A g \in exists \cap FileSets : g \in {f} => g \in {} \/ CharacterizeOf(g) \in jobs'
        /\ \A g \in exists' \cap FileSets : g \in exists
        /\ exists \subseteq exists' /\ jobs \subseteq jobs'
    BY <1>2, <1>8, <1>9 DEF Upkeeping
  <2> QED BY <1>1, <1>2, <2>1, UpkeepMore
<1>11. OthersIdle(w)' /\ JobsAre(Upkeeping)' /\ Work \in exists'
  BY <1>1, <1>2, <1>4, <1>9 DEF OthersIdle, JobsAre, Upkeep
<1>12. LET n == Len(members) - Len(d.ids)
       IN  /\ n >= 0 /\ \A i \in 1 .. Len(d.ids) : d.ids[i] = members[n + i]
           /\ \A k \in 1 .. n : members[k] \in exists
           /\ wanted = exists \cup ToSet(d.ids)
           /\ ToSet(members) = wanted \cap FileSets
  BY DEF MembersCome
<1> HIDE DEF d
<1> QED BY <1>2, <1>5, <1>6, <1>7, <1>10, <1>11, <1>12 DEF MembersCome

LEMMA FinishWork ==
    ASSUME TypeInv, Inv, NEW w \in Workers, Finish(w), MembersCome(w), worker[w].pc # "finish"
    PROVE  Settled'
<1> DEFINE d == worker[w]
<1>1. /\ OthersIdle(w) /\ JobsAre(Upkeeping) /\ d.marker.of = Work /\ d.outer = Nothing
      /\ d.marker \in markers /\ Marks({Work, Work}) /\ Upkeep({})
      /\ d.ids = <<>> /\ wanted = exists \cup ToSet(d.ids) /\ ToSet(members) = wanted \cap FileSets
  BY DEF Finish, MembersCome
<1>2. /\ UNCHANGED <<exists, members, token, object, cloud, stored, wanted>>
      /\ jobs' = jobs \cup Queued("characterize", {Work} \cap FileSets) /\ markers' = markers \ {d.marker}
      /\ worker' = [worker EXCEPT ![w] = Idle]
  BY <1>1 DEF Finish, database, aside
<1>3. jobs' = jobs
  <2>1. Queued("characterize", {Work} \cap FileSets) = {}
    BY DeletionAssumption DEF Queued
  <2> QED BY <1>2, <2>1
<1>4. Work \in exists /\ Work \notin FileSets
  BY <1>1, DeletionAssumption DEF Upkeep
<1>5. \A v \in Workers : worker'[v].pc = "idle"
  BY <1>1, <1>2, Rested, IdleRun DEF Inv, Rests, OthersIdle
<1>6. Marks({})'
  BY <1>1, <1>2, <1>4, MarksLess
<1>7. Upkeep({})'
  <2>1. /\ \A i \in jobs' : i.kind # "cleanupPreservation"
        /\ \A g \in exists' \cap FileSets : g \in exists
        /\ exists \subseteq exists' /\ jobs \subseteq jobs'
    BY <1>1, <1>2, <1>3 DEF JobsAre, Upkeeping
  <2> QED BY <1>1, <1>2, <2>1, UpkeepMore
<1>8. exists = wanted /\ ListsMembers
  <2>1. ToSet(d.ids) = {}
    BY <1>1 DEF ToSet
  <2> QED BY <1>1, <2>1 DEF ListsMembers
<1> QED BY <1>1, <1>2, <1>3, <1>5, <1>6, <1>7, <1>8 DEF Settled, JobsAre, ListsMembers

LEMMA FinishOnCourse ==
    ASSUME TypeInv, Inv, OnCourse, NEW w \in Workers, Finish(w)
    PROVE  OnCourse'
<1>1. worker[w].pc \in {"finish", "members"} /\ UNCHANGED <<untimely, failed>>
  BY DEF Finish, aside
<1>2. CASE untimely \/ failed # {}
  BY <1>1, <1>2 DEF OnCourse
<1>3. CASE ~untimely /\ failed = {}
  <2>1. Listing(w) \/ MembersCome(w)
    BY <1>1, <1>3, RestoringPhase DEF Restoring
  <2> QED BY <1>3, <2>1, FinishListing, FinishMember, FinishWork DEF OnCourse
<1> QED BY <1>2, <1>3

-----------------------------------------------------------------------------
LEMMA InitOnCourse == Init => OnCourse
<1> SUFFICES ASSUME Init PROVE OnCourse
  OBVIOUS
<1>1. members \in Seq(FileSets) /\ ToSet(members) = FileSets
  BY DeletionAssumption, Arranged DEF Init
<1>2. ListsMembers /\ Work \in exists /\ exists = wanted
  BY <1>1 DEF Init, ListsMembers, Resources
<1>3. \A f \in exists \cap FileSets : Reached(f)
  BY <1>1, <1>2, ReachesAll DEF ListsMembers, Reached
<1>4. Upkeep({})
  BY <1>2, <1>3 DEF Init, Upkeep, InCloud, Resources
<1>5. Marks({})
  BY DEF Init, Marks
<1>6. \A w \in Workers : worker[w].pc = "idle"
  BY IdleRun DEF Init
<1> QED BY <1>2, <1>4, <1>5, <1>6 DEF OnCourse, Settled, JobsAre, Init

LEMMA NextOnCourse == TypeInv /\ Inv /\ OnCourse /\ [Next]_vars => OnCourse'
<1> SUFFICES ASSUME TypeInv, Inv, OnCourse, [Next]_vars PROVE OnCourse'
  OBVIOUS
<1>1. ASSUME NEW w \in Workers,
             \/ \E r \in Resources : Destroy(w, r)
             \/ \E f \in FileSets : DeleteMember(w, f)
             \/ Commit(w) \/ RollBack(w)
             \/ CleanupStructure(w) \/ CleanupMembership(w) \/ DeleteReferenced(w) \/ DeleteRow(w)
      PROVE  OnCourse'
  <2>1. RollBack(w) => OnCourse'
    BY FailureEnds DEF RollBack
  <2> QED BY <1>1, <2>1, DestroyOnCourse, CommitOnCourse, DeleteMemberOnCourse, CleanupOnCourse,
             DeleteReferencedOnCourse, DeleteRowOnCourse
<1>2. ASSUME NEW w \in Workers,
             \/ TakeRestore(w) \/ Import(w) \/ ImportStale(w) \/ AttachToParent(w) \/ ParentGone(w)
             \/ RestoreMember(w) \/ Finish(w) \/ FailJob(w)
      PROVE  OnCourse'
  <2>1. FailJob(w) => OnCourse'
    BY FailureEnds DEF FailJob
  <2> QED BY <1>2, <2>1, TakeRestoreOnCourse, ImportOnCourse, StopsOnCourse, AttachOnCourse,
             RestoreMemberOnCourse, FinishOnCourse
<1>3. ASSUME NEW m \in markers, Restore(m) \/ Reinstate(m) PROVE OnCourse'
  BY <1>3, RestoreOnCourse, ReinstateOnCourse
<1>4. ASSUME NEW j \in jobs,
             \/ RunCleanupFiles(j) \/ RunCleanupPreservation(j)
             \/ PreserveResource(j) \/ PreserveChildren(j) \/ Characterize(j)
      PROVE  OnCourse'
  BY <1>4, HandlersOnCourse
<1>5. CASE UNCHANGED vars
  <2>1. /\ UNCHANGED <<exists, members, token, object, cloud, stored, markers, jobs, worker, wanted>>
        /\ UNCHANGED <<untimely, failed>>
    BY <1>5 DEF vars, database, aside
  <2>2. \A half : Marks(half) => Marks(half)'
    BY <2>1, SameMarks
  <2>3. \A busy : Upkeep(busy) => Upkeep(busy)'
    BY <2>1 DEF Upkeep, InCloud, Reached, Tended
  <2>4. Resting => Resting'
    BY <2>1, <2>2 DEF Resting, InCloud, ListsMembers
  <2>5. Settled => Settled'
    BY <2>1, <2>2, <2>3 DEF Settled, JobsAre, ListsMembers
  <2>6. MembersGo => MembersGo'
    BY <2>1, <2>2 DEF MembersGo, JobsAre, InCloud, Deletes, Going
  <2>7. RestoreAsked => RestoreAsked'
    BY <2>1, <2>4 DEF RestoreAsked, WithMembers
  <2>8. ASSUME NEW w \in Workers
        PROVE  /\ RequestDeletes(w) => RequestDeletes(w)'
               /\ Importing(w) => Importing(w)'
               /\ Attaching(w) => Attaching(w)'
    BY <2>1, <2>2, <2>4 DEF RequestDeletes, Importing, Attaching, OthersIdle, JobsAre, WithMembers, InCloud
  <2>9. ASSUME NEW w \in Workers
        PROVE  /\ Listing(w) => Listing(w)'
               /\ MembersCome(w) => MembersCome(w)'
    BY <2>1, <2>2, <2>3 DEF Listing, MembersCome, OthersIdle, JobsAre, ListsMembers
  <2> QED BY <2>1, <2>5, <2>6, <2>7, <2>8, <2>9 DEF OnCourse
<1> QED BY <1>1, <1>2, <1>3, <1>4, <1>5 DEF Next

LEMMA AlwaysOnCourse == Spec => [](TypeInv /\ OnCourse)
<1>1. Init => TypeInv /\ Inv /\ OnCourse
  BY InitTypes, InitInv, InitOnCourse
<1>2. (TypeInv /\ Inv /\ OnCourse) /\ [Next]_vars => (TypeInv /\ Inv /\ OnCourse)'
  BY NextTypes, NextInv, NextOnCourse
<1> QED BY <1>1, <1>2, PTL DEF Spec

\* When each request came in time and nothing failed, then once all jobs are done there
\* are exactly the resources that users asked for, and the work lists its members: no
\* DeleteMemberJob and no RestoreFromDeletionMarkerJob leaves a member behind.
THEOREM AsAsked == Spec => []DoneAsAsked
BY AlwaysOnCourse, CourseEnds, PTL

\* Under the same conditions everything that is there is preserved again: each import
\* and each save of the work leads to a PreserveResourceJob that is not stale.
THEOREM AllPreserved == Spec => []PreservedAgain
BY AlwaysOnCourse, CourseEnds, PTL
=============================================================================
