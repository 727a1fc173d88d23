------------------------- MODULE PreservationProofs -------------------------
(***************************************************************************)
(* What holds of Preservation for every set of file sets, parents and      *)
(* threads, and any number of saves, moves, take-downs and errors: its     *)
(* types, that first preservations of one resource do not overlap, that no *)
(* thread's save drops the record of a preserved binary, and that a        *)
(* current record of a characterized file set names its binary.  What two  *)
(* overlapping jobs of one resource can break is shown under the premise   *)
(* that those of that resource do not overlap: that none of its files is   *)
(* left behind in the cloud, and that the last version of the work is      *)
(* kept.                                                                   *)
(***************************************************************************)
EXTENDS Preservation, TLAPS

-----------------------------------------------------------------------------
(***************************************************************************)
(* Types                                                                   *)
(***************************************************************************)
\* A run that is about to reorganize has left a place.
LeftKnown == \A w \in Workers : worker[w].pc = "moved" => worker[w].left # NoPlace

Typed == TypeOK /\ LeftKnown

LEMMA JobTypes ==
    /\ \A r \in Resources, t \in Nat, by \in {"save", "parent"} : Preserve(r, t, by) \in Jobs
    /\ \A u \in BOOLEAN : PreserveChildren(u) \in Jobs
    /\ \A r \in Resources, p \in Places, k \in {"metadata", "binary"} :
         Cleanup(r, p, k) \in Jobs /\ KeyOf(r, p, k) \in Key
    /\ \A f \in FileSets : Characterization(f) \in Jobs /\ Derivatives(f) \in Jobs
<1>1. \A r \in Resources, t \in Nat, by \in {"save", "parent"} : Preserve(r, t, by) \in Jobs
  BY DEF Preserve, PreserveResourceJob, Jobs
<1>2. \A u \in BOOLEAN : PreserveChildren(u) \in Jobs
  BY DEF PreserveChildren, PreserveChildrenJob, Jobs
<1>3. \A r \in Resources, p \in Places, k \in {"metadata", "binary"} : KeyOf(r, p, k) \in Key
  BY DEF KeyOf, Key
<1>4. \A r \in Resources, p \in Places, k \in {"metadata", "binary"} : Cleanup(r, p, k) \in Jobs
  BY <1>3 DEF Cleanup, CleanupFilesJob, Jobs
<1>5. \A f \in FileSets : Characterization(f) \in Jobs /\ Derivatives(f) \in Jobs
  BY DEF Characterization, Derivatives, FileSetJob, Jobs
<1> QED BY <1>1, <1>2, <1>3, <1>4, <1>5

LEMMA SaveJobTypes ==
    ASSUME NEW t \in Nat, NEW c, NEW p, NEW f \in FileSets
    PROVE  WorkJobs(t, c, p) \subseteq Jobs /\ FileSetJobs(f, t) \subseteq Jobs
<1>1. Work \in Resources /\ f \in Resources
  BY DEF Resources
<1> QED BY <1>1, JobTypes DEF WorkJobs, FileSetJobs

LEMMA IdleType == Idle \in Run
BY DEF Idle, Run, Steps, Resources, NewPreservationObject, PreservationObject

LEMMA GoesType ==
    ASSUME TypeOK, NEW w \in Workers, NEW run \in Run, Goes(w, run)
    PROVE  worker' \in [Workers -> Run]
BY DEF TypeOK, Goes

LEMMA RunFields ==
    ASSUME TypeOK, NEW w \in Workers
    PROVE  /\ worker[w] \in Run /\ worker[w].id \in Resources /\ worker[w].token \in Nat
           /\ worker[w].by \in {"save", "parent"}
           /\ worker[w].object \in PreservationObject
           /\ worker[w].object.metadata \in Places \cup {NoPlace}
           /\ worker[w].object.binary \in Places \cup {NoPlace}
           /\ place \in Places
<1>1. worker[w] \in Run
  BY DEF TypeOK
<1>2. worker[w].id \in Resources /\ worker[w].token \in Nat /\ worker[w].by \in {"save", "parent"}
      /\ worker[w].object \in PreservationObject
  BY <1>1 DEF Run
<1>3. worker[w].object.metadata \in Places \cup {NoPlace}
      /\ worker[w].object.binary \in Places \cup {NoPlace}
  BY <1>2 DEF PreservationObject
<1> QED BY <1>1, <1>2, <1>3 DEF TypeOK

\* What may become of a run.
LEMMA RunEdits ==
    ASSUME NEW run \in Run, NEW object \in PreservationObject, NEW pc \in Steps,
           NEW left \in Places \cup {NoPlace}
    PROVE  /\ [run EXCEPT !.pc = pc] \in Run
           /\ [run EXCEPT !.pc = pc, !.created = TRUE] \in Run
           /\ [run EXCEPT !.pc = pc, !.object = object] \in Run
           /\ [run EXCEPT !.pc = pc, !.left = left, !.object = object] \in Run
BY DEF Run

LEMMA ObjectEdits ==
    ASSUME NEW object \in PreservationObject, NEW p \in Places \cup {NoPlace}, NEW t \in Nat
    PROVE  /\ [object EXCEPT !.binary = p] \in PreservationObject
           /\ [object EXCEPT !.metadata = p] \in PreservationObject
           /\ Recorded(object, t) \in PreservationObject
<1>1. object.lock \in Nat
  BY DEF PreservationObject
<1> DEFINE n == object.lock + 1
<1>2. n \in Nat
  BY <1>1
<1>3. Recorded(object, t) = [object EXCEPT !.version = t, !.lock = n]
  BY DEF Recorded
<1> HIDE DEF n
<1>4. [object EXCEPT !.version = t, !.lock = n] \in PreservationObject
  BY <1>2 DEF PreservationObject
<1> QED BY <1>3, <1>4 DEF PreservationObject

LEMMA RetryType ==
    ASSUME TypeOK, NEW w \in Workers, Retry(w)
    PROVE  worker' \in [Workers -> Run] /\ queue' \subseteq Jobs
<1>1. Preserve(worker[w].id, worker[w].token, worker[w].by) \in Jobs
  BY RunFields, JobTypes
<1>2. worker' \in [Workers -> Run]
  BY IdleType, GoesType DEF Retry
<1> QED BY <1>1, <1>2 DEF Retry, TypeOK

LEMMA SpendType ==
    ASSUME TypeOK, NEW b \in {"saves", "moves", "takedowns", "errors"}, NEW limit, Spend(b, limit)
    PROVE  spent' \in [{"saves", "moves", "takedowns", "errors"} -> Nat]
BY DEF TypeOK, Spend

\* The types of what a step of a run changes.
LEMMA LoadedType ==
    ASSUME TypeOK, NEW j \in PreserveResourceJob
    PROVE  Loaded(j) \in Run
<1>1. j.id \in Resources /\ j.token \in Nat /\ j.by \in {"save", "parent"}
  BY DEF PreserveResourceJob
<1> DEFINE known == j.id # Work /\ checksum[j.id]
           members == IF j.id = Work THEN Members ELSE {}
<1>2. known \in BOOLEAN /\ members \in SUBSET FileSets
  BY DEF Members
<1>3. Loaded(j) = [Idle EXCEPT !.pc = "loaded", !.id = j.id, !.token = j.token,
                       !.by = j.by, !.complete = complete, !.checksum = known,
                       !.members = members]
  BY DEF Loaded
<1> HIDE DEF known, members
<1> QED BY <1>1, <1>2, <1>3, IdleType DEF Run, Steps, TypeOK

LEMMA LoadType ==
    ASSUME TypeOK, NEW w \in Workers, NEW j \in queue, Load(w, j)
    PROVE  worker' \in [Workers -> Run] /\ queue' \subseteq Jobs
<1>1. CASE token[j.id] # j.token
  BY <1>1 DEF Load, TypeOK
<1>2. CASE token[j.id] = j.token
  BY <1>2, LoadedType, GoesType DEF Load, TypeOK
<1> QED BY <1>1, <1>2

LEMMA BeginType ==
    ASSUME TypeOK, NEW w \in Workers, Begin(w)
    PROVE  worker' \in [Workers -> Run]
<1> DEFINE run == worker[w]
           found == preservation[run.id]
<1>1. found \in PreservationObject \cup {NoObject}
  BY RunFields DEF TypeOK
<1>2. AfterObject(run.id) \in Steps /\ "creating" \in Steps
  BY DEF AfterObject, Steps
<1>3. [run EXCEPT !.pc = "creating"] \in Run
  BY <1>2, RunFields, RunEdits
<1>4. found # NoObject => [run EXCEPT !.pc = AfterObject(run.id), !.object = found] \in Run
  BY <1>1, <1>2, RunFields, RunEdits
<1>5. \/ Goes(w, Idle)
      \/ Goes(w, [run EXCEPT !.pc = "creating"])
      \/ found # NoObject /\ Goes(w, [run EXCEPT !.pc = AfterObject(run.id), !.object = found])
  BY DEF Begin
<1> HIDE DEF run, found
<1> QED BY <1>3, <1>4, <1>5, IdleType, GoesType

LEMMA CreateType ==
    ASSUME TypeOK, NEW w \in Workers, CreateObject(w)
    PROVE  worker' \in [Workers -> Run] /\ queue' \subseteq Jobs
<1>1. AfterObject(worker[w].id) \in Steps
  BY DEF AfterObject, Steps
<1>2. [worker[w] EXCEPT !.pc = AfterObject(worker[w].id), !.created = TRUE] \in Run
  BY <1>1, RunFields, RunEdits
<1>3. CASE preservation[worker[w].id] # NoObject
  BY <1>3, RetryType DEF CreateObject
<1>4. CASE preservation[worker[w].id] = NoObject
  BY <1>2, <1>4, GoesType DEF CreateObject, TypeOK
<1> QED BY <1>3, <1>4

LEMMA BinaryType ==
    ASSUME TypeOK, NEW w \in Workers, PreserveBinary(w)
    PROVE  worker' \in [Workers -> Run] /\ cloud' \in [Key -> Nat]
<1> DEFINE p == IF worker[w].checksum /\ worker[w].object.binary = NoPlace
                  THEN place ELSE worker[w].object.binary
           run == [worker[w] EXCEPT !.pc = "metadata",
                      !.object = [worker[w].object EXCEPT !.binary = p]]
<1>1. p \in Places \cup {NoPlace}
  BY RunFields
<1>2. Goes(w, run)
  BY DEF PreserveBinary
<1> HIDE DEF p
<1>3. run \in Run
  BY <1>1, RunFields, ObjectEdits, RunEdits DEF Steps
<1>4. KeyOf(worker[w].id, place, "binary") \in Key
  BY RunFields, JobTypes
<1>5. cloud' = cloud \/ cloud' = [cloud EXCEPT ![KeyOf(worker[w].id, place, "binary")] = 1]
  BY DEF PreserveBinary
<1> HIDE DEF run
<1>6. worker' \in [Workers -> Run]
  BY <1>2, <1>3, GoesType
<1> QED BY <1>4, <1>5, <1>6 DEF TypeOK

LEMMA MetadataType ==
    ASSUME TypeOK, NEW w \in Workers, PreserveMetadata(w)
    PROVE  worker' \in [Workers -> Run] /\ cloud' \in [Key -> Nat]
<1> DEFINE moved == worker[w].object.metadata \notin {NoPlace, place}
           pc == IF moved THEN "moved" ELSE "saving"
           left == IF moved THEN worker[w].object.metadata ELSE NoPlace
           run == [worker[w] EXCEPT !.pc = pc, !.left = left,
                      !.object = [worker[w].object EXCEPT !.metadata = place]]
<1>1. pc \in Steps /\ left \in Places \cup {NoPlace}
  BY RunFields DEF Steps
<1>2. Goes(w, run)
  BY DEF PreserveMetadata
<1> HIDE DEF pc, left
<1>3. run \in Run
  BY <1>1, RunFields, ObjectEdits, RunEdits
<1>4. KeyOf(worker[w].id, place, "metadata") \in Key
  BY RunFields, JobTypes
<1>5. cloud' = [cloud EXCEPT ![KeyOf(worker[w].id, place, "metadata")] = worker[w].token]
  BY DEF PreserveMetadata
<1> HIDE DEF run
<1>6. worker' \in [Workers -> Run]
  BY <1>2, <1>3, GoesType
<1> QED BY <1>4, <1>5, <1>6, RunFields DEF TypeOK

LEMMA ReorganizeType ==
    ASSUME Typed, NEW w \in Workers, Reorganize(w)
    PROVE  worker' \in [Workers -> Run] /\ cloud' \in [Key -> Nat] /\ queue' \subseteq Jobs
<1> DEFINE old == worker[w].object.binary
           p == IF worker[w].checksum THEN place ELSE old
           object == [worker[w].object EXCEPT !.binary = p]
           run == [worker[w] EXCEPT !.pc = "saving", !.object = object]
           oldKeys == {<<worker[w].left, "metadata">>}
                     \cup (IF worker[w].checksum /\ old \notin {NoPlace, place}
                             THEN {<<old, "binary">>} ELSE {})
<1> USE DEF Typed
<1>1. p \in Places \cup {NoPlace}
  BY RunFields
<1>2. Goes(w, [worker[w] EXCEPT !.pc = "saving", !.object = Moved(worker[w])])
  BY DEF Reorganize
<1>3. object = Moved(worker[w])
  BY DEF Moved
<1> HIDE DEF p
<1>31. object \in PreservationObject
  BY <1>1, RunFields, ObjectEdits
<1>32. [worker[w] EXCEPT !.pc = "saving", !.object = Moved(worker[w])] \in Run
  BY <1>3, <1>31, RunFields, RunEdits DEF Steps
<1>4. KeyOf(worker[w].id, place, "binary") \in Key
  BY RunFields, JobTypes
<1>5. cloud' = cloud \/ cloud' = [cloud EXCEPT ![KeyOf(worker[w].id, place, "binary")] = 1]
  BY DEF Reorganize
<1>6. worker[w].left \in Places
  BY RunFields DEF Reorganize, LeftKnown, Run
<1>7. \A k \in oldKeys : k[1] \in Places /\ k[2] \in {"metadata", "binary"}
  BY <1>6, RunFields
<1>8. queue' = queue \cup {Cleanup(worker[w].id, k[1], k[2]) : k \in oldKeys}
  BY DEF Reorganize
<1> HIDE DEF oldKeys, run
<1>9. \A k \in oldKeys : Cleanup(worker[w].id, k[1], k[2]) \in Jobs
  BY <1>7, RunFields, JobTypes
<1>10. worker' \in [Workers -> Run]
  BY <1>2, <1>32, GoesType
<1> QED BY <1>4, <1>5, <1>8, <1>9, <1>10 DEF TypeOK

LEMMA SavedType ==
    ASSUME TypeOK, NEW w \in Workers
    PROVE  SavedRun(worker[w]) \in Run
<1> DEFINE object == Recorded(worker[w].object, worker[w].token)
<1>1. object \in PreservationObject
  BY RunFields, ObjectEdits
<1>2. SavedRun(worker[w]) = [worker[w] EXCEPT !.pc = "committing", !.object = object]
  BY DEF SavedRun
<1>3. "committing" \in Steps
  BY DEF Steps
<1> HIDE DEF object
<1>4. [worker[w] EXCEPT !.pc = "committing", !.object = object] \in Run
  BY <1>1, <1>3, RunFields, RunEdits
<1> QED BY <1>2, <1>4

LEMMA SaveObjectType ==
    ASSUME TypeOK, NEW w \in Workers, SaveObject(w)
    PROVE  worker' \in [Workers -> Run] /\ queue' \subseteq Jobs
<1> DEFINE stale == ~worker[w].created
                      /\ preservation[worker[w].id].lock # worker[w].object.lock
<1>1. CASE stale
  BY <1>1, RetryType DEF SaveObject
<1>2. CASE ~stale
  <2>1. ChildrenJobs(worker[w]) \subseteq Jobs
    BY JobTypes DEF ChildrenJobs
  <2> QED BY <1>2, <2>1, SavedType, GoesType DEF SaveObject, TypeOK
<1> QED BY <1>1, <1>2

\* What the saves and the short jobs change.
LEMMA SavesType ==
    ASSUME TypeOK, Saves
    PROVE  TypeOK' /\ UNCHANGED worker
<1>1. Work \in Resources /\ FileSets \subseteq Resources
  BY DEF Resources
<1>2. CASE SaveWork
  <2>1. token'[Work] \in Nat
    BY <1>1, <1>2 DEF SaveWork, TypeOK
  <2>2. WorkJobs(token'[Work], complete', place) \subseteq Jobs
    BY <1>1, <2>1, JobTypes DEF WorkJobs
  <2>3. spent' \in [{"saves", "moves", "takedowns", "errors"} -> Nat]
    BY <1>2, SpendType DEF SaveWork
  <2>4. token' \in [Resources -> Nat]
    BY <1>1, <1>2, <2>1 DEF SaveWork, TypeOK
  <2>5. complete' \in BOOLEAN
    BY <1>2 DEF SaveWork, TypeOK
  <2>6. queue' \subseteq Jobs
    BY <1>2, <2>2 DEF SaveWork, TypeOK
  <2> QED BY <1>2, <2>3, <2>4, <2>5, <2>6 DEF SaveWork, TypeOK
<1>3. CASE TakeDown
  <2>1. token'[Work] \in Nat
    BY <1>1, <1>3 DEF TakeDown, TypeOK
  <2>2. WorkJobs(token'[Work], FALSE, place) \subseteq Jobs
    BY <1>1, <2>1, JobTypes DEF WorkJobs
  <2>3. spent' \in [{"saves", "moves", "takedowns", "errors"} -> Nat]
    BY <1>3, SpendType DEF TakeDown
  <2>4. token' \in [Resources -> Nat]
    BY <1>1, <1>3, <2>1 DEF TakeDown, TypeOK
  <2>5. complete' \in BOOLEAN
    BY <1>3 DEF TakeDown, TypeOK
  <2>6. queue' \subseteq Jobs
    BY <1>3, <2>2 DEF TakeDown, TypeOK
  <2> QED BY <1>3, <2>3, <2>4, <2>5, <2>6 DEF TakeDown, TypeOK
<1>4. ASSUME NEW p \in Parents, Move(p)  PROVE TypeOK' /\ UNCHANGED worker
  <2>1. token'[Work] \in Nat
    BY <1>1, <1>4 DEF Move, TypeOK
  <2>2. WorkJobs(token'[Work], complete, p) \subseteq Jobs
    BY <1>1, <2>1, JobTypes DEF WorkJobs
  <2>3. spent' \in [{"saves", "moves", "takedowns", "errors"} -> Nat]
    BY <1>4, SpendType DEF Move
  <2>4. p \in Places
    BY <1>4 DEF Places
  <2> QED BY <1>1, <1>4, <2>2, <2>3, <2>4 DEF Move, TypeOK
<1>5. ASSUME NEW f \in FileSets, AddFileSet(f)  PROVE TypeOK' /\ UNCHANGED worker
  <2>1. token'[Work] \in Nat
    BY <1>1, <1>5 DEF AddFileSet, TypeOK
  <2>2. WorkJobs(token'[Work], complete, place) \subseteq Jobs
    BY <1>1, <2>1, JobTypes DEF WorkJobs
  <2>3. FileSetJobs(f, 1) \subseteq Jobs
    BY <1>5, SaveJobTypes
  <2>4. Characterization(f) \in Jobs
    BY <1>5, JobTypes
  <2> QED BY <1>1, <1>5, <2>2, <2>3, <2>4 DEF AddFileSet, TypeOK
<1> QED BY <1>2, <1>3, <1>4, <1>5 DEF Saves

LEMMA ShortJobsType ==
    ASSUME TypeOK, ShortJobs
    PROVE  TypeOK' /\ UNCHANGED worker
<1>1. FileSets \subseteq Resources
  BY DEF Resources
<1>2. ASSUME NEW f \in FileSets, Characterize(f)  PROVE TypeOK' /\ UNCHANGED worker
  <2>1. Derivatives(f) \in Jobs
    BY <1>2, JobTypes
  <2> QED BY <1>1, <1>2, <2>1 DEF Characterize, TypeOK
<1>3. ASSUME NEW f \in FileSets, CreateDerivatives(f)  PROVE TypeOK' /\ UNCHANGED worker
  <2>1. token'[f] \in Nat
    BY <1>1, <1>3 DEF CreateDerivatives, TypeOK
  <2>2. FileSetJobs(f, token'[f]) \subseteq Jobs
    BY <2>1, <1>3, SaveJobTypes
  <2> QED BY <1>1, <1>3, <2>2 DEF CreateDerivatives, TypeOK
<1>4. ASSUME NEW u \in BOOLEAN, PreserveMembers(u)  PROVE TypeOK' /\ UNCHANGED worker
  <2> DEFINE ids == IF u THEN NeverPreserved(Members) ELSE Members
  <2>1. ids \subseteq FileSets
    BY DEF NeverPreserved, Members
  <2>2. queue' = (queue \ {PreserveChildren(u)}) \cup {Preserve(f, token[f], "parent") : f \in ids}
    BY <1>4 DEF PreserveMembers
  <2> HIDE DEF ids
  <2>3. \A f \in ids : Preserve(f, token[f], "parent") \in Jobs
    BY <1>1, <2>1, JobTypes DEF TypeOK
  <2> QED BY <1>4, <2>2, <2>3 DEF PreserveMembers, TypeOK
<1>5. ASSUME NEW k \in Key, CleanupFiles(k)  PROVE TypeOK' /\ UNCHANGED worker
  BY <1>5 DEF CleanupFiles, TypeOK
<1> QED BY <1>2, <1>3, <1>4, <1>5 DEF ShortJobs

LEMMA CommitType ==
    ASSUME TypeOK, NEW w \in Workers, Commit(w)
    PROVE  TypeOK'
<1>1. worker' \in [Workers -> Run]
  BY IdleType, GoesType DEF Commit
<1>2. preservation' \in [Resources -> PreservationObject \cup {NoObject}]
  BY RunFields DEF Commit, TypeOK
<1> QED BY <1>1, <1>2 DEF Commit, TypeOK

\* A run leaves PreserveMetadata for "moved" with the place it has left.
LEMMA LeftStep ==
    ASSUME Typed, NEW w \in Workers, NEW run, Goes(w, run),
           run.pc = "moved" => run.left # NoPlace
    PROVE  LeftKnown'
BY DEF Typed, TypeOK, LeftKnown, Goes

LEMMA IdleLeft == Idle.pc = "idle"
BY DEF Idle

LEMMA PreserverType ==
    ASSUME Typed, NEW w \in Workers, Preserver(w)
    PROVE  Typed'
<1> USE DEF Typed
<1>1. ASSUME NEW j \in queue, Load(w, j)  PROVE Typed'
  <2>1. TypeOK'
    BY <1>1, LoadType DEF Load, TypeOK
  <2>2. Loaded(j).pc = "loaded"
    BY DEF Loaded, Idle
  <2>3. LeftKnown'
    BY <1>1, <2>2, LeftStep DEF Load, LeftKnown
  <2> QED BY <2>1, <2>3
<1>2. CASE Begin(w)
  <2> DEFINE r1 == [worker[w] EXCEPT !.pc = "creating"]
             r2 == [worker[w] EXCEPT !.pc = AfterObject(worker[w].id),
                                     !.object = preservation[worker[w].id]]
  <2>1. TypeOK'
    BY <1>2, BeginType DEF Begin, TypeOK
  <2>2. r1.pc = "creating" /\ r2.pc # "moved"
    BY RunFields DEF AfterObject, Run
  <2>3. Goes(w, Idle) \/ Goes(w, r1) \/ Goes(w, r2)
    BY <1>2 DEF Begin
  <2> HIDE DEF r1, r2
  <2>4. LeftKnown'
    BY <2>2, <2>3, IdleLeft, LeftStep
  <2> QED BY <2>1, <2>4
<1>3. CASE CreateObject(w)
  <2> DEFINE r1 == [worker[w] EXCEPT !.pc = AfterObject(worker[w].id), !.created = TRUE]
  <2>1. TypeOK'
    BY <1>3, CreateType DEF CreateObject, TypeOK
  <2>2. r1.pc # "moved"
    BY RunFields DEF AfterObject, Run
  <2>3. Goes(w, Idle) \/ Goes(w, r1)
    BY <1>3 DEF CreateObject, Retry
  <2> HIDE DEF r1
  <2>4. LeftKnown'
    BY <2>2, <2>3, IdleLeft, LeftStep
  <2> QED BY <2>1, <2>4
<1>4. CASE PreserveBinary(w)
  <2> DEFINE r1(o) == [worker[w] EXCEPT !.pc = "metadata", !.object = o]
  <2>1. TypeOK'
    BY <1>4, BinaryType DEF PreserveBinary, TypeOK
  <2>2. \A o : r1(o).pc = "metadata"
    BY RunFields DEF Run
  <2>3. \E o : Goes(w, r1(o))
    BY <1>4 DEF PreserveBinary
  <2> HIDE DEF r1
  <2>4. LeftKnown'
    BY <2>2, <2>3, LeftStep
  <2> QED BY <2>1, <2>4
<1>5. CASE PreserveMetadata(w)
  <2> DEFINE moved == worker[w].object.metadata \notin {NoPlace, place}
             o == [worker[w].object EXCEPT !.metadata = place]
             r1 == [worker[w] EXCEPT !.pc = IF moved THEN "moved" ELSE "saving",
                        !.left = IF moved THEN worker[w].object.metadata ELSE NoPlace,
                        !.object = o]
  <2>1. TypeOK'
    BY <1>5, MetadataType DEF PreserveMetadata, TypeOK
  <2>2. r1.pc = "moved" => r1.left # NoPlace
    BY RunFields DEF Run
  <2>3. Goes(w, r1)
    BY <1>5 DEF PreserveMetadata
  <2> HIDE DEF r1
  <2>4. LeftKnown'
    BY <2>2, <2>3, LeftStep
  <2> QED BY <2>1, <2>4
<1>6. CASE Reorganize(w)
  <2> DEFINE r1 == [worker[w] EXCEPT !.pc = "saving", !.object = Moved(worker[w])]
  <2>1. TypeOK'
    BY <1>6, ReorganizeType DEF Reorganize, TypeOK
  <2>2. r1.pc = "saving"
    BY RunFields DEF Run
  <2>3. Goes(w, r1)
    BY <1>6 DEF Reorganize
  <2> HIDE DEF r1
  <2>4. LeftKnown'
    BY <2>2, <2>3, LeftStep
  <2> QED BY <2>1, <2>4
<1>7. CASE SaveObject(w)
  <2>1. TypeOK'
    BY <1>7, SaveObjectType DEF SaveObject, TypeOK
  <2>2. SavedRun(worker[w]).pc = "committing"
    BY RunFields DEF SavedRun, Run
  <2>3. Goes(w, Idle) \/ Goes(w, SavedRun(worker[w]))
    BY <1>7 DEF SaveObject, Retry
  <2>4. LeftKnown'
    BY <2>2, <2>3, IdleLeft, LeftStep
  <2> QED BY <2>1, <2>4
<1>8. CASE Commit(w)
  BY <1>8, CommitType, IdleLeft, LeftStep DEF Commit
<1> QED BY <1>1, <1>2, <1>3, <1>4, <1>5, <1>6, <1>7, <1>8 DEF Preserver

LEMMA FailType ==
    ASSUME Typed, NEW w \in Workers, Fail(w)
    PROVE  Typed'
<1>1. TypeOK'
  BY RetryType, SpendType DEF Typed, Fail, TypeOK
<1>2. LeftKnown'
  BY IdleLeft, LeftStep DEF Typed, Fail, Retry
<1> QED BY <1>1, <1>2 DEF Typed

LEMMA InitType == Init => Typed
<1> SUFFICES ASSUME Init PROVE Typed
  OBVIOUS
<1>1. TypeOK
  <2>1. worker \in [Workers -> Run]
    BY IdleType DEF Init
  <2> QED BY <2>1 DEF Init, TypeOK, Places, Resources
<1>2. LeftKnown
  BY IdleLeft DEF Init, LeftKnown
<1> QED BY <1>1, <1>2 DEF Typed

LEMMA TypedStep == Typed /\ [Next]_vars => Typed'
<1> SUFFICES ASSUME Typed, [Next]_vars PROVE Typed'
  OBVIOUS
<1>1. CASE Saves
  BY <1>1, SavesType DEF Typed, LeftKnown
<1>2. CASE ShortJobs
  BY <1>2, ShortJobsType DEF Typed, LeftKnown
<1>3. ASSUME NEW w \in Workers, Preserver(w)  PROVE Typed'
  BY <1>3, PreserverType
<1>4. ASSUME NEW w \in Workers, Fail(w)  PROVE Typed'
  BY <1>4, FailType
<1>5. CASE UNCHANGED vars
  BY <1>5 DEF vars, Typed, TypeOK, LeftKnown
<1> QED BY <1>1, <1>2, <1>3, <1>4, <1>5 DEF Next

\* Every state of the jobs, the cloud and the records has the types of the
\* source, for any number of threads, file sets and parents: no cleanup names a
\* path that does not exist (Preserver, CleanupFilesJob).
THEOREM PreservationTypeCorrect == Spec => []TypeOK
<1>1. Typed => TypeOK
  BY DEF Typed
<1> QED BY <1>1, InitType, TypedStep, PTL DEF Spec

-----------------------------------------------------------------------------
(***************************************************************************)
(* What a run knows of the record it works on.  A run that has created its *)
(* PreservationObject is the only one to have one.  A run that has found   *)
(* one may have been overtaken: it then holds an older lock token, and     *)
(* will not be able to save.  If it has not been overtaken it knows of any *)
(* binary on record; and one that has saved holds the row.                 *)
(***************************************************************************)
Consistent(run) ==
    LET record == preservation[run.id]
    IN  /\ run.created => run.pc \in Uploading /\ record = NoObject
        /\ run.pc \in Uploading /\ ~run.created =>
             /\ record # NoObject
             /\ IF run.pc = "committing" THEN run.object.lock = record.lock + 1
                                         ELSE run.object.lock <= record.lock
             /\ run.object.lock >= record.lock /\ record.binary # NoPlace
                  => run.object.binary # NoPlace

Holds(run) == run.created \/ run.pc = "committing"

IInv == /\ Typed
        /\ \A w \in Workers : Consistent(worker[w])
        /\ \A v, w \in Workers :
             /\ v # w /\ worker[v].id = worker[w].id
             => /\ ~(worker[v].created /\ worker[w].created)
                /\ ~(worker[v].pc = "committing" /\ worker[w].pc = "committing")

LEMMA IdleConsistent == Consistent(Idle) /\ ~Idle.created /\ Idle.pc # "committing"
BY DEF Consistent, Idle, Uploading

\* A thread that goes on with a consistent run, and creates or commits only
\* what no other thread does, keeps the invariant.
LEMMA GoesKeeps ==
    ASSUME IInv, Typed', UNCHANGED preservation,
           NEW w \in Workers, NEW run, Goes(w, run), Consistent(run),
           run.created => \A v \in Workers \ {w} :
                            ~(worker[v].created /\ worker[v].id = run.id),
           run.pc = "committing" => \A v \in Workers \ {w} :
                            ~(worker[v].pc = "committing" /\ worker[v].id = run.id)
    PROVE  IInv'
<1>1. worker'[w] = run /\ \A v \in Workers \ {w} : worker'[v] = worker[v]
  BY DEF Goes, IInv, Typed, TypeOK
<1>2. \A v \in Workers : Consistent(worker[v])'
  BY <1>1 DEF IInv, Consistent
<1>3. \A u, v \in Workers :
        u # v /\ worker'[u].id = worker'[v].id
        => /\ ~(worker'[u].created /\ worker'[v].created)
           /\ ~(worker'[u].pc = "committing" /\ worker'[v].pc = "committing")
  BY <1>1 DEF IInv
<1> QED BY <1>2, <1>3 DEF IInv

LEMMA IdleKeeps ==
    ASSUME IInv, Typed', UNCHANGED preservation, NEW w \in Workers, Goes(w, Idle)
    PROVE  IInv'
BY IdleConsistent, GoesKeeps

\* The uploads: the run keeps its resource, its lock token and its binary.
LEMMA UploadKeeps ==
    ASSUME IInv, Typed', UNCHANGED preservation, NEW w \in Workers, NEW run, Goes(w, run),
           worker[w].pc \in {"binary", "metadata", "moved"},
           run.pc \in {"metadata", "moved", "saving"},
           run.id = worker[w].id, run.created = worker[w].created,
           run.object.lock = worker[w].object.lock,
           worker[w].object.binary # NoPlace => run.object.binary # NoPlace
    PROVE  IInv'
<1>1. Consistent(worker[w])
  BY DEF IInv
<1>2. Consistent(run)
  BY <1>1 DEF Consistent, Uploading
<1>3. run.created => \A v \in Workers \ {w} :
                       ~(worker[v].created /\ worker[v].id = run.id)
  BY DEF IInv
<1> QED BY <1>2, <1>3, GoesKeeps

LEMMA BeginKeeps ==
    ASSUME IInv, Typed', NEW w \in Workers, Begin(w)
    PROVE  IInv'
<1> DEFINE found == preservation[worker[w].id]
           r1 == [worker[w] EXCEPT !.pc = "creating"]
           r2 == [worker[w] EXCEPT !.pc = AfterObject(worker[w].id), !.object = found]
<1>1. worker[w] \in Run /\ UNCHANGED preservation /\ worker[w].pc = "loaded"
  BY RunFields DEF Begin, IInv, Typed
<1>2. ~worker[w].created
  BY <1>1 DEF IInv, Consistent, Uploading
<1>3. r1.pc = "creating" /\ ~r1.created /\ Consistent(r1)
  BY <1>1, <1>2 DEF Run, Consistent, Uploading
<1>4. /\ r2.pc \in {"binary", "metadata"} /\ ~r2.created
      /\ r2.id = worker[w].id /\ r2.object = found
  BY <1>1, <1>2 DEF Run, AfterObject
<1>5. found # NoObject => found \in PreservationObject
  BY RunFields DEF IInv, Typed, TypeOK
<1>6. found # NoObject => found.lock \in Nat
  BY <1>5 DEF PreservationObject
<1>7. found # NoObject => Consistent(r2)
  <2> HIDE DEF r2
  <2> QED BY <1>4, <1>6 DEF Consistent, Uploading
<1>8. CASE Goes(w, Idle)
  BY <1>1, <1>8, IdleKeeps
<1>9. CASE Goes(w, r1)
  <2> HIDE DEF r1
  <2> QED BY <1>1, <1>3, <1>9, GoesKeeps
<1>10. CASE found # NoObject /\ Goes(w, r2)
  <2> HIDE DEF r2, found
  <2> QED BY <1>1, <1>4, <1>7, <1>10, GoesKeeps
<1> QED BY <1>8, <1>9, <1>10 DEF Begin

LEMMA CreateKeeps ==
    ASSUME IInv, Typed', NEW w \in Workers, CreateObject(w)
    PROVE  IInv'
<1> DEFINE run == [worker[w] EXCEPT !.pc = AfterObject(worker[w].id), !.created = TRUE]
<1>1. worker[w] \in Run /\ UNCHANGED preservation
  BY RunFields DEF CreateObject, IInv, Typed
<1>2. run.pc \in {"binary", "metadata"} /\ run.created /\ run.id = worker[w].id
  BY <1>1 DEF Run, AfterObject
<1>3. CASE Goes(w, Idle)
  BY <1>1, <1>3, IdleKeeps
<1>4. CASE preservation[worker[w].id] = NoObject /\ Goes(w, run)
  <2> HIDE DEF run
  <2>1. Consistent(run)
    BY <1>2, <1>4 DEF Consistent, Uploading
  <2>2. \A v \in Workers \ {w} : ~(worker[v].created /\ worker[v].id = run.id)
    BY <1>2 DEF CreateObject
  <2> QED BY <1>1, <1>2, <1>4, <2>1, <2>2, GoesKeeps
<1> QED BY <1>3, <1>4 DEF CreateObject, Retry

LEMMA BinaryKeeps ==
    ASSUME IInv, Typed', NEW w \in Workers, PreserveBinary(w)
    PROVE  IInv'
<1> DEFINE p == IF worker[w].checksum /\ worker[w].object.binary = NoPlace
                  THEN place ELSE worker[w].object.binary
           object == [worker[w].object EXCEPT !.binary = p]
           run == [worker[w] EXCEPT !.pc = "metadata", !.object = object]
<1>1. /\ worker[w] \in Run /\ worker[w].object \in PreservationObject
      /\ place # NoPlace /\ UNCHANGED preservation
  BY RunFields, PreservationAssumption DEF PreserveBinary, IInv, Typed, Places
<1>2. object.lock = worker[w].object.lock /\ object.binary = p
  BY <1>1 DEF PreservationObject
<1>3. worker[w].object.binary # NoPlace => p # NoPlace
  OBVIOUS
<1>4. Goes(w, run) /\ worker[w].pc = "binary"
  BY DEF PreserveBinary
<1> HIDE DEF object, p
<1>5. /\ run.pc = "metadata" /\ run.id = worker[w].id
      /\ run.created = worker[w].created /\ run.object = object
  BY <1>1 DEF Run
<1> HIDE DEF run
<1> QED BY <1>1, <1>2, <1>3, <1>4, <1>5, UploadKeeps

LEMMA MetadataKeeps ==
    ASSUME IInv, Typed', NEW w \in Workers, PreserveMetadata(w)
    PROVE  IInv'
<1> DEFINE moved == worker[w].object.metadata \notin {NoPlace, place}
           pc == IF moved THEN "moved" ELSE "saving"
           left == IF moved THEN worker[w].object.metadata ELSE NoPlace
           object == [worker[w].object EXCEPT !.metadata = place]
           run == [worker[w] EXCEPT !.pc = pc, !.left = left, !.object = object]
<1>1. worker[w] \in Run /\ worker[w].object \in PreservationObject
      /\ UNCHANGED preservation
  BY RunFields DEF PreserveMetadata, IInv, Typed
<1>2. object.lock = worker[w].object.lock /\ object.binary = worker[w].object.binary
  BY <1>1 DEF PreservationObject
<1>3. Goes(w, run) /\ worker[w].pc = "metadata" /\ pc \in {"moved", "saving"}
  BY DEF PreserveMetadata
<1> HIDE DEF object, pc, left
<1>5. /\ run.pc = pc /\ run.id = worker[w].id
      /\ run.created = worker[w].created /\ run.object = object
  BY <1>1 DEF Run
<1> HIDE DEF run
<1> QED BY <1>1, <1>2, <1>3, <1>5, UploadKeeps

LEMMA ReorganizeKeeps ==
    ASSUME IInv, Typed', NEW w \in Workers, Reorganize(w)
    PROVE  IInv'
<1> DEFINE object == Moved(worker[w])
           run == [worker[w] EXCEPT !.pc = "saving", !.object = object]
<1>1. /\ worker[w] \in Run /\ worker[w].object \in PreservationObject
      /\ place # NoPlace /\ UNCHANGED preservation
  BY RunFields, PreservationAssumption DEF Reorganize, IInv, Typed, Places
<1>2. object.lock = worker[w].object.lock
  BY <1>1 DEF PreservationObject, Moved
<1>3. worker[w].object.binary # NoPlace => object.binary # NoPlace
  BY <1>1 DEF PreservationObject, Moved
<1>4. Goes(w, run) /\ worker[w].pc = "moved"
  BY DEF Reorganize
<1> HIDE DEF object
<1>5. /\ run.pc = "saving" /\ run.id = worker[w].id
      /\ run.created = worker[w].created /\ run.object = object
  BY <1>1 DEF Run
<1> HIDE DEF run
<1> QED BY <1>1, <1>2, <1>3, <1>4, <1>5, UploadKeeps

LEMMA SaveObjectKeeps ==
    ASSUME IInv, Typed', NEW w \in Workers, SaveObject(w)
    PROVE  IInv'
<1> DEFINE run == SavedRun(worker[w])
           record == preservation[worker[w].id]
           stale == ~worker[w].created /\ record.lock # worker[w].object.lock
<1>1. /\ worker[w] \in Run /\ worker[w].object \in PreservationObject
      /\ worker[w].pc = "saving" /\ UNCHANGED preservation
  BY RunFields DEF SaveObject, IInv, Typed
<1>2. /\ run.pc = "committing" /\ run.id = worker[w].id
      /\ run.created = worker[w].created
      /\ run.object = Recorded(worker[w].object, worker[w].token)
  BY <1>1 DEF Run, SavedRun
<1>3. /\ run.object.lock = worker[w].object.lock + 1
      /\ run.object.binary = worker[w].object.binary
  BY <1>1, <1>2 DEF Recorded, PreservationObject
<1>4. Consistent(worker[w])
  BY DEF IInv
<1>5. CASE stale
  BY <1>1, <1>5, IdleKeeps DEF SaveObject, Retry
<1>6. CASE ~stale
  <2>1. Goes(w, run)
    BY <1>6 DEF SaveObject
  <2>2. ~run.created => record # NoObject /\ record.lock = worker[w].object.lock
    BY <1>1, <1>2, <1>4, <1>6 DEF Consistent, Uploading
  <2>3. worker[w].object.lock \in Nat
    BY <1>1 DEF PreservationObject
  <2> HIDE DEF run
  <2>4. Consistent(run)
    BY <1>1, <1>2, <1>3, <1>4, <2>2, <2>3 DEF Consistent, Uploading
  <2>5. run.created => \A v \in Workers \ {w} :
                         ~(worker[v].created /\ worker[v].id = run.id)
    BY <1>2 DEF IInv
  <2>6. \A v \in Workers \ {w} : ~(worker[v].pc = "committing" /\ worker[v].id = run.id)
    BY <1>2 DEF SaveObject
  <2> QED BY <1>1, <2>1, <2>4, <2>5, <2>6, GoesKeeps
<1> QED BY <1>5, <1>6

\* A commit raises the lock token that the other threads will be compared with.
LEMMA CommitKeeps ==
    ASSUME IInv, Typed', NEW w \in Workers, Commit(w)
    PROVE  IInv'
<1> DEFINE r == worker[w].id
           object == worker[w].object
<1>1. /\ worker[w] \in Run /\ r \in Resources /\ object \in PreservationObject
      /\ worker[w].pc = "committing" /\ Goes(w, Idle)
      /\ preservation' = [preservation EXCEPT ![r] = object]
  BY RunFields DEF Commit, IInv, Typed
<1>2. object.lock \in Nat /\ object # NoObject
  BY <1>1, NoObjectAssumption DEF PreservationObject
<1>3. worker'[w] = Idle /\ \A v \in Workers \ {w} : worker'[v] = worker[v]
  BY <1>1 DEF Goes, IInv, Typed, TypeOK
<1>4. preservation'[r] = object /\ \A s \in Resources \ {r} : preservation'[s] = preservation[s]
  BY <1>1 DEF IInv, Typed, TypeOK
<1>5. Consistent(worker[w])
  BY DEF IInv
<1> HIDE DEF object, r
<1>6. ASSUME NEW v \in Workers \ {w}  PROVE Consistent(worker[v])'
  <2>1. worker[v].id \in Resources /\ Consistent(worker[v])
    BY RunFields DEF IInv, Typed
  <2>2. CASE worker[v].id # r
    BY <1>3, <1>4, <2>1, <2>2 DEF Consistent
  <2>3. CASE worker[v].id = r
    <3>1. worker[v].pc # "committing"
      BY <1>1, <2>3 DEF IInv, r
    <3>2. ~worker[v].created
      <4>1. CASE worker[w].created
        BY <2>3, <4>1 DEF IInv, r
      <4>2. CASE ~worker[w].created
        BY <1>1, <1>5, <2>1, <2>3, <4>2 DEF Consistent, Uploading, r
      <4> QED BY <4>1, <4>2
    <3>3. CASE worker[v].pc \in Uploading
      <4>1. preservation[r] # NoObject /\ worker[v].object.lock <= preservation[r].lock
        BY <2>1, <2>3, <3>1, <3>2, <3>3 DEF Consistent
      <4>2. ~worker[w].created
        BY <1>5, <4>1 DEF Consistent, r
      <4>3. object.lock = preservation[r].lock + 1
        BY <1>1, <1>5, <4>2 DEF Consistent, Uploading, r, object
      <4>4. preservation[r] \in PreservationObject
        BY <1>1, <4>1 DEF IInv, Typed, TypeOK
      <4>5. preservation[r].lock \in Nat /\ worker[v].object.lock \in Nat
        BY <4>4, RunFields DEF PreservationObject, IInv, Typed
      <4>6. worker[v].object.lock < object.lock
        BY <4>1, <4>3, <4>5
      <4> QED BY <1>2, <1>3, <1>4, <2>3, <3>1, <3>2, <4>5, <4>6 DEF Consistent
    <3>4. CASE worker[v].pc \notin Uploading
      BY <1>3, <3>2, <3>4 DEF Consistent
    <3> QED BY <3>3, <3>4
  <2> QED BY <2>2, <2>3
<1>7. Consistent(worker[w])'
  BY <1>3 DEF Consistent, Idle, Uploading
<1>8. \A u, v \in Workers :
        u # v /\ worker'[u].id = worker'[v].id
        => /\ ~(worker'[u].created /\ worker'[v].created)
           /\ ~(worker'[u].pc = "committing" /\ worker'[v].pc = "committing")
  BY <1>3, IdleConsistent DEF IInv
<1> QED BY <1>6, <1>7, <1>8 DEF IInv

LEMMA LoadKeeps ==
    ASSUME IInv, Typed', NEW w \in Workers, NEW j \in queue, Load(w, j)
    PROVE  IInv'
<1>1. UNCHANGED preservation
  BY DEF Load
<1>2. CASE UNCHANGED worker
  BY <1>1, <1>2 DEF IInv, Consistent
<1>3. CASE Goes(w, Loaded(j))
  <2>1. Loaded(j).pc = "loaded" /\ ~Loaded(j).created
    BY DEF Loaded, Idle
  <2>2. Consistent(Loaded(j))
    BY <2>1 DEF Consistent, Uploading
  <2> QED BY <1>1, <1>3, <2>1, <2>2, GoesKeeps
<1> QED BY <1>2, <1>3 DEF Load

LEMMA IInvInit == Init => IInv
<1> SUFFICES ASSUME Init PROVE IInv
  OBVIOUS
<1>1. \A w \in Workers : worker[w] = Idle
  BY DEF Init
<1> QED BY <1>1, InitType, IdleConsistent DEF IInv

LEMMA IInvStep == IInv /\ [Next]_vars => IInv'
<1> SUFFICES ASSUME IInv, [Next]_vars PROVE IInv'
  OBVIOUS
<1>1. Typed'
  BY TypedStep DEF IInv
<1>2. CASE UNCHANGED <<worker, preservation>>
  BY <1>1, <1>2 DEF IInv, Consistent
<1>3. CASE Saves
  <2>1. UNCHANGED <<worker, preservation>>
    BY <1>3 DEF Saves, SaveWork, TakeDown, Move, AddFileSet
  <2> QED BY <1>2, <2>1
<1>4. CASE ShortJobs
  <2>1. UNCHANGED <<worker, preservation>>
    BY <1>4 DEF ShortJobs, Characterize, CreateDerivatives, PreserveMembers, CleanupFiles
  <2> QED BY <1>2, <2>1
<1>5. ASSUME NEW w \in Workers, Preserver(w)  PROVE IInv'
  BY <1>1, <1>5, LoadKeeps, BeginKeeps, CreateKeeps, BinaryKeeps, MetadataKeeps,
     ReorganizeKeeps, SaveObjectKeeps, CommitKeeps DEF Preserver
<1>6. ASSUME NEW w \in Workers, Fail(w)  PROVE IInv'
  BY <1>1, <1>6, IdleKeeps DEF Fail, Retry
<1>7. CASE UNCHANGED vars
  BY <1>2, <1>7 DEF vars
<1> QED BY <1>3, <1>4, <1>5, <1>6, <1>7 DEF Next

\* A resource is first preserved by one thread at a time, however many there
\* are: the unique index does what it is for.
THEOREM FirstAlone == Spec => []FirstPreservationAlone
<1>1. IInv => FirstPreservationAlone
  BY DEF IInv, Consistent, FirstPreservationAlone
<1> QED BY <1>1, IInvInit, IInvStep, PTL DEF Spec

LEMMA BinaryKeptStep ==
    ASSUME IInv, [Next]_vars, NEW f \in FileSets,
           preservation[f] # NoObject, preservation[f].binary # NoPlace
    PROVE  preservation'[f].binary # NoPlace
<1>1. CASE UNCHANGED preservation
  BY <1>1
<1>2. ASSUME NEW w \in Workers, Commit(w)  PROVE preservation'[f].binary # NoPlace
  <2>1. /\ worker[w].id \in Resources /\ worker[w].object \in PreservationObject
        /\ worker[w].pc = "committing" /\ Consistent(worker[w])
        /\ preservation' = [preservation EXCEPT ![worker[w].id] = worker[w].object]
    BY <1>2, RunFields DEF Commit, IInv, Typed
  <2>2. f \in Resources
    BY DEF Resources
  <2>3. CASE worker[w].id # f
    BY <2>1, <2>2, <2>3 DEF IInv, Typed, TypeOK
  <2>4. CASE worker[w].id = f
    <3>1. ~worker[w].created /\ worker[w].object.lock = preservation[f].lock + 1
      BY <2>1, <2>4 DEF Consistent, Uploading
    <3>2. preservation[f] \in PreservationObject
      BY <2>2 DEF IInv, Typed, TypeOK
    <3>3. preservation[f].lock \in Nat
      BY <3>2 DEF PreservationObject
    <3>4. worker[w].object.binary # NoPlace
      BY <2>1, <2>4, <3>1, <3>3 DEF Consistent, Uploading
    <3>5. preservation'[f] = worker[w].object
      BY <2>1, <2>2, <2>4 DEF IInv, Typed, TypeOK
    <3> QED BY <3>4, <3>5
  <2> QED BY <2>3, <2>4
<1>3. CASE Saves
  BY <1>1, <1>3 DEF Saves, SaveWork, TakeDown, Move, AddFileSet
<1>4. CASE ShortJobs
  BY <1>1, <1>4 DEF ShortJobs, Characterize, CreateDerivatives, PreserveMembers, CleanupFiles
<1>5. ASSUME NEW w \in Workers, Preserver(w)  PROVE preservation'[f].binary # NoPlace
  BY <1>1, <1>2, <1>5 DEF Preserver, Load, Begin, CreateObject, PreserveBinary,
     PreserveMetadata, Reorganize, SaveObject
<1>6. ASSUME NEW w \in Workers, Fail(w)  PROVE preservation'[f].binary # NoPlace
  BY <1>1, <1>6 DEF Fail
<1>7. CASE UNCHANGED vars
  BY <1>1, <1>7 DEF vars
<1> QED BY <1>3, <1>4, <1>5, <1>6, <1>7 DEF Next

\* No save of a PreservationObject drops the record of a preserved binary,
\* however many threads save it: what its optimistic lock is for.
THEOREM BinariesNeverForgotten == Spec => BinaryNodesKept
<1>1. IInv /\ [Next]_vars =>
        [\A f \in FileSets :
           preservation[f] # NoObject /\ preservation[f].binary # NoPlace
           => preservation'[f].binary # NoPlace]_vars
  BY BinaryKeptStep
<1> QED BY <1>1, IInvInit, IInvStep, PTL DEF Spec, BinaryNodesKept
-----------------------------------------------------------------------------
(***************************************************************************)
(* What is in the cloud of a resource is on record, known to the run that  *)
(* has put it there, or about to be cleaned up, as long as no two jobs of  *)
(* the resource overlap and none of them fails once it has begun to        *)
(* upload.  The thread t below is the one that runs such a job, if one     *)
(* does.                                                                   *)
(***************************************************************************)
\* No two threads run jobs of r at the same time.
RunsApart(r) ==
    \A v, w \in Workers :
        v # w /\ worker[v].id = r /\ worker[w].id = r
        => "idle" \in {worker[v].pc, worker[w].pc}

\* A job of r that fails has not begun to upload.
UploadsEnd(r) ==
    \A w \in Workers : Fail(w) /\ worker[w].id = r => worker[w].pc \notin Uploading

CleaningUp(k) == Cleanup(k.of, k.place, k.kind) \in queue

Records(object, k) ==
    /\ object # NoObject
    /\ k.place = IF k.kind = "metadata" THEN object.metadata ELSE object.binary

\* What the run t, past the start, knows of a file of its resource.
Traces(t, k) ==
    /\ worker[t].pc \in Uploading /\ worker[t].id = k.of
    /\ \/ Records(worker[t].object, k)
       \/ worker[t].pc = "moved" /\ k.kind = "metadata" /\ k.place = worker[t].left

OnRecord(t, k) ==
    /\ ~(worker[t].pc \in Uploading /\ worker[t].id = k.of)
    /\ Records(preservation[k.of], k)

Accounted(t, k) == CleaningUp(k) \/ Traces(t, k) \/ OnRecord(t, k)

\* Nobody has saved the record that the run has read.
RunAlone(t) ==
    LET run == worker[t]
    IN  /\ run.pc = "creating" => preservation[run.id] = NoObject
        /\ run.pc \in Uploading \ {"committing"} /\ ~run.created
             => preservation[run.id].lock = run.object.lock

LeftInv(t, r) == /\ worker[t].id = r => RunAlone(t)
                 /\ \A k \in Key : k.of = r /\ cloud[k] # 0 => Accounted(t, k)

OthersAway(t, r) == \A v \in Workers \ {t} : worker[v].pc = "idle" \/ worker[v].id # r

NothingLost(r) == \E t \in Workers : OthersAway(t, r) /\ LeftInv(t, r)

LEMMA CleanupsDiffer ==
    \A k, m \in Key : Cleanup(k.of, k.place, k.kind) = Cleanup(m.of, m.place, m.kind) => k = m
BY DEF Key, Cleanup, KeyOf

LEMMA KeyParts ==
    /\ \A r, p, kind : /\ KeyOf(r, p, kind).of = r
                       /\ KeyOf(r, p, kind).place = p
                       /\ KeyOf(r, p, kind).kind = kind
    /\ \A k \in Key : /\ k = KeyOf(k.of, k.place, k.kind)
                      /\ k.of \in Resources /\ k.place \in Places
                      /\ k.kind \in {"metadata", "binary"}
BY DEF Key, KeyOf

\* What does not touch the run, the records, the cloud or a cleanup.
LEMMA SameAccounts ==
    ASSUME NEW t, NEW r, LeftInv(t, r), UNCHANGED <<worker, preservation>>,
           \A k \in Key : cloud'[k] # 0 => cloud[k] # 0,
           \A k \in Key : cloud'[k] # 0 /\ CleaningUp(k) => CleaningUp(k)'
    PROVE  LeftInv(t, r)'
<1>1. worker'[t].id = r => RunAlone(t)'
  BY DEF LeftInv, RunAlone
<1>2. ASSUME NEW k \in Key, k.of = r, cloud'[k] # 0 PROVE Accounted(t, k)'
  <2>1. Accounted(t, k)
    BY <1>2 DEF LeftInv
  <2>2. CASE CleaningUp(k)
    BY <1>2, <2>2 DEF Accounted
  <2>3. Traces(t, k) => Traces(t, k)'
    BY DEF Traces, Records
  <2>4. OnRecord(t, k) => OnRecord(t, k)'
    BY DEF OnRecord, Records
  <2> QED BY <2>1, <2>2, <2>3, <2>4 DEF Accounted
<1> QED BY <1>1, <1>2 DEF LeftInv

\* The jobs of saves clean nothing up.
LEMMA SavesLeave ==
    ASSUME Saves
    PROVE  queue \subseteq queue' /\ UNCHANGED <<worker, preservation, cloud>>
BY DEF Saves, SaveWork, TakeDown, Move, AddFileSet

LEMMA SavesAccounted ==
    ASSUME NEW t, NEW r, LeftInv(t, r), Saves
    PROVE  LeftInv(t, r)'
BY SavesLeave, SameAccounts DEF CleaningUp

LEMMA ShortJobsAccounted ==
    ASSUME Typed, NEW t, NEW r, LeftInv(t, r), ShortJobs
    PROVE  LeftInv(t, r)'
<1>1. ASSUME NEW f \in FileSets, Characterize(f)  PROVE LeftInv(t, r)'
  <2>1. \A k \in Key : CleaningUp(k) => CleaningUp(k)'
    BY <1>1 DEF CleaningUp, Cleanup, Characterize, Characterization
  <2> QED BY <1>1, <2>1, SameAccounts DEF Characterize
<1>2. ASSUME NEW f \in FileSets, CreateDerivatives(f)  PROVE LeftInv(t, r)'
  <2>1. \A k \in Key : CleaningUp(k) => CleaningUp(k)'
    BY <1>2 DEF CleaningUp, Cleanup, CreateDerivatives, Derivatives
  <2> QED BY <1>2, <2>1, SameAccounts DEF CreateDerivatives
<1>3. ASSUME NEW u \in BOOLEAN, PreserveMembers(u)  PROVE LeftInv(t, r)'
  <2>1. \A k \in Key : CleaningUp(k) => CleaningUp(k)'
    BY <1>3 DEF CleaningUp, Cleanup, PreserveMembers, PreserveChildren
  <2> QED BY <1>3, <2>1, SameAccounts DEF PreserveMembers
<1>4. ASSUME NEW m \in Key, CleanupFiles(m)  PROVE LeftInv(t, r)'
  <2>1. cloud' = [cloud EXCEPT ![m] = 0] /\ queue' = queue \ {Cleanup(m.of, m.place, m.kind)}
        /\ UNCHANGED <<worker, preservation>>
    BY <1>4 DEF CleanupFiles
  <2>2. cloud'[m] = 0 /\ \A k \in Key : k # m => cloud'[k] = cloud[k]
    BY <2>1 DEF Typed, TypeOK
  <2>3. ASSUME NEW k \in Key, cloud'[k] # 0, CleaningUp(k) PROVE CleaningUp(k)'
    <3>1. Cleanup(k.of, k.place, k.kind) # Cleanup(m.of, m.place, m.kind)
      BY <2>2, <2>3, CleanupsDiffer
    <3> QED BY <2>1, <2>3, <3>1 DEF CleaningUp
  <2> QED BY <2>1, <2>2, <2>3, SameAccounts
<1> QED BY <1>1, <1>2, <1>3, <1>4 DEF ShortJobs

\* A run of r goes on.
LEMMA RunAccounts ==
    ASSUME NEW t \in Workers, NEW r, NEW run, worker'[t] = run, run.id = r,
           \A k \in Key : k.of = run.id /\ cloud'[k] # 0 => Accounted(t, k)',
           RunAlone(t)'
    PROVE  LeftInv(t, r)'
BY DEF LeftInv

\* Outside the uploads, only the records and the cleanups count.
LEMMA AtRest ==
    ASSUME NEW t, worker[t].pc \notin Uploading, NEW k
    PROVE  Accounted(t, k) <=> CleaningUp(k) \/ Records(preservation[k.of], k)
BY DEF Accounted, Traces, OnRecord

\* Between the steps outside the uploads nothing happens to the cloud.
LEMMA RestAccounts ==
    ASSUME NEW t, NEW r, LeftInv(t, r), UNCHANGED <<preservation, cloud>>,
           worker[t].pc \notin Uploading, worker'[t].pc \notin Uploading,
           worker'[t].pc = "creating" => preservation[worker'[t].id] = NoObject,
           \A k \in Key : CleaningUp(k) => CleaningUp(k)'
    PROVE  LeftInv(t, r)'
<1>1. RunAlone(t)'
  BY DEF RunAlone
<1>2. ASSUME NEW k \in Key, k.of = r, cloud'[k] # 0 PROVE Accounted(t, k)'
  <2>1. CleaningUp(k) \/ Records(preservation[k.of], k)
    BY <1>2, AtRest DEF LeftInv
  <2>2. CleaningUp(k)' \/ Records(preservation'[k.of], k)
    BY <2>1
  <2> QED BY <2>2 DEF Accounted, Traces, OnRecord, Records
<1> QED BY <1>1, <1>2 DEF LeftInv

LEMMA LoadAccounted ==
    ASSUME Typed, NEW t \in Workers, NEW r, LeftInv(t, r), NEW j \in queue, Load(t, j)
    PROVE  LeftInv(t, r)'
<1>1. /\ UNCHANGED <<preservation, cloud>> /\ worker[t].pc = "idle"
      /\ queue' = queue \ {j} /\ j.job = "PreserveResource"
  BY DEF Load, PreserveResourceJob
<1>2. \A k \in Key : CleaningUp(k) => CleaningUp(k)'
  BY <1>1 DEF CleaningUp, Cleanup
<1>3. Loaded(j).pc = "loaded"
  BY DEF Loaded, Idle
<1>4. worker'[t].pc \in {"idle", "loaded"}
  <2>1. CASE UNCHANGED worker
    BY <1>1, <2>1
  <2>2. CASE Goes(t, Loaded(j))
    BY <1>3, <2>2 DEF Goes, Typed, TypeOK
  <2> QED BY <2>1, <2>2 DEF Load
<1> QED BY <1>1, <1>2, <1>4, RestAccounts DEF Uploading

LEMMA BeginAccounted ==
    ASSUME Typed, NEW t \in Workers, NEW r, LeftInv(t, r), worker[t].id = r, Begin(t), ~worker[t].created
    PROVE  LeftInv(t, r)'
<1> DEFINE found == preservation[worker[t].id]
           r1 == [worker[t] EXCEPT !.pc = "creating"]
           r2 == [worker[t] EXCEPT !.pc = AfterObject(worker[t].id), !.object = found]
<1>1. /\ worker[t] \in Run /\ worker[t].pc = "loaded"
      /\ UNCHANGED <<preservation, cloud, queue>>
  BY RunFields DEF Begin, Typed
<1>2. \A run : Goes(t, run) => worker'[t] = run
  BY DEF Goes, Typed, TypeOK
<1>3. \A k \in Key : CleaningUp(k) => CleaningUp(k)'
  BY <1>1 DEF CleaningUp
<1>4. CASE Goes(t, Idle)
  <2>1. worker'[t].pc = "idle"
    BY <1>2, <1>4, IdleLeft
  <2> QED BY <1>1, <1>3, <2>1, RestAccounts DEF Uploading
<1>5. CASE found = NoObject /\ Goes(t, r1)
  <2>1. worker'[t].pc = "creating" /\ worker'[t].id = worker[t].id
    BY <1>1, <1>2, <1>5 DEF Run
  <2> QED BY <1>1, <1>3, <1>5, <2>1, RestAccounts DEF Uploading
<1>6. CASE found # NoObject /\ Goes(t, r2)
  <2>1. PICK run : worker'[t] = run
    OBVIOUS
  <2>2. /\ run.pc \in {"binary", "metadata"} /\ run.id = worker[t].id
        /\ run.object = found /\ ~run.created
    BY <1>1, <1>2, <1>6, <2>1 DEF Run, AfterObject
  <2>3. RunAlone(t)'
    BY <1>1, <2>1, <2>2 DEF RunAlone
  <2>4. ASSUME NEW k \in Key, k.of = run.id, cloud'[k] # 0 PROVE Accounted(t, k)'
    <3>1. CleaningUp(k) \/ Records(found, k)
      BY <1>1, <2>2, <2>4, AtRest DEF LeftInv, Uploading
    <3>2. CASE Records(found, k)
      BY <2>1, <2>2, <2>4, <3>2 DEF Accounted, Traces, Records, Uploading
    <3> QED BY <1>3, <3>1, <3>2 DEF Accounted
  <2> QED BY <1>1, <1>3, <2>1, <2>2, <2>3, <2>4, RunAccounts
<1> QED BY <1>4, <1>5, <1>6 DEF Begin

LEMMA CreateAccounted ==
    ASSUME Typed, NEW t \in Workers, NEW r, LeftInv(t, r), worker[t].id = r, CreateObject(t)
    PROVE  LeftInv(t, r)'
<1> DEFINE r1 == [worker[t] EXCEPT !.pc = AfterObject(worker[t].id), !.created = TRUE]
<1>1. /\ worker[t] \in Run /\ worker[t].pc = "creating"
      /\ UNCHANGED <<preservation, cloud>>
  BY RunFields DEF CreateObject, Typed
<1>2. preservation[worker[t].id] = NoObject
  BY <1>1 DEF LeftInv, RunAlone
<1>3. Goes(t, r1) /\ UNCHANGED queue
  BY <1>2 DEF CreateObject
<1>4. PICK run : worker'[t] = run
  OBVIOUS
<1>5. /\ run.pc \in {"binary", "metadata"} /\ run.id = worker[t].id /\ run.created
  BY <1>1, <1>3, <1>4 DEF Run, AfterObject, Goes, Typed, TypeOK
<1>6. \A k \in Key : CleaningUp(k) => CleaningUp(k)'
  BY <1>3 DEF CleaningUp
<1>7. RunAlone(t)'
  BY <1>4, <1>5 DEF RunAlone
<1>8. ASSUME NEW k \in Key, k.of = run.id, cloud'[k] # 0 PROVE Accounted(t, k)'
  <2>1. CleaningUp(k)
    BY <1>1, <1>2, <1>5, <1>8, AtRest DEF LeftInv, Uploading, Records
  <2> QED BY <1>6, <2>1 DEF Accounted
<1> QED BY <1>1, <1>4, <1>5, <1>6, <1>7, <1>8, RunAccounts

LEMMA BinaryAccounted ==
    ASSUME Typed, NEW t \in Workers, NEW r, LeftInv(t, r), worker[t].id = r, PreserveBinary(t)
    PROVE  LeftInv(t, r)'
<1> DEFINE due == worker[t].checksum /\ worker[t].object.binary = NoPlace
           p == IF due THEN place ELSE worker[t].object.binary
           object == [worker[t].object EXCEPT !.binary = p]
           r1 == [worker[t] EXCEPT !.pc = "metadata", !.object = object]
           key == KeyOf(worker[t].id, place, "binary")
<1>1. /\ worker[t] \in Run /\ worker[t].pc = "binary" /\ worker[t].object \in PreservationObject
      /\ UNCHANGED <<preservation, queue>> /\ Goes(t, r1) /\ place # NoPlace
  BY RunFields, PreservationAssumption DEF PreserveBinary, Typed, Places
<1>2. cloud' = IF due THEN [cloud EXCEPT ![key] = 1] ELSE cloud
  BY DEF PreserveBinary
<1>3. /\ object.binary = p /\ object.metadata = worker[t].object.metadata
      /\ object.lock = worker[t].object.lock
  BY <1>1 DEF PreservationObject
<1>4. object # NoObject
  <2>1. p \in Places \cup {NoPlace}
    BY RunFields DEF Typed
  <2> HIDE DEF p
  <2>2. object \in PreservationObject
    BY <1>1, <2>1, ObjectEdits
  <2> QED BY <2>2, NoObjectAssumption
<1>5. PICK run : worker'[t] = run
  OBVIOUS
<1> HIDE DEF object
<1>6. /\ run.pc = "metadata" /\ run.id = worker[t].id /\ run.object = object
      /\ run.created = worker[t].created
  BY <1>1, <1>5 DEF Run, Goes, Typed, TypeOK
<1>7. \A k \in Key : CleaningUp(k) => CleaningUp(k)'
  BY <1>1 DEF CleaningUp
<1>8. RunAlone(t)'
  BY <1>1, <1>3, <1>5, <1>6 DEF RunAlone, LeftInv, Uploading
<1>9. \A k \in Key : cloud'[k] = IF due /\ k = key THEN 1 ELSE cloud[k]
  BY <1>2 DEF Typed, TypeOK
<1>10. key.of = worker[t].id /\ key.place = place /\ key.kind = "binary"
  BY KeyParts
<1> HIDE DEF key
<1>11. \A k \in Key : k.of # run.id => cloud'[k] = cloud[k]
  BY <1>6, <1>9, <1>10
<1>12. ASSUME NEW k \in Key, k.of = run.id, cloud'[k] # 0 PROVE Accounted(t, k)'
  <2>1. CASE due /\ k = key
    <3>1. Records(object, k)
      BY <1>3, <1>4, <1>10, <2>1 DEF Records
    <3>2. Traces(t, k)'
      BY <1>5, <1>6, <1>12, <3>1 DEF Traces, Uploading, Records
    <3> QED BY <3>2 DEF Accounted
  <2>2. CASE ~(due /\ k = key)
    <3>1. Accounted(t, k)
      BY <1>6, <1>9, <1>12, <2>2 DEF LeftInv
    <3>2. ~OnRecord(t, k)
      BY <1>1, <1>6, <1>12 DEF OnRecord, Uploading
    <3>3. CASE CleaningUp(k)
      BY <1>7, <3>3 DEF Accounted
    <3>4. CASE Records(worker[t].object, k)
      <4>1. k.place # NoPlace
        BY KeyParts, PreservationAssumption DEF Places
      <4>2. Records(object, k)
        BY <1>3, <1>4, <3>4, <4>1 DEF Records
      <4>3. Traces(t, k)'
        BY <1>5, <1>6, <1>12, <4>2 DEF Traces, Uploading, Records
      <4> QED BY <4>3 DEF Accounted
    <3> QED BY <1>1, <3>1, <3>2, <3>3, <3>4 DEF Accounted, Traces
  <2> QED BY <2>1, <2>2
<1> QED BY <1>1, <1>5, <1>6, <1>7, <1>8, <1>11, <1>12, RunAccounts

LEMMA MetadataAccounted ==
    ASSUME Typed, NEW t \in Workers, NEW r, LeftInv(t, r), worker[t].id = r, PreserveMetadata(t)
    PROVE  LeftInv(t, r)'
<1> DEFINE old == worker[t].object.metadata
           moved == old \notin {NoPlace, place}
           object == [worker[t].object EXCEPT !.metadata = place]
           r1 == [worker[t] EXCEPT !.pc = IF moved THEN "moved" ELSE "saving",
                      !.left = IF moved THEN old ELSE NoPlace, !.object = object]
           key == KeyOf(worker[t].id, place, "metadata")
<1>1. /\ worker[t] \in Run /\ worker[t].pc = "metadata" /\ worker[t].object \in PreservationObject
      /\ UNCHANGED <<preservation, queue>> /\ Goes(t, r1)
  BY RunFields DEF PreserveMetadata, Typed
<1>2. cloud' = [cloud EXCEPT ![key] = worker[t].token]
  BY DEF PreserveMetadata
<1>3. /\ object.metadata = place /\ object.binary = worker[t].object.binary
      /\ object.lock = worker[t].object.lock
  BY <1>1 DEF PreservationObject
<1>4. object # NoObject
  <2>1. place \in Places \cup {NoPlace}
    BY RunFields DEF Typed
  <2>2. object \in PreservationObject
    BY <1>1, <2>1, ObjectEdits
  <2> QED BY <2>2, NoObjectAssumption
<1>5. PICK run : worker'[t] = run
  OBVIOUS
<1> HIDE DEF object
<1>6. /\ run.pc = (IF moved THEN "moved" ELSE "saving") /\ run.id = worker[t].id
      /\ run.object = object /\ run.created = worker[t].created
      /\ run.left = IF moved THEN old ELSE NoPlace
  BY <1>1, <1>5 DEF Run, Goes, Typed, TypeOK
<1>7. \A k \in Key : CleaningUp(k) => CleaningUp(k)'
  BY <1>1 DEF CleaningUp
<1>8. RunAlone(t)'
  BY <1>1, <1>3, <1>5, <1>6 DEF RunAlone, LeftInv, Uploading
<1>9. \A k \in Key : k # key => cloud'[k] = cloud[k]
  BY <1>2 DEF Typed, TypeOK
<1>10. key.of = worker[t].id /\ key.place = place /\ key.kind = "metadata"
  BY KeyParts
<1> HIDE DEF key
<1>11. \A k \in Key : k.of # run.id => cloud'[k] = cloud[k]
  BY <1>6, <1>9, <1>10
<1>12. ASSUME NEW k \in Key, k.of = run.id, cloud'[k] # 0 PROVE Accounted(t, k)'
  <2>1. ASSUME Records(object, k) PROVE Accounted(t, k)'
    <3>1. Traces(t, k)'
      BY <1>5, <1>6, <1>12, <2>1 DEF Traces, Uploading, Records
    <3> QED BY <3>1 DEF Accounted
  <2>2. CASE k = key
    <3>1. Records(object, k)
      BY <1>3, <1>4, <1>10, <2>2 DEF Records
    <3> QED BY <2>1, <3>1
  <2>3. CASE k # key
    <3>1. Accounted(t, k)
      BY <1>6, <1>9, <1>12, <2>3 DEF LeftInv
    <3>2. ~OnRecord(t, k)
      BY <1>1, <1>6, <1>12 DEF OnRecord, Uploading
    <3>3. CASE CleaningUp(k)
      BY <1>7, <3>3 DEF Accounted
    <3>4. CASE Records(worker[t].object, k)
      <4>1. k.place # NoPlace
        BY KeyParts, PreservationAssumption DEF Places
      <4>2. CASE k.kind = "metadata" /\ moved
        <5>1. Traces(t, k)'
          BY <1>5, <1>6, <1>12, <3>4, <4>2 DEF Traces, Uploading, Records
        <5> QED BY <5>1 DEF Accounted
      <4>3. CASE ~(k.kind = "metadata" /\ moved)
        <5>1. Records(object, k)
          BY <1>3, <1>4, <3>4, <4>1, <4>3 DEF Records
        <5> QED BY <2>1, <5>1
      <4> QED BY <4>2, <4>3
    <3> QED BY <1>1, <3>1, <3>2, <3>3, <3>4 DEF Accounted, Traces
  <2> QED BY <2>2, <2>3
<1> QED BY <1>1, <1>5, <1>6, <1>7, <1>8, <1>11, <1>12, RunAccounts

LEMMA ReorganizeAccounted ==
    ASSUME Typed, NEW t \in Workers, NEW r, LeftInv(t, r), worker[t].id = r, Reorganize(t)
    PROVE  LeftInv(t, r)'
<1> DEFINE old == worker[t].object.binary
           again == worker[t].checksum
           object == Moved(worker[t])
           r1 == [worker[t] EXCEPT !.pc = "saving", !.object = object]
           key == KeyOf(worker[t].id, place, "binary")
           oldKeys == {<<worker[t].left, "metadata">>}
                     \cup (IF again /\ old \notin {NoPlace, place} THEN {<<old, "binary">>} ELSE {})
<1>1. /\ worker[t] \in Run /\ worker[t].pc = "moved" /\ worker[t].object \in PreservationObject
      /\ UNCHANGED preservation /\ Goes(t, r1) /\ place # NoPlace
  BY RunFields, PreservationAssumption DEF Reorganize, Typed, Places
<1>2. /\ cloud' = IF again THEN [cloud EXCEPT ![key] = 1] ELSE cloud
      /\ queue' = queue \cup {Cleanup(worker[t].id, k[1], k[2]) : k \in oldKeys}
  BY DEF Reorganize
<1>3. /\ object.binary = (IF again THEN place ELSE old)
      /\ object.metadata = worker[t].object.metadata
      /\ object.lock = worker[t].object.lock
  BY <1>1 DEF PreservationObject, Moved
<1>4. object # NoObject
  <2> DEFINE p == IF again THEN place ELSE old
  <2>1. p \in Places \cup {NoPlace}
    BY RunFields DEF Typed
  <2>2. object = [worker[t].object EXCEPT !.binary = p]
    BY DEF Moved
  <2> HIDE DEF p, object
  <2>3. object \in PreservationObject
    BY <1>1, <2>1, <2>2, ObjectEdits
  <2> QED BY <2>3, NoObjectAssumption
<1>5. PICK run : worker'[t] = run
  OBVIOUS
<1> HIDE DEF object
<1>6. /\ run.pc = "saving" /\ run.id = worker[t].id /\ run.object = object
      /\ run.created = worker[t].created
  BY <1>1, <1>5 DEF Run, Goes, Typed, TypeOK
<1>7. \A k \in Key : CleaningUp(k) => CleaningUp(k)'
  BY <1>2 DEF CleaningUp
<1>8. RunAlone(t)'
  BY <1>1, <1>3, <1>5, <1>6 DEF RunAlone, LeftInv, Uploading
<1>9. \A k \in Key : cloud'[k] = IF again /\ k = key THEN 1 ELSE cloud[k]
  BY <1>2 DEF Typed, TypeOK
<1>10. key.of = worker[t].id /\ key.place = place /\ key.kind = "binary"
  BY KeyParts
<1> HIDE DEF key
<1>11. \A k \in Key : k.of # run.id => cloud'[k] = cloud[k]
  BY <1>6, <1>9, <1>10
<1>12. /\ Cleanup(worker[t].id, worker[t].left, "metadata") \in queue'
       /\ again /\ old \notin {NoPlace, place} => Cleanup(worker[t].id, old, "binary") \in queue'
  <2>1. \A k \in oldKeys : Cleanup(worker[t].id, k[1], k[2]) \in queue'
    BY <1>2
  <2>2. <<worker[t].left, "metadata">> \in oldKeys
    OBVIOUS
  <2>3. again /\ old \notin {NoPlace, place} => <<old, "binary">> \in oldKeys
    OBVIOUS
  <2> HIDE DEF oldKeys
  <2>4. Cleanup(worker[t].id, worker[t].left, "metadata") \in queue'
    BY <2>1, <2>2
  <2>5. again /\ old \notin {NoPlace, place} => Cleanup(worker[t].id, old, "binary") \in queue'
    BY <2>1, <2>3
  <2> QED BY <2>4, <2>5
<1>13. ASSUME NEW k \in Key, k.of = run.id, cloud'[k] # 0 PROVE Accounted(t, k)'
  <2>1. ASSUME Records(object, k) PROVE Accounted(t, k)'
    <3>1. Traces(t, k)'
      BY <1>5, <1>6, <1>13, <2>1 DEF Traces, Uploading, Records
    <3> QED BY <3>1 DEF Accounted
  <2>2. CASE again /\ k = key
    <3>1. Records(object, k)
      BY <1>3, <1>4, <1>10, <2>2 DEF Records
    <3> QED BY <2>1, <3>1
  <2>3. CASE ~(again /\ k = key)
    <3>1. Accounted(t, k)
      BY <1>6, <1>9, <1>13, <2>3 DEF LeftInv
    <3>2. ~OnRecord(t, k)
      BY <1>1, <1>6, <1>13 DEF OnRecord, Uploading
    <3>3. CASE CleaningUp(k)
      BY <1>7, <3>3 DEF Accounted
    <3>4. CASE Records(worker[t].object, k)
      <4>1. k.place \in Places /\ k.place # NoPlace /\ k.kind \in {"metadata", "binary"}
        BY KeyParts, PreservationAssumption DEF Places
      <4>2. CASE k.kind = "binary" /\ again /\ old # place
        <5>1. k.place = old
          BY <3>4, <4>2 DEF Records
        <5>2. CleaningUp(k)'
          BY <1>6, <1>12, <1>13, <4>1, <4>2, <5>1 DEF CleaningUp
        <5> QED BY <5>2 DEF Accounted
      <4>3. CASE ~(k.kind = "binary" /\ again /\ old # place)
        <5>1. Records(object, k)
          BY <1>3, <1>4, <3>4, <4>1, <4>3 DEF Records
        <5> QED BY <2>1, <5>1
      <4> QED BY <4>2, <4>3
    <3>5. CASE k.kind = "metadata" /\ k.place = worker[t].left
      <4>1. CleaningUp(k)'
        BY <1>6, <1>12, <1>13, <3>5 DEF CleaningUp
      <4> QED BY <4>1 DEF Accounted
    <3> QED BY <1>1, <3>1, <3>2, <3>3, <3>4, <3>5 DEF Accounted, Traces
  <2> QED BY <2>2, <2>3
<1> QED BY <1>1, <1>5, <1>6, <1>7, <1>8, <1>11, <1>13, RunAccounts

LEMMA SaveObjectAccounted ==
    ASSUME Typed, NEW t \in Workers, NEW r, LeftInv(t, r), worker[t].id = r, SaveObject(t)
    PROVE  LeftInv(t, r)'
<1> DEFINE object == Recorded(worker[t].object, worker[t].token)
<1>1. /\ worker[t] \in Run /\ worker[t].pc = "saving" /\ worker[t].object \in PreservationObject
      /\ UNCHANGED <<preservation, cloud>>
  BY RunFields DEF SaveObject, Typed
<1>2. worker[t].created \/ preservation[worker[t].id].lock = worker[t].object.lock
  BY <1>1 DEF LeftInv, RunAlone, Uploading
<1>3. Goes(t, SavedRun(worker[t])) /\ queue' = queue \cup ChildrenJobs(worker[t])
  BY <1>2 DEF SaveObject
<1>4. object.binary = worker[t].object.binary /\ object.metadata = worker[t].object.metadata
  BY <1>1 DEF PreservationObject, Recorded
<1>5. object # NoObject
  <2>1. object \in PreservationObject
    BY <1>1, RunFields, ObjectEdits DEF Typed
  <2> QED BY <2>1, NoObjectAssumption
<1>6. PICK run : worker'[t] = run
  OBVIOUS
<1>7. /\ run.pc = "committing" /\ run.id = worker[t].id /\ run.object = object
      /\ run.created = worker[t].created
  BY <1>1, <1>3, <1>6 DEF Run, SavedRun, Goes, Typed, TypeOK
<1> HIDE DEF object
<1>8. \A k \in Key : CleaningUp(k) => CleaningUp(k)'
  BY <1>3 DEF CleaningUp
<1>9. RunAlone(t)'
  BY <1>6, <1>7 DEF RunAlone
<1>10. ASSUME NEW k \in Key, k.of = run.id, cloud'[k] # 0 PROVE Accounted(t, k)'
  <2>1. Accounted(t, k)
    BY <1>1, <1>7, <1>10 DEF LeftInv
  <2>2. ~OnRecord(t, k)
    BY <1>1, <1>7, <1>10 DEF OnRecord, Uploading
  <2>3. CASE CleaningUp(k)
    BY <1>8, <2>3 DEF Accounted
  <2>4. CASE Records(worker[t].object, k)
    <3>1. Records(object, k)
      BY <1>4, <1>5, <2>4 DEF Records
    <3>2. Traces(t, k)'
      BY <1>6, <1>7, <1>10, <3>1 DEF Traces, Uploading, Records
    <3> QED BY <3>2 DEF Accounted
  <2> QED BY <1>1, <2>1, <2>2, <2>3, <2>4 DEF Accounted, Traces
<1> QED BY <1>1, <1>6, <1>7, <1>8, <1>9, <1>10, RunAccounts

LEMMA CommitAccounted ==
    ASSUME Typed, NEW t \in Workers, NEW r, LeftInv(t, r), worker[t].id = r, Commit(t)
    PROVE  LeftInv(t, r)'
<1> DEFINE object == worker[t].object
<1>1. /\ worker[t].pc = "committing" /\ r \in Resources
      /\ UNCHANGED <<cloud, queue>> /\ Goes(t, Idle)
      /\ preservation' = [preservation EXCEPT ![r] = object]
  BY RunFields DEF Commit, Typed
<1>2. worker'[t].pc = "idle"
  BY <1>1, IdleLeft DEF Goes, Typed, TypeOK
<1>3. preservation'[r] = object
  BY <1>1 DEF Typed, TypeOK
<1> HIDE DEF object
<1>4. ASSUME NEW k \in Key, k.of = r, cloud'[k] # 0 PROVE Accounted(t, k)'
  <2>1. Accounted(t, k)
    BY <1>1, <1>4 DEF LeftInv
  <2>2. CASE CleaningUp(k)
    BY <1>1, <2>2 DEF Accounted, CleaningUp
  <2>3. CASE ~CleaningUp(k)
    <3>1. Records(object, k)
      BY <1>1, <1>4, <2>1, <2>3 DEF Accounted, Traces, OnRecord, Uploading, object
    <3>2. OnRecord(t, k)'
      BY <1>2, <1>3, <1>4, <3>1 DEF OnRecord, Records, Uploading
    <3> QED BY <3>2 DEF Accounted
  <2> QED BY <2>2, <2>3
<1>5. RunAlone(t)'
  BY <1>2 DEF RunAlone, Uploading
<1> QED BY <1>4, <1>5 DEF LeftInv

\* A job that fails before its uploads has changed nothing.
LEMMA FailAccounted ==
    ASSUME Typed, NEW t \in Workers, NEW r, LeftInv(t, r), Fail(t), worker[t].pc \notin Uploading
    PROVE  LeftInv(t, r)'
<1>1. UNCHANGED <<preservation, cloud>> /\ queue \subseteq queue' /\ Goes(t, Idle)
  BY DEF Fail, Retry
<1>2. worker'[t].pc = "idle"
  BY <1>1, IdleLeft DEF Goes, Typed, TypeOK
<1> QED BY <1>1, <1>2, RestAccounts DEF CleaningUp, Uploading

\* What a step of a run leaves alone.
LEMMA RunStep ==
    ASSUME Typed, NEW v \in Workers, worker[v].pc # "idle", Preserver(v) \/ Fail(v)
    PROVE  /\ \A u \in Workers \ {v} : worker'[u] = worker[u]
           /\ worker'[v].pc = "idle" \/ worker'[v].id = worker[v].id
           /\ \A s \in Resources \ {worker[v].id} : preservation'[s] = preservation[s]
           /\ \A k \in Key : k.of # worker[v].id => cloud'[k] = cloud[k]
           /\ queue \subseteq queue'
           /\ UNCHANGED <<token, complete, place, checksum>>
<1> DEFINE Goal == /\ \A u \in Workers \ {v} : worker'[u] = worker[u]
                   /\ worker'[v].pc = "idle" \/ worker'[v].id = worker[v].id
                   /\ \A s \in Resources \ {worker[v].id} : preservation'[s] = preservation[s]
                   /\ \A k \in Key : k.of # worker[v].id => cloud'[k] = cloud[k]
                   /\ queue \subseteq queue'
                   /\ UNCHANGED <<token, complete, place, checksum>>
<1>1. ASSUME NEW run, Goes(v, run)
      PROVE  (\A u \in Workers \ {v} : worker'[u] = worker[u]) /\ worker'[v] = run
  BY <1>1 DEF Goes, Typed, TypeOK
<1>2. worker[v] \in Run
  BY RunFields DEF Typed
<1>3. ASSUME NEW run, Goes(v, run), run.pc = "idle" \/ run.id = worker[v].id,
             \A s \in Resources \ {worker[v].id} : preservation'[s] = preservation[s],
             \A k \in Key : k.of # worker[v].id => cloud'[k] = cloud[k],
             queue \subseteq queue', UNCHANGED <<token, complete, place, checksum>>
      PROVE  Goal
  BY <1>1, <1>3
<1>4. ASSUME NEW kind, NEW n, cloud' = [cloud EXCEPT ![KeyOf(worker[v].id, place, kind)] = n]
      PROVE  \A k \in Key : k.of # worker[v].id => cloud'[k] = cloud[k]
  BY <1>4, KeyParts DEF Typed, TypeOK
<1>5. CASE Begin(v)
  <2> DEFINE r1 == [worker[v] EXCEPT !.pc = "creating"]
             r2 == [worker[v] EXCEPT !.pc = AfterObject(worker[v].id), !.object = preservation[worker[v].id]]
  <2>1. r1.id = worker[v].id /\ r2.id = worker[v].id
    BY <1>2 DEF Run
  <2>2. UNCHANGED <<preservation, cloud, queue, token, complete, place, checksum>>
    BY <1>5 DEF Begin
  <2>3. Goes(v, Idle) \/ Goes(v, r1) \/ Goes(v, r2)
    BY <1>5 DEF Begin
  <2> HIDE DEF r1, r2
  <2> QED BY <1>3, <2>1, <2>2, <2>3, IdleLeft
<1>6. CASE CreateObject(v)
  <2> DEFINE r1 == [worker[v] EXCEPT !.pc = AfterObject(worker[v].id), !.created = TRUE]
  <2>1. r1.id = worker[v].id
    BY <1>2 DEF Run
  <2>2. UNCHANGED <<preservation, cloud, token, complete, place, checksum>> /\ queue \subseteq queue'
    BY <1>6 DEF CreateObject, Retry
  <2>3. Goes(v, Idle) \/ Goes(v, r1)
    BY <1>6 DEF CreateObject, Retry
  <2> HIDE DEF r1
  <2> QED BY <1>3, <2>1, <2>2, <2>3, IdleLeft
<1>7. CASE PreserveBinary(v)
  <2>1. PICK object : Goes(v, [worker[v] EXCEPT !.pc = "metadata", !.object = object])
    BY <1>7 DEF PreserveBinary
  <2> DEFINE r1 == [worker[v] EXCEPT !.pc = "metadata", !.object = object]
  <2>2. r1.id = worker[v].id
    BY <1>2 DEF Run
  <2>3. UNCHANGED <<preservation, queue, token, complete, place, checksum>>
    BY <1>7 DEF PreserveBinary
  <2>4. cloud' = cloud \/ cloud' = [cloud EXCEPT ![KeyOf(worker[v].id, place, "binary")] = 1]
    BY <1>7 DEF PreserveBinary
  <2>5. Goes(v, r1)
    BY <2>1
  <2> HIDE DEF r1
  <2> QED BY <1>3, <1>4, <2>2, <2>3, <2>4, <2>5
<1>8. CASE PreserveMetadata(v)
  <2>1. PICK pc, l, object : Goes(v, [worker[v] EXCEPT !.pc = pc, !.left = l, !.object = object])
    BY <1>8 DEF PreserveMetadata
  <2> DEFINE r1 == [worker[v] EXCEPT !.pc = pc, !.left = l, !.object = object]
  <2>2. r1.id = worker[v].id
    BY <1>2 DEF Run
  <2>3. UNCHANGED <<preservation, queue, token, complete, place, checksum>>
    BY <1>8 DEF PreserveMetadata
  <2>4. cloud' = [cloud EXCEPT ![KeyOf(worker[v].id, place, "metadata")] = worker[v].token]
    BY <1>8 DEF PreserveMetadata
  <2>5. Goes(v, r1)
    BY <2>1
  <2> HIDE DEF r1
  <2> QED BY <1>3, <1>4, <2>2, <2>3, <2>4, <2>5
<1>9. CASE Reorganize(v)
  <2> DEFINE r1 == [worker[v] EXCEPT !.pc = "saving", !.object = Moved(worker[v])]
  <2>1. r1.id = worker[v].id
    BY <1>2 DEF Run
  <2>2. UNCHANGED <<preservation, token, complete, place, checksum>> /\ queue \subseteq queue'
    BY <1>9 DEF Reorganize
  <2>3. cloud' = cloud \/ cloud' = [cloud EXCEPT ![KeyOf(worker[v].id, place, "binary")] = 1]
    BY <1>9 DEF Reorganize
  <2>4. Goes(v, r1)
    BY <1>9 DEF Reorganize
  <2> HIDE DEF r1
  <2> QED BY <1>3, <1>4, <2>1, <2>2, <2>3, <2>4
<1>10. CASE SaveObject(v)
  <2>1. SavedRun(worker[v]).id = worker[v].id
    BY <1>2 DEF Run, SavedRun
  <2>2. UNCHANGED <<preservation, cloud, token, complete, place, checksum>> /\ queue \subseteq queue'
    BY <1>10 DEF SaveObject, Retry
  <2>3. Goes(v, Idle) \/ Goes(v, SavedRun(worker[v]))
    BY <1>10 DEF SaveObject, Retry
  <2> QED BY <1>3, <2>1, <2>2, <2>3, IdleLeft
<1>11. CASE Commit(v)
  <2>1. preservation' = [preservation EXCEPT ![worker[v].id] = worker[v].object] /\ Goes(v, Idle)
        /\ UNCHANGED <<cloud, queue, token, complete, place, checksum>>
    BY <1>11 DEF Commit
  <2>2. \A s \in Resources \ {worker[v].id} : preservation'[s] = preservation[s]
    BY <2>1 DEF Typed, TypeOK
  <2> QED BY <1>3, <2>1, <2>2, IdleLeft
<1>12. CASE Fail(v)
  <2>1. Goes(v, Idle) /\ queue \subseteq queue'
        /\ UNCHANGED <<preservation, cloud, token, complete, place, checksum>>
    BY <1>12 DEF Fail, Retry
  <2> QED BY <1>3, <2>1, IdleLeft
<1>13. \A j : ~Load(v, j)
  BY DEF Load
<1> QED BY <1>5, <1>6, <1>7, <1>8, <1>9, <1>10, <1>11, <1>12, <1>13 DEF Preserver

\* A job of another resource runs, in this thread or another.
LEMMA OtherAccounted ==
    ASSUME Typed, NEW t \in Workers, NEW r \in Resources, LeftInv(t, r), OthersAway(t, r),
           NEW v \in Workers, worker[v].pc # "idle", worker[v].id # r, Preserver(v) \/ Fail(v)
    PROVE  OthersAway(t, r)' /\ LeftInv(t, r)'
<1>1. /\ \A u \in Workers \ {v} : worker'[u] = worker[u]
      /\ worker'[v].pc = "idle" \/ worker'[v].id # r
      /\ preservation'[r] = preservation[r]
      /\ \A k \in Key : k.of = r => cloud'[k] = cloud[k]
      /\ queue \subseteq queue'
  BY RunStep
<1>2. OthersAway(t, r)'
  BY <1>1 DEF OthersAway
<1>3. worker'[t].id = r => RunAlone(t)'
  BY <1>1 DEF LeftInv, RunAlone, Uploading
<1>4. ASSUME NEW k \in Key, k.of = r, cloud'[k] # 0 PROVE Accounted(t, k)'
  <2>1. Accounted(t, k)
    BY <1>1, <1>4 DEF LeftInv
  <2>2. CleaningUp(k) => CleaningUp(k)'
    BY <1>1 DEF CleaningUp
  <2>3. Traces(t, k) => Traces(t, k)'
    BY <1>1, <1>4 DEF Traces, Records
  <2>4. OnRecord(t, k) => OnRecord(t, k)'
    BY <1>1, <1>4 DEF OnRecord, Records, Uploading
  <2> QED BY <2>1, <2>2, <2>3, <2>4 DEF Accounted
<1> QED BY <1>2, <1>3, <1>4 DEF LeftInv

\* A thread takes a job.  If the job is one of r, this thread now stands for r.
LEMMA LoadTraced ==
    ASSUME Typed, NEW r \in Resources, NothingLost(r), RunsApart(r)',
           NEW v \in Workers, NEW j \in queue, Load(v, j)
    PROVE  NothingLost(r)'
<1>1. PICK t \in Workers : OthersAway(t, r) /\ LeftInv(t, r)
  BY DEF NothingLost
<1>2. CASE v = t
  <2>1. \A u \in Workers \ {t} : worker'[u] = worker[u]
    BY <1>2 DEF Load, Goes, Typed, TypeOK
  <2> QED BY <1>1, <1>2, <2>1, LoadAccounted DEF NothingLost, OthersAway
<1>3. CASE v # t /\ worker'[v].id = r /\ worker'[v].pc # "idle"
  <2>1. /\ UNCHANGED <<preservation, cloud>> /\ worker[v].pc = "idle"
        /\ queue' = queue \ {j} /\ j.job = "PreserveResource"
    BY DEF Load, PreserveResourceJob
  <2>2. worker'[v] = Loaded(j) /\ worker'[t] = worker[t]
    BY <1>3, <2>1 DEF Load, Goes, Typed, TypeOK
  <2>3. worker'[v].pc = "loaded"
    BY <2>2 DEF Loaded, Idle
  <2>4. OthersAway(v, r)'
    BY <1>3, <2>3 DEF OthersAway, RunsApart
  <2>5. worker[t].pc = "idle" \/ worker[t].id # r
    BY <1>3, <2>2, <2>3 DEF RunsApart
  <2>6. RunAlone(v)'
    BY <2>3 DEF RunAlone, Uploading
  <2>7. ASSUME NEW k \in Key, k.of = r, cloud'[k] # 0 PROVE Accounted(v, k)'
    <3>1. CleaningUp(k) \/ Records(preservation[k.of], k)
      BY <1>1, <2>1, <2>5, <2>7 DEF LeftInv, Accounted, Traces, OnRecord, Uploading
    <3>2. CleaningUp(k) => CleaningUp(k)'
      BY <2>1 DEF CleaningUp, Cleanup
    <3>3. Records(preservation[k.of], k) => OnRecord(v, k)'
      BY <2>1, <2>3 DEF OnRecord, Records, Uploading
    <3> QED BY <3>1, <3>2, <3>3 DEF Accounted
  <2> QED BY <2>4, <2>6, <2>7 DEF NothingLost, LeftInv
<1>4. CASE v # t /\ (worker'[v].id # r \/ worker'[v].pc = "idle")
  <2>1. /\ UNCHANGED <<preservation, cloud>> /\ worker[v].pc = "idle"
        /\ queue' = queue \ {j} /\ j.job = "PreserveResource"
        /\ \A u \in Workers \ {v} : worker'[u] = worker[u]
    BY DEF Load, PreserveResourceJob, Goes, Typed, TypeOK
  <2>2. OthersAway(t, r)'
    BY <1>1, <1>4, <2>1 DEF OthersAway
  <2>3. \A k \in Key : CleaningUp(k) => CleaningUp(k)'
    BY <2>1 DEF CleaningUp, Cleanup
  <2>4. worker'[t] = worker[t]
    BY <1>4, <2>1
  <2>5. LeftInv(t, r)'
    BY <1>1, <2>1, <2>3, <2>4 DEF LeftInv, RunAlone, Accounted, Traces, OnRecord, Records
  <2> QED BY <2>2, <2>5 DEF NothingLost
<1> QED BY <1>2, <1>3, <1>4

LEMMA NothingLostStep ==
    ASSUME NEW r \in Resources, IInv, NothingLost(r), RunsApart(r), RunsApart(r)', [Next]_vars,
           [UploadsEnd(r)]_vars
    PROVE  NothingLost(r)'
<1>1. Typed
  BY DEF IInv
<1>2. PICK t \in Workers : OthersAway(t, r) /\ LeftInv(t, r)
  BY DEF NothingLost
<1>3. ASSUME LeftInv(t, r)', UNCHANGED worker PROVE NothingLost(r)'
  BY <1>2, <1>3 DEF NothingLost, OthersAway
<1>4. CASE Saves
  BY <1>2, <1>3, <1>4, SavesAccounted, SavesLeave
<1>5. CASE ShortJobs
  <2>1. UNCHANGED worker
    BY <1>5 DEF ShortJobs, Characterize, CreateDerivatives, PreserveMembers, CleanupFiles
  <2> QED BY <1>1, <1>2, <1>3, <1>5, <2>1, ShortJobsAccounted
<1>6. ASSUME NEW v \in Workers, NEW j \in queue, Load(v, j) PROVE NothingLost(r)'
  BY <1>1, <1>6, LoadTraced
<1>7. ASSUME NEW v \in Workers, worker[v].pc # "idle", Preserver(v) \/ Fail(v) PROVE NothingLost(r)'
  <2>1. CASE worker[v].id # r
    BY <1>1, <1>2, <1>7, <2>1, OtherAccounted DEF NothingLost
  <2>2. CASE worker[v].id = r
    <3>1. v = t
      BY <1>2, <1>7, <2>2 DEF OthersAway
    <3>2. OthersAway(t, r)'
      BY <1>1, <1>2, <1>7, <3>1, RunStep DEF OthersAway
    <3>3. ASSUME Begin(t) PROVE LeftInv(t, r)'
      <4>1. ~worker[t].created
        BY <1>1, <3>3 DEF Begin, IInv, Consistent, Uploading
      <4> QED BY <1>1, <1>2, <2>2, <3>1, <3>3, <4>1, BeginAccounted
    <3>4. ASSUME Fail(t) PROVE LeftInv(t, r)'
      <4>1. worker' # worker
        BY <1>1, <1>7, <3>1, <3>4, IdleLeft DEF Fail, Retry, Goes, Typed, TypeOK
      <4>2. worker[t].pc \notin Uploading
        BY <2>2, <3>1, <3>4, <4>1 DEF UploadsEnd, vars
      <4> QED BY <1>1, <1>2, <3>4, <4>2, FailAccounted
    <3>5. \A j : ~Load(t, j)
      BY <1>7, <3>1 DEF Load
    <3>6. LeftInv(t, r)'
      BY <1>1, <1>2, <1>7, <2>2, <3>1, <3>3, <3>4, <3>5, CreateAccounted, BinaryAccounted,
         MetadataAccounted, ReorganizeAccounted, SaveObjectAccounted, CommitAccounted DEF Preserver
    <3> QED BY <3>2, <3>6 DEF NothingLost
  <2> QED BY <2>1, <2>2
<1>8. CASE UNCHANGED vars
  <2>1. LeftInv(t, r)'
    BY <1>2, <1>8, SameAccounts DEF vars, CleaningUp
  <2> QED BY <1>3, <1>8, <2>1 DEF vars
<1>9. \A v \in Workers : Preserver(v) /\ worker[v].pc = "idle" => \E j \in queue : Load(v, j)
  BY DEF Preserver, Begin, CreateObject, PreserveBinary, PreserveMetadata, Reorganize, SaveObject, Commit
<1>10. \A v \in Workers : Fail(v) => worker[v].pc # "idle"
  BY DEF Fail
<1> QED BY <1>4, <1>5, <1>6, <1>7, <1>8, <1>9, <1>10 DEF Next

LEMMA NothingLostInit ==
    ASSUME NEW r \in Resources, Workers # {}, Init
    PROVE  NothingLost(r)
<1>1. \A t \in Workers : worker[t] = Idle /\ \A k \in Key : cloud[k] = 0
  BY DEF Init
<1> QED BY <1>1, IdleLeft DEF NothingLost, OthersAway, LeftInv, RunAlone, Uploading

\* At rest every file of r that is in the cloud is on record.
AllOnRecord(r) == Quiet => \A k \in Key : k.of = r /\ cloud[k] # 0 => Records(preservation[r], k)

LEMMA LostIsRecorded ==
    ASSUME NEW r, NothingLost(r)
    PROVE  AllOnRecord(r)
<1> SUFFICES ASSUME Quiet, NEW k \in Key, k.of = r, cloud[k] # 0
             PROVE  Records(preservation[k.of], k)
  BY DEF AllOnRecord
<1>1. PICK t \in Workers : LeftInv(t, r)
  BY DEF NothingLost
<1>2. worker[t].pc \notin Uploading /\ queue = {}
  BY DEF Quiet, Uploading
<1> QED BY <1>1, <1>2, AtRest DEF LeftInv, CleaningUp

\* No file of a resource stays in the cloud that no record names, however many
\* threads there are and however often the work moves, is taken down and saved,
\* unless two jobs of this resource overlap or one fails after it has begun to
\* upload: the Preserver hands every path that it gives up to a CleanupFilesJob.
THEOREM NothingOfStays ==
    ASSUME NEW CONSTANT r \in Resources, Workers # {}
    PROVE  Spec /\ []RunsApart(r) /\ [][UploadsEnd(r)]_vars => []AllOnRecord(r)
<1>1. Init => NothingLost(r)
  BY NothingLostInit
<1>2. /\ IInv /\ NothingLost(r) /\ RunsApart(r) /\ RunsApart(r)'
      /\ [Next]_vars /\ [UploadsEnd(r)]_vars
      => NothingLost(r)'
  BY NothingLostStep
<1>3. NothingLost(r) => AllOnRecord(r)
  BY LostIsRecorded
<1> QED BY <1>1, <1>2, <1>3, IInvInit, IInvStep, PTL DEF Spec

RunsAllApart == \A r \in Resources : RunsApart(r)

UploadsAllEnd == \A r \in Resources : UploadsEnd(r)

\* Without overlaps and failures of that kind nothing at all is left behind.
THEOREM NothingStays ==
    ASSUME Workers # {}
    PROVE  Spec /\ []RunsAllApart /\ [][UploadsAllEnd]_vars => []NothingLeftBehind
<1> DEFINE Lost == \A r \in Resources : NothingLost(r)
<1>1. Init => Lost
  BY NothingLostInit
<1>2. IInv /\ Lost /\ RunsAllApart /\ RunsAllApart' /\ [Next]_vars /\ [UploadsAllEnd]_vars => Lost'
  <2> SUFFICES ASSUME IInv, Lost, RunsAllApart, RunsAllApart', [Next]_vars, [UploadsAllEnd]_vars,
                      NEW r \in Resources
               PROVE  NothingLost(r)'
    OBVIOUS
  <2>1. NothingLost(r) /\ RunsApart(r) /\ RunsApart(r)'
    BY DEF RunsAllApart
  <2>2. [UploadsEnd(r)]_vars
    BY DEF UploadsAllEnd
  <2> QED BY <2>1, <2>2, NothingLostStep
<1>3. Lost => NothingLeftBehind
  <2> SUFFICES ASSUME Lost, Quiet, NEW k \in Key, cloud[k] # 0
               PROVE  Records(preservation[k.of], k)
    BY DEF NothingLeftBehind, Records
  <2> QED BY KeyParts, LostIsRecorded DEF AllOnRecord
<1> HIDE DEF Lost
<1> QED BY <1>1, <1>2, <1>3, IInvInit, IInvStep, PTL DEF Spec
-----------------------------------------------------------------------------
(***************************************************************************)
(* With any number of threads, errors and moves: a record of the current   *)
(* version of a characterized file set names its binary, for the version   *)
(* counts up when the file set is characterized.                           *)
(***************************************************************************)
RecordBacked(f) ==
    preservation[f] # NoObject =>
        /\ preservation[f].version <= token[f]
        /\ preservation[f].version = token[f] /\ checksum[f] => preservation[f].binary # NoPlace

\* A run knows of the characterization unless it is outdated, and has dealt
\* with the binary before it goes on to the metadata.
RunBacked(run) ==
    /\ run.pc # "idle" => run.token <= token[run.id]
    /\ run.pc # "idle" /\ run.id # Work =>
         /\ run.token = token[run.id] => run.checksum = checksum[run.id]
         /\ run.pc \in {"metadata", "moved", "saving", "committing"} /\ run.checksum
              => run.object.binary # NoPlace
         /\ run.pc = "committing" => run.object.version = run.token

\* The jobs do not come from the future.
JobBacked(j) == j.job = "PreserveResource" => j.token <= token[j.id]

BinaryInv == /\ \A j \in queue : JobBacked(j)
             /\ \A f \in FileSets : RecordBacked(f)
             /\ \A w \in Workers : RunBacked(worker[w])

\* What touches no run and no record, and counts up the token of
\* whatever file set it changes.
LEMMA LaterBacked ==
    ASSUME Typed, Typed', BinaryInv, UNCHANGED <<worker, preservation>>,
           \A f \in FileSets : token'[f] > token[f] \/ (token'[f] = token[f] /\ checksum'[f] = checksum[f]),
           \A r \in Resources : token'[r] >= token[r],
           \A j \in queue' : JobBacked(j)'
    PROVE  BinaryInv'
<1>1. ASSUME NEW f \in FileSets PROVE token[f] \in Nat /\ token'[f] \in Nat
  BY DEF Typed, TypeOK, Resources
<1>2. ASSUME NEW f \in FileSets PROVE RecordBacked(f)'
  <2>1. CASE preservation[f] = NoObject
    BY <2>1 DEF RecordBacked
  <2>2. CASE preservation[f] # NoObject
    <3>1. preservation[f].version \in Nat
      BY <2>2 DEF Typed, TypeOK, Resources, PreservationObject
    <3>2. RecordBacked(f)
      BY DEF BinaryInv
    <3>4. preservation[f].version <= token'[f]
      BY <1>1, <2>2, <3>1, <3>2 DEF RecordBacked
    <3>5. preservation[f].version = token'[f] => token'[f] = token[f] /\ checksum'[f] = checksum[f]
      BY <1>1, <2>2, <3>1, <3>2 DEF RecordBacked
    <3> QED BY <2>2, <3>2, <3>4, <3>5 DEF RecordBacked
  <2> QED BY <2>1, <2>2
<1>3. ASSUME NEW w \in Workers PROVE RunBacked(worker[w])'
  <2>1. CASE worker[w].pc = "idle"
    BY <2>1 DEF RunBacked
  <2>2. CASE worker[w].pc # "idle"
    <3>0. worker[w].id \in Resources /\ worker[w].token \in Nat
          /\ (worker[w].id # Work => worker[w].id \in FileSets)
      BY RunFields DEF Typed, Resources
    <3>1. token[worker[w].id] \in Nat /\ token'[worker[w].id] \in Nat
          /\ token'[worker[w].id] >= token[worker[w].id]
      BY <3>0 DEF Typed, TypeOK
    <3>2. RunBacked(worker[w])
      BY DEF BinaryInv
    <3>3. worker[w].token <= token'[worker[w].id]
      BY <2>2, <3>0, <3>1, <3>2 DEF RunBacked
    <3>4. CASE worker[w].id = Work
      BY <3>3, <3>4 DEF RunBacked
    <3>5. CASE worker[w].id # Work
      <4>2. worker[w].token = token'[worker[w].id] =>
              token'[worker[w].id] = token[worker[w].id] /\ checksum'[worker[w].id] = checksum[worker[w].id]
        BY <2>2, <3>0, <3>1, <3>2, <3>5 DEF RunBacked
      <4> QED BY <2>2, <3>2, <3>3, <3>5, <4>2 DEF RunBacked
    <3> QED BY <3>4, <3>5
  <2> QED BY <2>1, <2>2
<1> QED BY <1>2, <1>3 DEF BinaryInv

LEMMA JobBackedLater ==
    ASSUME Typed, NEW j \in queue, JobBacked(j), \A r \in Resources : token'[r] >= token[r], Typed'
    PROVE  JobBacked(j)'
<1>1. CASE j.job # "PreserveResource"
  BY <1>1 DEF JobBacked
<1>2. CASE j.job = "PreserveResource"
  <2>1. j \in PreserveResourceJob
    BY <1>2 DEF Typed, TypeOK, Jobs, PreserveChildrenJob, CleanupFilesJob, FileSetJob
  <2>2. j.id \in Resources /\ j.token \in Nat
    BY <2>1 DEF PreserveResourceJob
  <2>3. token[j.id] \in Nat /\ token'[j.id] \in Nat /\ token'[j.id] >= token[j.id]
    BY <2>2 DEF Typed, TypeOK
  <2>4. j.token <= token'[j.id]
    BY <1>2, <2>2, <2>3 DEF JobBacked
  <2> QED BY <1>2, <2>4 DEF JobBacked
<1> QED BY <1>1, <1>2

\* Jobs that are queued for resources as they are.
LEMMA NewJobsBacked ==
    ASSUME Typed'
    PROVE  /\ \A r \in Resources, t \in Nat : \A by : t <= token'[r] => JobBacked(Preserve(r, t, by))'
           /\ \A u : JobBacked(PreserveChildren(u))'
           /\ \A f : JobBacked(Characterization(f))' /\ JobBacked(Derivatives(f))'
BY DEF JobBacked, Preserve, PreserveChildren, Characterization, Derivatives

LEMMA SaveBacked ==
    ASSUME Typed, Typed', BinaryInv, UNCHANGED <<worker, preservation, checksum>>,
           \A r \in Resources : token'[r] = token[r] \/ token'[r] > token[r],
           \A j \in queue' \ queue : JobBacked(j)'
    PROVE  BinaryInv'
<1>1. \A r \in Resources : token[r] \in Nat /\ token'[r] \in Nat
  BY DEF Typed, TypeOK
<1>2. \A r \in Resources : token'[r] >= token[r]
  BY <1>1
<1>3. \A j \in queue' : JobBacked(j)'
  BY <1>2, JobBackedLater DEF BinaryInv
<1>4. \A f \in FileSets : token'[f] > token[f] \/ (token'[f] = token[f] /\ checksum'[f] = checksum[f])
  BY DEF Resources
<1> QED BY <1>2, <1>3, <1>4, LaterBacked

\* The jobs of a save of the work and of a file set.
LEMMA SaveJobsBacked ==
    ASSUME Typed'
    PROVE  /\ \A c, p : \A j \in WorkJobs(token'[Work], c, p) : JobBacked(j)'
           /\ \A f \in FileSets : \A j \in FileSetJobs(f, token'[f]) : JobBacked(j)'
<1>1. /\ Work \in Resources /\ token'[Work] \in Nat
      /\ \A f \in FileSets : f \in Resources /\ token'[f] \in Nat
  BY DEF Resources, Typed, TypeOK
<1>2. ASSUME NEW c, NEW p, NEW j \in WorkJobs(token'[Work], c, p) PROVE JobBacked(j)'
  <2>1. PICK n \in Nat : n = token'[Work]
    BY <1>1
  <2>2. j = Preserve(Work, n, "save")
    BY <1>2, <2>1 DEF WorkJobs
  <2>3. n <= token'[Work]
    BY <2>1
  <2> QED BY <1>1, <2>2, <2>3 DEF JobBacked, Preserve
<1>3. ASSUME NEW f \in FileSets, NEW j \in FileSetJobs(f, token'[f]) PROVE JobBacked(j)'
  <2>1. PICK n \in Nat : n = token'[f]
    BY <1>1
  <2>2. j = Preserve(f, n, "save")
    BY <1>3, <2>1 DEF FileSetJobs
  <2>3. n <= token'[f]
    BY <2>1
  <2> QED BY <1>1, <2>2, <2>3 DEF JobBacked, Preserve
<1> QED BY <1>2, <1>3

LEMMA SavesBacked ==
    ASSUME Typed, Typed', BinaryInv, Saves
    PROVE  BinaryInv'
<1>0. Work \in Resources /\ FileSets \subseteq Resources
  BY DEF Resources
<1>1. CASE SaveWork
  <2>1. /\ token' = [token EXCEPT ![Work] = @ + 1]
        /\ queue' = queue \cup WorkJobs(token'[Work], complete', place)
        /\ UNCHANGED <<worker, preservation, checksum>>
    BY <1>1 DEF SaveWork
  <2>2. \A r \in Resources : token[r] \in Nat /\ token'[r] = IF r = Work THEN token[r] + 1 ELSE token[r]
    BY <1>0, <2>1 DEF Typed, TypeOK
  <2>3. \A r \in Resources : token'[r] = token[r] \/ token'[r] > token[r]
    BY <2>2
  <2>4. \A j \in queue' \ queue : JobBacked(j)'
    BY <2>1, SaveJobsBacked
  <2> QED BY <2>1, <2>3, <2>4, SaveBacked
<1>2. CASE TakeDown
  <2>1. /\ token' = [token EXCEPT ![Work] = @ + 1]
        /\ queue' = queue \cup WorkJobs(token'[Work], FALSE, place)
        /\ UNCHANGED <<worker, preservation, checksum>>
    BY <1>2 DEF TakeDown
  <2>2. \A r \in Resources : token[r] \in Nat /\ token'[r] = IF r = Work THEN token[r] + 1 ELSE token[r]
    BY <1>0, <2>1 DEF Typed, TypeOK
  <2>3. \A r \in Resources : token'[r] = token[r] \/ token'[r] > token[r]
    BY <2>2
  <2>4. \A j \in queue' \ queue : JobBacked(j)'
    BY <2>1, SaveJobsBacked
  <2> QED BY <2>1, <2>3, <2>4, SaveBacked
<1>3. ASSUME NEW p \in Parents, Move(p) PROVE BinaryInv'
  <2>1. /\ token' = [token EXCEPT ![Work] = @ + 1]
        /\ queue' = queue \cup WorkJobs(token'[Work], complete, p)
        /\ UNCHANGED <<worker, preservation, checksum>>
    BY <1>3 DEF Move
  <2>2. \A r \in Resources : token[r] \in Nat /\ token'[r] = IF r = Work THEN token[r] + 1 ELSE token[r]
    BY <1>0, <2>1 DEF Typed, TypeOK
  <2>3. \A r \in Resources : token'[r] = token[r] \/ token'[r] > token[r]
    BY <2>2
  <2>4. \A j \in queue' \ queue : JobBacked(j)'
    BY <2>1, SaveJobsBacked
  <2> QED BY <2>1, <2>3, <2>4, SaveBacked
<1>4. ASSUME NEW f \in FileSets, AddFileSet(f) PROVE BinaryInv'
  <2>1. /\ token' = [token EXCEPT ![f] = 1, ![Work] = @ + 1] /\ token[f] = 0
        /\ queue' = queue \cup {Characterization(f)} \cup FileSetJobs(f, 1)
                      \cup WorkJobs(token'[Work], complete, place)
        /\ UNCHANGED <<worker, preservation, checksum>>
    BY <1>4 DEF AddFileSet
  <2>2. f # Work
    BY PreservationAssumption
  <2>3. /\ \A r \in Resources : token[r] \in Nat
        /\ token'[f] = 1 /\ token'[Work] = token[Work] + 1
        /\ \A r \in Resources : r # f /\ r # Work => token'[r] = token[r]
    BY <1>0, <2>1, <2>2 DEF Typed, TypeOK
  <2>9. token[Work] \in Nat /\ token'[Work] > token[Work] /\ token'[f] > token[f]
    BY <1>0, <2>1, <2>3
  <2>4. \A r \in Resources : token'[r] = token[r] \/ token'[r] > token[r]
    BY <2>3, <2>9
  <2>5. \A j \in WorkJobs(token'[Work], complete, place) : JobBacked(j)'
    BY SaveJobsBacked
  <2>6. \A j \in FileSetJobs(f, token'[f]) : JobBacked(j)'
    BY SaveJobsBacked
  <2>7. JobBacked(Characterization(f))'
    BY NewJobsBacked
  <2>8. \A j \in queue' \ queue : JobBacked(j)'
    BY <2>1, <2>3, <2>5, <2>6, <2>7
  <2> QED BY <2>1, <2>4, <2>8, SaveBacked
<1> QED BY <1>1, <1>2, <1>3, <1>4 DEF Saves

LEMMA ShortJobsBacked ==
    ASSUME Typed, Typed', BinaryInv, ShortJobs
    PROVE  BinaryInv'
<1>0. /\ Work \in Resources /\ FileSets \subseteq Resources
      /\ \A r \in Resources : token[r] \in Nat /\ token'[r] \in Nat
  BY DEF Resources, Typed, TypeOK
<1>1. ASSUME NEW f \in FileSets, Characterize(f) PROVE BinaryInv'
  <2>1. /\ token' = [token EXCEPT ![f] = @ + 1] /\ checksum' = [checksum EXCEPT ![f] = TRUE]
        /\ queue' = (queue \ {Characterization(f)}) \cup {Derivatives(f)}
        /\ UNCHANGED <<worker, preservation>>
    BY <1>1 DEF Characterize
  <2>2. \A r \in Resources : token'[r] = IF r = f THEN token[r] + 1 ELSE token[r]
    BY <1>0, <2>1 DEF Typed, TypeOK
  <2>3. \A r \in Resources : token'[r] >= token[r]
    BY <1>0, <2>2
  <2>4. \A g \in FileSets : token'[g] > token[g] \/ (token'[g] = token[g] /\ checksum'[g] = checksum[g])
    <3>1. token'[f] > token[f]
      BY <1>0, <2>2
    <3>2. \A g \in FileSets : g # f => token'[g] = token[g] /\ checksum'[g] = checksum[g]
      BY <1>0, <2>1, <2>2 DEF Typed, TypeOK
    <3> QED BY <3>1, <3>2
  <2>5. \A j \in queue : JobBacked(j)'
    BY <2>3, JobBackedLater DEF BinaryInv
  <2>6. \A j \in queue' : JobBacked(j)'
    BY <2>1, <2>5, NewJobsBacked
  <2> QED BY <2>1, <2>3, <2>4, <2>6, LaterBacked
<1>2. ASSUME NEW f \in FileSets, CreateDerivatives(f) PROVE BinaryInv'
  <2>1. /\ token' = [token EXCEPT ![f] = @ + 1]
        /\ queue' = (queue \ {Derivatives(f)}) \cup FileSetJobs(f, token'[f])
        /\ UNCHANGED <<worker, preservation, checksum>>
    BY <1>2 DEF CreateDerivatives
  <2>2. \A r \in Resources : token'[r] = IF r = f THEN token[r] + 1 ELSE token[r]
    BY <1>0, <2>1 DEF Typed, TypeOK
  <2>3. \A r \in Resources : token'[r] = token[r] \/ token'[r] > token[r]
    BY <1>0, <2>2
  <2>4. \A j \in queue' \ queue : JobBacked(j)'
    BY <2>1, SaveJobsBacked
  <2> QED BY <2>1, <2>3, <2>4, SaveBacked
<1>3. ASSUME NEW u \in BOOLEAN, PreserveMembers(u) PROVE BinaryInv'
  <2>1. UNCHANGED <<token, worker, preservation, checksum>>
    BY <1>3 DEF PreserveMembers
  <2>2. ASSUME NEW j \in queue' \ queue PROVE JobBacked(j)'
    <3>1. PICK f \in FileSets : j = Preserve(f, token[f], "parent")
      BY <1>3, <2>2 DEF PreserveMembers, NeverPreserved, Members
    <3>2. PICK n \in Nat : n = token[f]
      BY <1>0
    <3>3. j = Preserve(f, n, "parent") /\ n <= token'[f]
      BY <2>1, <3>1, <3>2
    <3> QED BY <3>3 DEF JobBacked, Preserve
  <2> QED BY <2>1, <2>2, SaveBacked
<1>4. ASSUME NEW k \in Key, CleanupFiles(k) PROVE BinaryInv'
  <2>1. queue' \subseteq queue /\ UNCHANGED <<token, worker, preservation, checksum>>
    BY <1>4 DEF CleanupFiles
  <2> QED BY <2>1, SaveBacked
<1> QED BY <1>1, <1>2, <1>3, <1>4 DEF ShortJobs

\* A thread goes on with a run that is backed.
LEMMA RunStepBacked ==
    ASSUME Typed, BinaryInv, UNCHANGED <<token, checksum, preservation>>,
           NEW w \in Workers, NEW run, Goes(w, run), RunBacked(run)',
           \A j \in queue' \ queue : JobBacked(j)'
    PROVE  BinaryInv'
<1>2. ASSUME NEW f \in FileSets PROVE RecordBacked(f)'
  BY DEF BinaryInv, RecordBacked
<1>3. ASSUME NEW v \in Workers \ {w} PROVE RunBacked(worker[v])'
  <2>1. worker'[v] = worker[v] /\ RunBacked(worker[v])
    BY DEF Goes, Typed, TypeOK, BinaryInv
  <2> QED BY <2>1 DEF RunBacked
<1>4. RunBacked(worker[w])'
  <2>1. worker'[w] = run
    BY DEF Goes, Typed, TypeOK
  <2> QED BY <2>1 DEF RunBacked
<1>5. \A j \in queue' : JobBacked(j)'
  BY DEF BinaryInv, JobBacked
<1> QED BY <1>2, <1>3, <1>4, <1>5 DEF BinaryInv

LEMMA IdleBacked ==
    ASSUME Typed, BinaryInv, UNCHANGED <<token, checksum, preservation>>,
           NEW w \in Workers, Goes(w, Idle),
           \A j \in queue' \ queue : JobBacked(j)'
    PROVE  BinaryInv'
<1>1. RunBacked(Idle)'
  BY IdleLeft DEF RunBacked, Idle
<1> QED BY <1>1, RunStepBacked

LEMMA RetryBacked ==
    ASSUME Typed, BinaryInv, UNCHANGED <<token, checksum, preservation>>,
           NEW w \in Workers, Retry(w), worker[w].token <= token[worker[w].id]
    PROVE  BinaryInv'
<1>1. JobBacked(Preserve(worker[w].id, worker[w].token, worker[w].by))
  BY DEF JobBacked, Preserve
<1>2. \A j \in queue' \ queue : JobBacked(j)'
  BY <1>1 DEF Retry, JobBacked
<1> QED BY <1>2, IdleBacked DEF Retry

LEMMA LoadBacked ==
    ASSUME Typed, BinaryInv, NEW w \in Workers, NEW j \in queue, Load(w, j)
    PROVE  BinaryInv'
<1>1. /\ j \in PreserveResourceJob /\ queue' = queue \ {j}
      /\ UNCHANGED <<token, checksum, preservation>>
  BY DEF Load
<1>2. CASE token[j.id] # j.token
  <2>1. UNCHANGED worker
    BY <1>2 DEF Load
  <2> QED BY <1>1, <2>1 DEF BinaryInv, RecordBacked, RunBacked, JobBacked
<1>3. CASE token[j.id] = j.token
  <2>1. PICK run : run = Loaded(j)
    OBVIOUS
  <2>2. /\ Goes(w, run) /\ run.pc = "loaded" /\ run.id = j.id /\ run.token = j.token
        /\ run.checksum = (j.id # Work /\ checksum[j.id])
    BY <1>3, <2>1 DEF Load, Loaded, Idle
  <2>3. j.id \in Resources /\ j.token \in Nat
    BY <1>1 DEF PreserveResourceJob
  <2>4. run.id # Work => run.checksum = checksum[run.id]
    BY <2>2, <2>3 DEF Typed, TypeOK, Resources
  <2>6. RunBacked(run)'
    BY <1>1, <1>3, <2>2, <2>3, <2>4 DEF RunBacked
  <2> QED BY <1>1, <2>2, <2>6, RunStepBacked
<1> QED BY <1>2, <1>3

LEMMA BeginBacked ==
    ASSUME Typed, BinaryInv, NEW w \in Workers, Begin(w)
    PROVE  BinaryInv'
<1> DEFINE found == preservation[worker[w].id]
           r1 == [worker[w] EXCEPT !.pc = "creating"]
           r2 == [worker[w] EXCEPT !.pc = AfterObject(worker[w].id), !.object = found]
<1>1. /\ worker[w] \in Run /\ worker[w].pc = "loaded" /\ worker[w].id \in Resources
      /\ UNCHANGED <<token, checksum, preservation, queue>>
  BY RunFields DEF Begin, Typed
<1>2. RunBacked(worker[w])
  BY DEF BinaryInv
<1>3. CASE Goes(w, Idle)
  BY <1>1, <1>3, IdleBacked
<1>4. CASE Goes(w, r1)
  <2>1. PICK run : run = r1
    OBVIOUS
  <2>2. /\ run.pc = "creating" /\ run.id = worker[w].id /\ run.token = worker[w].token
        /\ run.checksum = worker[w].checksum /\ run.object = worker[w].object
    BY <1>1, <2>1 DEF Run
  <2>3. RunBacked(run)'
    BY <1>1, <1>2, <2>2 DEF RunBacked
  <2> QED BY <1>1, <1>4, <2>1, <2>3, RunStepBacked
<1>5. CASE found # NoObject /\ Goes(w, r2)
  <2>1. PICK run : run = r2
    OBVIOUS
  <2>2. /\ run.pc = AfterObject(worker[w].id) /\ run.id = worker[w].id /\ run.token = worker[w].token
        /\ run.checksum = worker[w].checksum /\ run.object = found
    BY <1>1, <2>1 DEF Run
  <2>3. run.id # Work => run.pc = "binary"
    BY <2>2 DEF AfterObject
  <2>4. run.pc # "idle"
    BY <2>2 DEF AfterObject
  <2>6. RunBacked(run)'
    BY <1>1, <1>2, <2>2, <2>3, <2>4 DEF RunBacked
  <2>7. Goes(w, run)
    BY <1>5, <2>1
  <2> QED BY <1>1, <2>6, <2>7, RunStepBacked
<1> QED BY <1>3, <1>4, <1>5 DEF Begin

LEMMA CreateBacked ==
    ASSUME Typed, BinaryInv, NEW w \in Workers, CreateObject(w)
    PROVE  BinaryInv'
<1> DEFINE r1 == [worker[w] EXCEPT !.pc = AfterObject(worker[w].id), !.created = TRUE]
<1>1. /\ worker[w] \in Run /\ worker[w].pc = "creating"
      /\ UNCHANGED <<token, checksum, preservation>>
  BY RunFields DEF CreateObject, Typed
<1>2. RunBacked(worker[w])
  BY DEF BinaryInv
<1>3. CASE Retry(w)
  BY <1>1, <1>2, <1>3, RetryBacked DEF RunBacked
<1>4. CASE Goes(w, r1) /\ UNCHANGED queue
  <2>1. PICK run : run = r1
    OBVIOUS
  <2>2. /\ run.pc = AfterObject(worker[w].id) /\ run.id = worker[w].id /\ run.token = worker[w].token
        /\ run.checksum = worker[w].checksum /\ run.object = worker[w].object
    BY <1>1, <2>1 DEF Run
  <2>3. /\ run.id # Work => run.pc = "binary"
        /\ run.pc # "idle"
    BY <2>2 DEF AfterObject
  <2>4. RunBacked(run)'
    BY <1>1, <1>2, <2>2, <2>3 DEF RunBacked
  <2>5. Goes(w, run)
    BY <1>4, <2>1
  <2> QED BY <1>1, <1>4, <2>4, <2>5, RunStepBacked
<1> QED BY <1>3, <1>4 DEF CreateObject

LEMMA BinaryBacked ==
    ASSUME Typed, BinaryInv, NEW w \in Workers, PreserveBinary(w)
    PROVE  BinaryInv'
<1> DEFINE p == IF worker[w].checksum /\ worker[w].object.binary = NoPlace
                  THEN place ELSE worker[w].object.binary
           object == [worker[w].object EXCEPT !.binary = p]
           r1 == [worker[w] EXCEPT !.pc = "metadata", !.object = object]
<1>1. /\ worker[w] \in Run /\ worker[w].pc = "binary" /\ worker[w].object \in PreservationObject
      /\ place \in Places /\ place # NoPlace
      /\ UNCHANGED <<token, checksum, preservation, queue>> /\ Goes(w, r1)
  BY RunFields, PreservationAssumption DEF PreserveBinary, Typed, Places
<1>2. object.binary = p
  BY <1>1 DEF PreservationObject
<1>3. RunBacked(worker[w])
  BY DEF BinaryInv
<1>4. PICK run : run = r1
  OBVIOUS
<1> HIDE DEF object
<1>5. /\ run.pc = "metadata" /\ run.id = worker[w].id /\ run.token = worker[w].token
      /\ run.checksum = worker[w].checksum /\ run.object = object
  BY <1>1, <1>4 DEF Run
<1>6. run.checksum => run.object.binary # NoPlace
  BY <1>1, <1>2, <1>5
<1>7. RunBacked(run)'
  BY <1>1, <1>3, <1>5, <1>6 DEF RunBacked
<1>8. Goes(w, run)
  BY <1>1, <1>4
<1> QED BY <1>1, <1>7, <1>8, RunStepBacked

LEMMA MetadataBacked ==
    ASSUME Typed, BinaryInv, NEW w \in Workers, PreserveMetadata(w)
    PROVE  BinaryInv'
<1> DEFINE moved == worker[w].object.metadata \notin {NoPlace, place}
           object == [worker[w].object EXCEPT !.metadata = place]
           pc == IF moved THEN "moved" ELSE "saving"
           left == IF moved THEN worker[w].object.metadata ELSE NoPlace
           r1 == [worker[w] EXCEPT !.pc = pc, !.left = left, !.object = object]
<1>1. /\ worker[w] \in Run /\ worker[w].pc = "metadata" /\ worker[w].object \in PreservationObject
      /\ UNCHANGED <<token, checksum, preservation, queue>> /\ Goes(w, r1)
  BY RunFields DEF PreserveMetadata, Typed
<1>2. object.binary = worker[w].object.binary
  BY <1>1 DEF PreservationObject
<1>3. RunBacked(worker[w])
  BY DEF BinaryInv
<1>4. PICK run : run = r1
  OBVIOUS
<1>5. pc \in {"moved", "saving"}
  OBVIOUS
<1> HIDE DEF object, pc, left, moved
<1>6. /\ run.pc = pc /\ run.id = worker[w].id /\ run.token = worker[w].token
      /\ run.checksum = worker[w].checksum /\ run.object = object
  BY <1>1, <1>4 DEF Run
<1>7. run.id # Work /\ run.checksum => run.object.binary # NoPlace
  BY <1>1, <1>2, <1>3, <1>6 DEF RunBacked
<1>8. RunBacked(run)'
  BY <1>1, <1>3, <1>5, <1>6, <1>7 DEF RunBacked
<1>9. Goes(w, run)
  BY <1>1, <1>4
<1> QED BY <1>1, <1>8, <1>9, RunStepBacked

\* After a move the binary, if it is known, is recorded at the new place.
LEMMA ReorganizeBacked ==
    ASSUME Typed, BinaryInv, NEW w \in Workers, Reorganize(w)
    PROVE  BinaryInv'
<1> DEFINE r1 == [worker[w] EXCEPT !.pc = "saving", !.object = Moved(worker[w])]
<1>1. /\ worker[w] \in Run /\ worker[w].pc = "moved" /\ worker[w].object \in PreservationObject
      /\ place \in Places /\ place # NoPlace
      /\ UNCHANGED <<token, checksum, preservation>> /\ Goes(w, r1)
  BY RunFields, PreservationAssumption DEF Reorganize, Typed, Places
<1>2. RunBacked(worker[w])
  BY DEF BinaryInv
<1>3. worker[w].checksum => Moved(worker[w]).binary = place
  BY <1>1 DEF Moved, PreservationObject
<1>4. \A j \in queue' \ queue : JobBacked(j)'
  <2>1. \A r, p, kind : JobBacked(Cleanup(r, p, kind))'
    BY DEF JobBacked, Cleanup
  <2> QED BY <2>1 DEF Reorganize
<1>5. PICK run : run = r1
  OBVIOUS
<1>6. /\ run.pc = "saving" /\ run.id = worker[w].id /\ run.token = worker[w].token
      /\ run.checksum = worker[w].checksum /\ run.object = Moved(worker[w])
  BY <1>1, <1>5 DEF Run
<1>7. RunBacked(run)'
  BY <1>1, <1>2, <1>3, <1>6 DEF RunBacked
<1>8. Goes(w, run)
  BY <1>1, <1>5
<1> QED BY <1>1, <1>4, <1>7, <1>8, RunStepBacked

LEMMA SaveObjectBacked ==
    ASSUME Typed, BinaryInv, NEW w \in Workers, SaveObject(w)
    PROVE  BinaryInv'
<1> DEFINE object == Recorded(worker[w].object, worker[w].token)
<1>1. /\ worker[w] \in Run /\ worker[w].pc = "saving" /\ worker[w].object \in PreservationObject
      /\ UNCHANGED <<token, checksum, preservation>>
  BY RunFields DEF SaveObject, Typed
<1>2. RunBacked(worker[w])
  BY DEF BinaryInv
<1>3. CASE Retry(w)
  BY <1>1, <1>2, <1>3, RetryBacked DEF RunBacked
<1>4. CASE Goes(w, SavedRun(worker[w])) /\ queue' = queue \cup ChildrenJobs(worker[w])
  <2>1. /\ object.binary = worker[w].object.binary /\ object.version = worker[w].token
    BY <1>1 DEF PreservationObject, Recorded
  <2>2. PICK run : run = SavedRun(worker[w])
    OBVIOUS
  <2>3. /\ run.pc = "committing" /\ run.id = worker[w].id /\ run.token = worker[w].token
        /\ run.checksum = worker[w].checksum /\ run.object = object
    BY <1>1, <2>2 DEF Run, SavedRun
  <2> HIDE DEF object
  <2>4. RunBacked(run)'
    BY <1>1, <1>2, <2>1, <2>3 DEF RunBacked
  <2>5. \A j \in queue' \ queue : JobBacked(j)'
    BY <1>4 DEF ChildrenJobs, JobBacked, PreserveChildren
  <2>6. Goes(w, run)
    BY <1>4, <2>2
  <2> QED BY <1>1, <2>4, <2>5, <2>6, RunStepBacked
<1> QED BY <1>3, <1>4 DEF SaveObject

LEMMA CommitBacked ==
    ASSUME Typed, BinaryInv, NEW w \in Workers, Commit(w)
    PROVE  BinaryInv'
<1> DEFINE r == worker[w].id
           object == worker[w].object
<1>1. /\ worker[w].pc = "committing" /\ r \in Resources
      /\ UNCHANGED <<token, checksum, queue>> /\ Goes(w, Idle)
      /\ preservation' = [preservation EXCEPT ![r] = object]
  BY RunFields DEF Commit, Typed
<1>2. preservation'[r] = object /\ \A s \in Resources : s # r => preservation'[s] = preservation[s]
  BY <1>1 DEF Typed, TypeOK
<1>3. RunBacked(worker[w])
  BY DEF BinaryInv
<1>4. ASSUME NEW f \in FileSets PROVE RecordBacked(f)'
  <2>1. f \in Resources /\ f # Work
    BY PreservationAssumption DEF Resources
  <2>2. CASE f # r
    BY <1>1, <1>2, <2>1, <2>2 DEF BinaryInv, RecordBacked
  <2>3. CASE f = r
    BY <1>1, <1>2, <1>3, <2>1, <2>3 DEF RunBacked, RecordBacked
  <2> QED BY <2>2, <2>3
<1>5. ASSUME NEW v \in Workers PROVE RunBacked(worker[v])'
  <2>1. worker'[v] = worker[v] \/ worker'[v] = Idle
    BY <1>1 DEF Goes, Typed, TypeOK
  <2>2. RunBacked(worker[v])
    BY DEF BinaryInv
  <2>3. CASE worker'[v] = worker[v]
    BY <1>1, <2>2, <2>3 DEF RunBacked
  <2>4. CASE worker'[v] = Idle
    BY <2>4, IdleLeft DEF RunBacked, Idle
  <2> QED BY <2>1, <2>3, <2>4
<1>6. \A j \in queue' : JobBacked(j)'
  BY <1>1 DEF BinaryInv, JobBacked
<1> QED BY <1>1, <1>4, <1>5, <1>6 DEF BinaryInv

LEMMA BinaryInvStep ==
    ASSUME Typed, Typed', BinaryInv, [Next]_vars
    PROVE  BinaryInv'
<1>1. CASE Saves
  BY <1>1, SavesBacked
<1>2. CASE ShortJobs
  BY <1>2, ShortJobsBacked
<1>3. ASSUME NEW w \in Workers, Preserver(w) PROVE BinaryInv'
  BY <1>3, LoadBacked, BeginBacked, CreateBacked, BinaryBacked, MetadataBacked,
     ReorganizeBacked, SaveObjectBacked, CommitBacked DEF Preserver
<1>4. ASSUME NEW w \in Workers, Fail(w) PROVE BinaryInv'
  <2>1. worker[w].token <= token[worker[w].id]
    BY <1>4 DEF Fail, BinaryInv, RunBacked
  <2> QED BY <1>4, <2>1, RetryBacked DEF Fail
<1>5. CASE UNCHANGED vars
  BY <1>5 DEF vars, BinaryInv, RecordBacked, RunBacked, JobBacked
<1> QED BY <1>1, <1>2, <1>3, <1>4, <1>5 DEF Next

LEMMA BinaryInvInit ==
    ASSUME Init PROVE BinaryInv
<1>1. /\ queue = {} /\ \A f \in FileSets : preservation[f] = NoObject
      /\ \A w \in Workers : worker[w] = Idle
  BY DEF Init, Resources
<1> QED BY <1>1, IdleLeft DEF BinaryInv, RecordBacked, RunBacked, Idle

\* A record that has the token a characterized file set has now names its
\* binary, with any number of threads, errors, moves and take-downs: a job that
\* has not seen the checksum is outdated by the save of the characterization
\* (preserve_binary_content, PreserveResourceJob#perform).
THEOREM CurrentRecordsAreWhole == Spec => []CurrentNamesBinary
<1>1. BinaryInv => CurrentNamesBinary
  BY DEF BinaryInv, RecordBacked, CurrentNamesBinary
<1>2. Spec => []Typed
  BY InitType, TypedStep, PTL DEF Spec
<1>3. Typed /\ Typed' /\ BinaryInv /\ [Next]_vars => BinaryInv'
  BY BinaryInvStep
<1> QED BY <1>1, <1>2, <1>3, BinaryInvInit, PTL DEF Spec
-----------------------------------------------------------------------------
(***************************************************************************)
(* With any number of threads, errors, moves and take-downs: as long as no *)
(* two jobs of the work overlap, its last version is on record, and in the *)
(* cloud unless a late CleanupFilesJob deletes it.  The parameter `files'  *)
(* tells whether the cloud is looked at.                                   *)
(***************************************************************************)
Due == WorkPreserves(complete, place)

Queued == \E by \in {"save", "parent"} : Preserve(Work, token[Work], by) \in queue

Active(run) == run.pc # "idle" /\ run.id = Work

InTime(run) == Active(run) /\ run.token = token[Work]

Filed(files) == files => cloud[KeyOf(Work, place, "metadata")] = token[Work]

LastRecorded(files) == /\ preservation[Work] # NoObject
                       /\ preservation[Work].version = token[Work]
                       /\ preservation[Work].metadata = place
                       /\ Filed(files)

\* A run that is outdated has a successor; one that is not has seen the work as
\* it is, and has uploaded its metadata to the place of now.
OnCourse(run, files) ==
    /\ run.token # token[Work] /\ Due => Queued
    /\ run.token = token[Work] =>
         /\ run.complete = complete
         /\ run.pc \in {"moved", "saving", "committing"}
              => run.object.metadata = place /\ Filed(files)
         /\ run.pc = "committing" => run.object.version = token[Work]

WorkInv(files) ==
    /\ Due => Queued \/ (\E w \in Workers : InTime(worker[w])) \/ LastRecorded(files)
    /\ \A w \in Workers : Active(worker[w]) => OnCourse(worker[w], files)

\* A late CleanupFilesJob: it names the path that is in use again.
CleanupIsPast == Cleanup(Work, place, "metadata") \notin queue

\* Every save of the work queues a job that outdates the runs.
LEMMA WorkSaved ==
    ASSUME Typed, Typed', BinaryInv, NEW files, UNCHANGED worker, token'[Work] > token[Work],
           WorkJobs(token'[Work], complete', place') \subseteq queue'
    PROVE  WorkInv(files)'
<1>1. Due' => Queued'
  BY DEF Due, Queued, WorkJobs
<1>2. ASSUME NEW w \in Workers, Active(worker[w]) PROVE worker[w].token # token'[Work]
  <2>1. worker[w].token <= token[Work]
    BY <1>2 DEF BinaryInv, RunBacked, Active
  <2>2. worker[w].token \in Nat /\ token[Work] \in Nat /\ token'[Work] \in Nat
    BY RunFields DEF Typed, TypeOK, Resources
  <2> QED BY <2>1, <2>2
<1> QED BY <1>1, <1>2 DEF WorkInv, Active, OnCourse

LEMMA WorkSaves ==
    ASSUME Typed, Typed', BinaryInv, NEW files, Saves
    PROVE  WorkInv(files)'
<1>1. Work \in Resources /\ token[Work] \in Nat /\ \A f \in FileSets : f # Work /\ f \in Resources
  BY PreservationAssumption DEF Resources, Typed, TypeOK
<1>2. token'[Work] = token[Work] + 1
  <2>1. CASE \E f \in FileSets : AddFileSet(f)
    BY <1>1, <2>1 DEF AddFileSet, Typed, TypeOK
  <2>2. CASE ~\E f \in FileSets : AddFileSet(f)
    BY <1>1, <2>2 DEF Saves, SaveWork, TakeDown, Move, Typed, TypeOK
  <2> QED BY <2>1, <2>2
<1>3. UNCHANGED worker
  BY SavesLeave
<1>4. WorkJobs(token'[Work], complete', place') \subseteq queue'
  BY DEF Saves, SaveWork, TakeDown, Move, AddFileSet
<1>5. token'[Work] > token[Work]
  BY <1>1, <1>2
<1> QED BY <1>3, <1>4, <1>5, WorkSaved

\* What leaves the work, its runs and its jobs alone.
LEMMA WorkUntouched ==
    ASSUME NEW files, WorkInv(files), UNCHANGED <<complete, place>>,
           token'[Work] = token[Work], preservation'[Work] = preservation[Work],
           Filed(files) => Filed(files)', Queued => Queued',
           \A v \in Workers : Active(worker[v]) \/ Active(worker[v])' => worker'[v] = worker[v]
    PROVE  WorkInv(files)'
<1>1. Due' = Due
  BY DEF Due, WorkPreserves
<1>2. LastRecorded(files) => LastRecorded(files)'
  BY DEF LastRecorded
<1>3. ASSUME NEW v \in Workers, InTime(worker[v]) PROVE InTime(worker[v])'
  BY <1>3 DEF InTime, Active
<1>4. ASSUME NEW v \in Workers, Active(worker[v])' PROVE OnCourse(worker[v], files)'
  <2>1. worker'[v] = worker[v] /\ Active(worker[v])
    BY <1>4 DEF Active
  <2> QED BY <1>1, <2>1 DEF WorkInv, OnCourse
<1> QED BY <1>1, <1>2, <1>3, <1>4 DEF WorkInv

LEMMA WorkShortJobs ==
    ASSUME Typed, NEW files, WorkInv(files), files => CleanupIsPast, ShortJobs
    PROVE  WorkInv(files)'
<1>0. Work \in Resources /\ \A f \in FileSets : f # Work
  BY PreservationAssumption DEF Resources
<1>1. UNCHANGED <<complete, place, worker, preservation>>
  BY DEF ShortJobs, Characterize, CreateDerivatives, PreserveMembers, CleanupFiles
<1>2. token'[Work] = token[Work]
  BY <1>0 DEF ShortJobs, Characterize, CreateDerivatives, PreserveMembers, CleanupFiles, Typed, TypeOK
<1>3. \A j \in queue \ queue' : j.job # "PreserveResource"
  <2>1. PICK done : done.job # "PreserveResource" /\ queue \ {done} \subseteq queue'
    <3>1. \A f : Characterization(f).job # "PreserveResource" /\ Derivatives(f).job # "PreserveResource"
      BY DEF Characterization, Derivatives
    <3>2. \A u : PreserveChildren(u).job # "PreserveResource"
      BY DEF PreserveChildren
    <3>3. \A r, p, kind : Cleanup(r, p, kind).job # "PreserveResource"
      BY DEF Cleanup
    <3>4. ASSUME NEW f \in FileSets, Characterize(f) \/ CreateDerivatives(f)
          PROVE  \E done : done.job # "PreserveResource" /\ queue \ {done} \subseteq queue'
      BY <3>1, <3>4 DEF Characterize, CreateDerivatives
    <3>5. ASSUME NEW u \in BOOLEAN, PreserveMembers(u)
          PROVE  \E done : done.job # "PreserveResource" /\ queue \ {done} \subseteq queue'
      BY <3>2, <3>5 DEF PreserveMembers
    <3>6. ASSUME NEW k \in Key, CleanupFiles(k)
          PROVE  \E done : done.job # "PreserveResource" /\ queue \ {done} \subseteq queue'
      BY <3>3, <3>6 DEF CleanupFiles
    <3> QED BY <3>4, <3>5, <3>6 DEF ShortJobs
  <2> QED BY <2>1
<1>4. Queued => Queued'
  BY <1>2, <1>3 DEF Queued, Preserve
<1>5. Filed(files) => Filed(files)'
  <2>1. CASE \E k \in Key : CleanupFiles(k)
    <3>1. PICK k \in Key : CleanupFiles(k)
      BY <2>1
    <3>2. files => k # KeyOf(Work, place, "metadata")
      BY <3>1, KeyParts DEF CleanupFiles, CleanupIsPast
    <3>3. place \in Places /\ KeyOf(Work, place, "metadata") \in Key
      BY <1>0, JobTypes DEF Typed, TypeOK
    <3> QED BY <1>1, <1>2, <3>1, <3>2, <3>3 DEF CleanupFiles, Filed, Typed, TypeOK
  <2>2. CASE UNCHANGED cloud
    BY <1>1, <1>2, <2>2 DEF Filed
  <2> QED BY <2>1, <2>2 DEF ShortJobs, Characterize, CreateDerivatives, PreserveMembers
<1> QED BY <1>1, <1>2, <1>4, <1>5, WorkUntouched

\* A job of another resource runs.
LEMMA OtherWork ==
    ASSUME Typed, NEW files, WorkInv(files),
           NEW v \in Workers, worker[v].pc # "idle", worker[v].id # Work, Preserver(v) \/ Fail(v)
    PROVE  WorkInv(files)'
<1>1. /\ \A u \in Workers \ {v} : worker'[u] = worker[u]
      /\ worker'[v].pc = "idle" \/ worker'[v].id # Work
      /\ queue \subseteq queue' /\ UNCHANGED <<token, complete, place>>
      /\ Work \in Resources /\ preservation'[Work] = preservation[Work]
      /\ \A k \in Key : k.of = Work => cloud'[k] = cloud[k]
  BY RunStep DEF Resources
<1>2. KeyOf(Work, place, "metadata") \in Key /\ KeyOf(Work, place, "metadata").of = Work
  BY <1>1, JobTypes, KeyParts DEF Typed, TypeOK
<1>3. Filed(files) => Filed(files)'
  BY <1>1, <1>2 DEF Filed
<1>4. Queued => Queued'
  BY <1>1 DEF Queued
<1> QED BY <1>1, <1>3, <1>4, WorkUntouched DEF Active

LEMMA LoadWork ==
    ASSUME Typed, NEW files, WorkInv(files), RunsApart(Work)',
           NEW w \in Workers, NEW j \in queue, Load(w, j)
    PROVE  WorkInv(files)'
<1>1. /\ j \in PreserveResourceJob /\ queue' = queue \ {j} /\ worker[w].pc = "idle"
      /\ UNCHANGED <<token, complete, place, preservation, cloud>>
  BY DEF Load
<1>2. Filed(files) => Filed(files)'
  BY <1>1 DEF Filed
<1>3. CASE token[j.id] # j.token
  <2>1. UNCHANGED worker
    BY <1>3 DEF Load
  <2>2. Queued => Queued'
    BY <1>1, <1>3 DEF Queued, Preserve
  <2> QED BY <1>1, <1>2, <2>1, <2>2, WorkUntouched
<1>4. CASE token[j.id] = j.token
  <2>1. /\ \A v \in Workers \ {w} : worker'[v] = worker[v]
        /\ worker'[w] = Loaded(j)
    BY <1>4 DEF Load, Goes, Typed, TypeOK
  <2>2. PICK run : run = Loaded(j)
    OBVIOUS
  <2>3. /\ run.pc = "loaded" /\ run.id = j.id /\ run.token = j.token
        /\ run.complete = complete
    BY <2>2 DEF Loaded, Idle
  <2>4. CASE j.id # Work
    <3>1. Queued => Queued'
      BY <1>1, <2>4 DEF Queued, Preserve
    <3>2. \A v \in Workers : Active(worker[v]) \/ Active(worker[v])' => worker'[v] = worker[v]
      BY <1>1, <2>1, <2>2, <2>3, <2>4 DEF Active
    <3> QED BY <1>1, <1>2, <3>1, <3>2, WorkUntouched
  <2>5. CASE j.id = Work
    <3>1. InTime(worker[w])'
      BY <1>1, <1>4, <2>1, <2>2, <2>3, <2>5 DEF InTime, Active
    <3>2. OnCourse(worker[w], files)'
      BY <1>1, <1>4, <2>1, <2>2, <2>3, <2>5 DEF OnCourse
    <3>3. \A v \in Workers \ {w} : ~Active(worker[v])'
      BY <2>1, <2>2, <2>3, <2>5 DEF RunsApart, Active
    <3> QED BY <3>1, <3>2, <3>3 DEF WorkInv
  <2> QED BY <2>4, <2>5
<1> QED BY <1>3, <1>4

\* A run of the work goes on; no other thread has one.
LEMMA WorkRunStep ==
    ASSUME Typed, RunsApart(Work), NEW files, UNCHANGED <<token, complete, place>>,
           NEW w \in Workers, Active(worker[w]), NEW run, Goes(w, run),
           Active(run) => OnCourse(run, files)',
           Due => Queued' \/ InTime(run) \/ LastRecorded(files)'
    PROVE  WorkInv(files)'
<1>1. worker'[w] = run /\ \A v \in Workers \ {w} : worker'[v] = worker[v]
  BY DEF Goes, Typed, TypeOK
<1>2. \A v \in Workers \ {w} : ~Active(worker[v])'
  BY <1>1 DEF RunsApart, Active
<1>3. Due' => Queued' \/ InTime(worker[w])' \/ LastRecorded(files)'
  BY <1>1 DEF Due, WorkPreserves, InTime, Active
<1>4. Active(worker[w])' => OnCourse(worker[w], files)'
  BY <1>1 DEF OnCourse, Active
<1> QED BY <1>2, <1>3, <1>4 DEF WorkInv

\* The job is queued again.
LEMMA WorkRetry ==
    ASSUME Typed, RunsApart(Work), NEW files, WorkInv(files),
           UNCHANGED <<token, complete, place>>,
           NEW w \in Workers, Active(worker[w]), Retry(w)
    PROVE  WorkInv(files)'
<1>1. worker[w].by \in {"save", "parent"}
  BY RunFields DEF Typed
<1>2. Due => Queued'
  <2>1. OnCourse(worker[w], files)
    BY DEF WorkInv
  <2>2. Queued => Queued'
    BY DEF Queued, Retry
  <2>3. CASE worker[w].token = token[Work]
    BY <1>1, <2>3 DEF Queued, Retry, Active
  <2>4. CASE worker[w].token # token[Work]
    BY <2>1, <2>2, <2>4 DEF OnCourse
  <2> QED BY <2>3, <2>4
<1> QED BY <1>2, IdleLeft, WorkRunStep DEF Retry, Active

\* A run of the work goes on with the same resource, token and state.
LEMMA WorkGoesOn ==
    ASSUME Typed, RunsApart(Work), NEW files, WorkInv(files),
           UNCHANGED <<token, complete, place>>, queue \subseteq queue',
           NEW w \in Workers, Active(worker[w]), NEW run, Goes(w, run),
           run.pc # "idle", run.id = Work, run.token = worker[w].token,
           run.complete = worker[w].complete,
           run.token = token[Work] =>
             /\ run.pc \in {"moved", "saving", "committing"}
                  => run.object.metadata = place /\ Filed(files)'
             /\ run.pc = "committing" => run.object.version = token[Work]
    PROVE  WorkInv(files)'
<1>1. OnCourse(worker[w], files)
  BY DEF WorkInv
<1>2. (Queued => Queued') /\ Due' = Due
  BY DEF Queued, Due, WorkPreserves
<1>3. OnCourse(run, files)'
  BY <1>1, <1>2 DEF OnCourse
<1>4. Due => Queued' \/ InTime(run)
  BY <1>1, <1>2 DEF OnCourse, InTime, Active
<1> QED BY <1>3, <1>4, WorkRunStep

LEMMA BeginWork ==
    ASSUME Typed, RunsApart(Work), NEW files, WorkInv(files),
           NEW w \in Workers, Active(worker[w]), Begin(w)
    PROVE  WorkInv(files)'
<1> DEFINE r1 == [worker[w] EXCEPT !.pc = "creating"]
           r2 == [worker[w] EXCEPT !.pc = AfterObject(Work), !.object = preservation[Work]]
<1>1. worker[w] \in Run /\ worker[w].id = Work /\ worker[w].pc = "loaded"
      /\ UNCHANGED <<token, complete, place, preservation, cloud, queue>>
  BY RunFields DEF Typed, Active, Begin
<1>2. \/ ~WorkPreserves(worker[w].complete, place) /\ Goes(w, Idle)
      \/ Goes(w, r1) \/ Goes(w, r2)
  BY <1>1 DEF Begin
<1>3. CASE ~WorkPreserves(worker[w].complete, place) /\ Goes(w, Idle)
  <2>1. OnCourse(worker[w], files)
    BY DEF WorkInv
  <2>2. Due => Queued'
    BY <1>1, <1>3, <2>1 DEF OnCourse, Due, Queued
  <2> QED BY <1>1, <1>3, <2>2, IdleLeft, WorkRunStep DEF Active
<1>4. CASE Goes(w, r1)
  <2>1. PICK run : run = r1
    OBVIOUS
  <2>2. run.pc = "creating" /\ run.id = Work /\ run.token = worker[w].token
        /\ run.complete = worker[w].complete
    BY <1>1, <2>1 DEF Run
  <2> QED BY <1>1, <1>4, <2>1, <2>2, WorkGoesOn
<1>5. CASE Goes(w, r2)
  <2>1. PICK run : run = r2
    OBVIOUS
  <2>2. run.pc = "metadata" /\ run.id = Work /\ run.token = worker[w].token
        /\ run.complete = worker[w].complete
    BY <1>1, <2>1 DEF Run, AfterObject
  <2> QED BY <1>1, <1>5, <2>1, <2>2, WorkGoesOn
<1> QED BY <1>2, <1>3, <1>4, <1>5

LEMMA CreateWork ==
    ASSUME Typed, RunsApart(Work), NEW files, WorkInv(files),
           NEW w \in Workers, Active(worker[w]), CreateObject(w)
    PROVE  WorkInv(files)'
<1> DEFINE r1 == [worker[w] EXCEPT !.pc = AfterObject(Work), !.created = TRUE]
<1>1. worker[w] \in Run /\ worker[w].id = Work
      /\ UNCHANGED <<token, complete, place, preservation, cloud>>
  BY RunFields DEF Typed, Active, CreateObject
<1>2. CASE Retry(w)
  BY <1>1, <1>2, WorkRetry
<1>3. CASE Goes(w, r1) /\ UNCHANGED queue
  <2>1. PICK run : run = r1
    OBVIOUS
  <2>2. run.pc = "metadata" /\ run.id = Work /\ run.token = worker[w].token
        /\ run.complete = worker[w].complete
    BY <1>1, <2>1 DEF Run, AfterObject
  <2> QED BY <1>1, <1>3, <2>1, <2>2, WorkGoesOn
<1> QED BY <1>1, <1>2, <1>3 DEF CreateObject

\* A work has no binary of its own.
LEMMA BinaryWork ==
    ASSUME Typed, RunsApart(Work), NEW files, WorkInv(files),
           NEW w \in Workers, Active(worker[w]), PreserveBinary(w)
    PROVE  WorkInv(files)'
<1>1. worker[w] \in Run /\ worker[w].id = Work
      /\ UNCHANGED <<token, complete, place, queue>>
  BY RunFields DEF Typed, Active, PreserveBinary
<1>2. PICK object : Goes(w, [worker[w] EXCEPT !.pc = "metadata", !.object = object])
  BY DEF PreserveBinary
<1>3. PICK run : run = [worker[w] EXCEPT !.pc = "metadata", !.object = object]
  OBVIOUS
<1>4. run.pc = "metadata" /\ run.id = Work /\ run.token = worker[w].token
      /\ run.complete = worker[w].complete
  BY <1>1, <1>3 DEF Run
<1> QED BY <1>1, <1>2, <1>3, <1>4, WorkGoesOn

LEMMA MetadataWork ==
    ASSUME Typed, RunsApart(Work), NEW files, WorkInv(files),
           NEW w \in Workers, Active(worker[w]), PreserveMetadata(w)
    PROVE  WorkInv(files)'
<1> DEFINE object == [worker[w].object EXCEPT !.metadata = place]
           key == KeyOf(Work, place, "metadata")
<1>1. /\ worker[w] \in Run /\ worker[w].id = Work /\ worker[w].object \in PreservationObject
      /\ key \in Key /\ UNCHANGED <<token, complete, place, queue>>
      /\ cloud' = [cloud EXCEPT ![key] = worker[w].token]
  BY RunFields, JobTypes DEF Typed, Active, PreserveMetadata
<1>2. object.metadata = place /\ cloud'[key] = worker[w].token
  BY <1>1 DEF PreservationObject, Typed, TypeOK
<1>3. PICK run : /\ Goes(w, run) /\ run.pc \in {"moved", "saving"} /\ run.id = Work
                 /\ run.token = worker[w].token /\ run.complete = worker[w].complete
                 /\ run.object = object
  <2> DEFINE moved == worker[w].object.metadata \notin {NoPlace, place}
             pc == IF moved THEN "moved" ELSE "saving"
             left == IF moved THEN worker[w].object.metadata ELSE NoPlace
             next == [worker[w] EXCEPT !.pc = pc, !.left = left, !.object = object]
  <2>1. pc \in {"moved", "saving"}
    OBVIOUS
  <2>2. Goes(w, next)
    BY DEF PreserveMetadata
  <2> HIDE DEF pc, left, object
  <2>3. /\ next.pc = pc /\ next.id = Work /\ next.token = worker[w].token
        /\ next.complete = worker[w].complete /\ next.object = object
    BY <1>1 DEF Run
  <2> HIDE DEF next
  <2> QED BY <2>1, <2>2, <2>3
<1>4. run.token = token[Work] => run.object.metadata = place /\ Filed(files)'
  BY <1>1, <1>2, <1>3 DEF Filed
<1> QED BY <1>1, <1>3, <1>4, WorkGoesOn

LEMMA ReorganizeWork ==
    ASSUME Typed, RunsApart(Work), NEW files, WorkInv(files),
           NEW w \in Workers, Active(worker[w]), Reorganize(w)
    PROVE  WorkInv(files)'
<1>1. /\ worker[w] \in Run /\ worker[w].id = Work /\ worker[w].pc = "moved"
      /\ worker[w].object \in PreservationObject
      /\ UNCHANGED <<token, complete, place>> /\ queue \subseteq queue'
      /\ cloud' = cloud \/ cloud' = [cloud EXCEPT ![KeyOf(Work, place, "binary")] = 1]
  BY RunFields DEF Typed, Active, Reorganize
<1>2. Filed(files) => Filed(files)'
  <2>1. /\ KeyOf(Work, place, "metadata") # KeyOf(Work, place, "binary")
        /\ KeyOf(Work, place, "metadata") \in Key
        /\ KeyOf(Work, place, "binary") \in Key
    <3>1. Work \in Resources /\ place \in Places
      BY DEF Typed, TypeOK, Resources
    <3> QED BY <3>1, JobTypes, KeyParts
  <2> QED BY <1>1, <2>1 DEF Filed, Typed, TypeOK
<1>3. Moved(worker[w]).metadata = worker[w].object.metadata
  BY <1>1 DEF Moved, PreservationObject
<1>4. PICK run : run = [worker[w] EXCEPT !.pc = "saving", !.object = Moved(worker[w])]
  OBVIOUS
<1>5. run.pc = "saving" /\ run.id = Work /\ run.token = worker[w].token
      /\ run.complete = worker[w].complete /\ run.object = Moved(worker[w])
  BY <1>1, <1>4 DEF Run
<1>6. OnCourse(worker[w], files)
  BY DEF WorkInv
<1>7. run.token = token[Work] => run.object.metadata = place /\ Filed(files)'
  BY <1>1, <1>2, <1>3, <1>5, <1>6 DEF OnCourse
<1>8. Goes(w, run)
  BY <1>4 DEF Reorganize
<1> QED BY <1>1, <1>5, <1>7, <1>8, WorkGoesOn

LEMMA SaveObjectWork ==
    ASSUME Typed, RunsApart(Work), NEW files, WorkInv(files),
           NEW w \in Workers, Active(worker[w]), SaveObject(w)
    PROVE  WorkInv(files)'
<1> DEFINE object == Recorded(worker[w].object, worker[w].token)
<1>1. /\ worker[w] \in Run /\ worker[w].id = Work /\ worker[w].pc = "saving"
      /\ worker[w].object \in PreservationObject
      /\ UNCHANGED <<token, complete, place, preservation, cloud>>
  BY RunFields DEF Typed, Active, SaveObject
<1>2. CASE Retry(w)
  BY <1>1, <1>2, WorkRetry
<1>3. CASE Goes(w, SavedRun(worker[w])) /\ queue \subseteq queue'
  <2>1. object.metadata = worker[w].object.metadata /\ object.version = worker[w].token
    BY <1>1 DEF Recorded, PreservationObject
  <2>2. PICK run : run = SavedRun(worker[w])
    OBVIOUS
  <2>3. run.pc = "committing" /\ run.id = Work /\ run.token = worker[w].token
        /\ run.complete = worker[w].complete /\ run.object = object
    BY <1>1, <2>2 DEF Run, SavedRun
  <2> HIDE DEF object
  <2>4. OnCourse(worker[w], files)
    BY DEF WorkInv
  <2>5. run.token = token[Work] =>
          run.object.metadata = place /\ Filed(files)' /\ run.object.version = token[Work]
    BY <1>1, <2>1, <2>3, <2>4 DEF OnCourse, Filed
  <2> QED BY <1>1, <1>3, <2>2, <2>3, <2>5, WorkGoesOn
<1> QED BY <1>2, <1>3 DEF SaveObject

LEMMA CommitWork ==
    ASSUME Typed, RunsApart(Work), NEW files, WorkInv(files),
           NEW w \in Workers, Active(worker[w]), Commit(w)
    PROVE  WorkInv(files)'
<1>1. /\ worker[w].id = Work /\ worker[w].pc = "committing"
      /\ worker[w].object \in PreservationObject
      /\ UNCHANGED <<token, complete, place, cloud, queue>> /\ Goes(w, Idle)
      /\ preservation'[Work] = worker[w].object
  BY RunFields DEF Typed, TypeOK, Active, Commit, Resources
<1>2. OnCourse(worker[w], files)
  BY DEF WorkInv
<1>3. CASE worker[w].token = token[Work]
  <2>1. LastRecorded(files)'
    BY <1>1, <1>2, <1>3, NoObjectAssumption DEF OnCourse, LastRecorded, Filed
  <2> QED BY <1>1, <2>1, IdleLeft, WorkRunStep DEF Active
<1>4. CASE worker[w].token # token[Work]
  <2>1. Due => Queued'
    BY <1>1, <1>2, <1>4 DEF OnCourse, Queued
  <2> QED BY <1>1, <2>1, IdleLeft, WorkRunStep DEF Active
<1> QED BY <1>3, <1>4

LEMMA WorkInvStep ==
    ASSUME Typed, Typed', BinaryInv, NEW files, WorkInv(files), RunsApart(Work), RunsApart(Work)',
           files => CleanupIsPast, [Next]_vars
    PROVE  WorkInv(files)'
<1>1. CASE Saves
  BY <1>1, WorkSaves
<1>2. CASE ShortJobs
  BY <1>2, WorkShortJobs
<1>3. ASSUME NEW w \in Workers, NEW j \in queue, Load(w, j) PROVE WorkInv(files)'
  BY <1>3, LoadWork
<1>4. ASSUME NEW w \in Workers, worker[w].pc # "idle", Preserver(w) \/ Fail(w)
      PROVE  WorkInv(files)'
  <2>1. CASE worker[w].id # Work
    BY <1>4, <2>1, OtherWork
  <2>2. CASE worker[w].id = Work
    <3>1. Active(worker[w])
      BY <1>4, <2>2 DEF Active
    <3>2. Fail(w) => WorkInv(files)'
      BY <3>1, WorkRetry DEF Fail
    <3>3. \A j : ~Load(w, j)
      BY <1>4 DEF Load
    <3> QED BY <1>4, <3>1, <3>2, <3>3, BeginWork, CreateWork, BinaryWork, MetadataWork,
               ReorganizeWork, SaveObjectWork, CommitWork DEF Preserver
  <2> QED BY <2>1, <2>2
<1>5. CASE UNCHANGED vars
  BY <1>5, WorkUntouched DEF vars, Filed, Queued
<1>6. \A v \in Workers : Preserver(v) /\ worker[v].pc = "idle" => \E j \in queue : Load(v, j)
  BY DEF Preserver, Begin, CreateObject, PreserveBinary, PreserveMetadata, Reorganize, SaveObject, Commit
<1>7. \A v \in Workers : Fail(v) => worker[v].pc # "idle"
  BY DEF Fail
<1> QED BY <1>1, <1>2, <1>3, <1>4, <1>5, <1>6, <1>7 DEF Next

LEMMA WorkInvInit ==
    ASSUME Init, NEW files
    PROVE  WorkInv(files)
<1>1. ~Due
  BY DEF Init, Due, WorkPreserves
<1>2. \A w \in Workers : worker[w] = Idle
  BY DEF Init
<1> QED BY <1>1, <1>2, IdleLeft DEF WorkInv, Active

LEMMA WorkAtRest ==
    ASSUME NEW files, WorkInv(files), Quiet, Due
    PROVE  LastRecorded(files)
BY DEF WorkInv, Quiet, Queued, InTime, Active

LEMMA TypedAndBacked == Spec => [](Typed /\ BinaryInv)
<1>1. Typed /\ Typed' /\ BinaryInv /\ [Next]_vars => BinaryInv'
  BY BinaryInvStep
<1> QED BY <1>1, InitType, TypedStep, BinaryInvInit, PTL DEF Spec

WorkRecorded == Quiet /\ Due => /\ preservation[Work] # NoObject
                                /\ preservation[Work].version = token[Work]
                                /\ preservation[Work].metadata = place

\* Once no job is left, a work that preserves is on record with its last version
\* and its place, however often it was edited, moved and taken down, and whatever
\* failed, unless two of its jobs overlap (PreserveResource#run,
\* PreserveResourceJob#perform).
THEOREM WorkIsRecorded == Spec /\ []RunsApart(Work) => []WorkRecorded
<1>1. Init => WorkInv(FALSE)
  BY WorkInvInit
<1>2. /\ Typed /\ BinaryInv /\ (Typed /\ BinaryInv)' /\ WorkInv(FALSE)
      /\ RunsApart(Work) /\ RunsApart(Work)' /\ [Next]_vars
      => WorkInv(FALSE)'
  BY WorkInvStep
<1>3. WorkInv(FALSE) => WorkRecorded
  BY WorkAtRest DEF WorkRecorded, LastRecorded
<1> QED BY <1>1, <1>2, <1>3, TypedAndBacked, PTL DEF Spec

WorkKept == Quiet /\ Due => MetadataPreserved(Work)

\* Its metadata file is in the cloud as well, at the place of now, unless the
\* work comes back to a place before the CleanupFilesJob of its move away has run
\* (preserver.rb, "clean up the old files").
THEOREM WorkIsKept == Spec /\ []RunsApart(Work) /\ []CleanupIsPast => []WorkKept
<1>1. Init => WorkInv(TRUE)
  BY WorkInvInit
<1>2. /\ Typed /\ BinaryInv /\ (Typed /\ BinaryInv)' /\ WorkInv(TRUE)
      /\ RunsApart(Work) /\ RunsApart(Work)' /\ CleanupIsPast /\ [Next]_vars
      => WorkInv(TRUE)'
  BY WorkInvStep
<1>3. WorkInv(TRUE) => WorkKept
  BY WorkAtRest DEF WorkKept, LastRecorded, Filed, MetadataPreserved
<1> QED BY <1>1, <1>2, <1>3, TypedAndBacked, PTL DEF Spec
=============================================================================
