---------------------------- MODULE Preservation ----------------------------
(***************************************************************************)
(* Preservation of a work and its file sets in cloud storage.              *)
(*                                                                         *)
(* A save of a resource queues a PreserveResourceJob with the optimistic   *)
(* lock token the resource then has.  A Sidekiq thread runs the job in one *)
(* database transaction (buffer_into_index): it finds or creates the       *)
(* resource's PreservationObject, uploads the binary and the metadata,     *)
(* saves the object and commits.  Uploads and queued jobs are not part of  *)
(* the transaction: a rollback does not take them back, and other threads  *)
(* see them before it commits.  A job that raises is run again.            *)
(*                                                                         *)
(* The path of a preserved copy is made of the ids of the resource's       *)
(* ancestors when it is uploaded; `place' is the part of it above the      *)
(* work.  What is uploaded as metadata is told by the token it has.        *)
(***************************************************************************)
EXTENDS Integers, FiniteSets

CONSTANTS
    Work,         \* a resource with members, e.g. a volume
    FileSets,     \* the file sets that may be uploaded to it
    Parents,      \* complete multi-volume works it may be moved into
    Top,          \* the place of a work that has no parent
    NoPlace,      \* no such copy is recorded
    NoObject,     \* the resource has no PreservationObject
    Workers,      \* Sidekiq threads
    MaxSaves,     \* bound: saves of the work
    MaxMoves,     \* bound: moves of the work to another parent
    MaxTakedowns, \* bound: saves that take a complete work down
    MaxErrors     \* bound: errors and crashes while a job runs

ASSUME PreservationAssumption == /\ Work \notin FileSets
                                 /\ Top \notin Parents
                                 /\ NoPlace \notin Parents \cup {Top}

VARIABLES
    token,        \* resource -> optimistic lock token, 0: not yet created
    complete,     \* the work is in a public readable state
    place,        \* the work's parent
    checksum,     \* file set -> its binary has been characterized
    preservation, \* resource -> committed PreservationObject or NoObject
    cloud,        \* key -> token of the metadata, or 1 for a binary; 0: none
    queue,        \* jobs waiting in Redis
    worker,       \* thread -> the PreserveResourceJob it runs
    spent         \* what is used up of each bound

vars == <<token, complete, place, checksum, preservation, cloud, queue, worker, spent>>

Resources == {Work} \cup FileSets

Places == Parents \cup {Top}

Key == [of : Resources, place : Places, kind : {"metadata", "binary"}]

KeyOf(r, p, k) == [of |-> r, place |-> p, kind |-> k]

PreservationObject == [lock : Nat, metadata : Places \cup {NoPlace},
                       version : Nat, binary : Places \cup {NoPlace}]

ASSUME NoObjectAssumption == NoObject \notin PreservationObject

NewPreservationObject == [lock |-> 0, metadata |-> NoPlace, version |-> 0,
                          binary |-> NoPlace]

\* The same resource and token may be queued by a save and by a
\* PreserveChildrenJob: they are two jobs.
PreserveResourceJob == [job : {"PreserveResource"}, id : Resources,
                        token : Nat, by : {"save", "parent"}]
PreserveChildrenJob == [job : {"PreserveChildren"}, unpreserved_only : BOOLEAN]
CleanupFilesJob     == [job : {"CleanupFiles"}, key : Key]
FileSetJob          == [job : {"Characterization", "CreateDerivatives"}, id : FileSets]

Jobs == PreserveResourceJob \cup PreserveChildrenJob \cup CleanupFilesJob
          \cup FileSetJob

Preserve(r, t, by)  == [job |-> "PreserveResource", id |-> r, token |-> t, by |-> by]
PreserveChildren(u) == [job |-> "PreserveChildren", unpreserved_only |-> u]
Cleanup(r, p, k)    == [job |-> "CleanupFiles", key |-> KeyOf(r, p, k)]
Characterization(f) == [job |-> "Characterization", id |-> f]
Derivatives(f)      == [job |-> "CreateDerivatives", id |-> f]

Steps == {"idle", "loaded", "creating", "binary", "metadata", "moved",
          "saving", "committing"}

Run == [pc : Steps, id : Resources, token : Nat, by : {"save", "parent"},
        complete : BOOLEAN, checksum : BOOLEAN, members : SUBSET FileSets,
        object : PreservationObject, created : BOOLEAN, left : Places \cup {NoPlace}]

Idle == [pc |-> "idle", id |-> Work, token |-> 0, by |-> "save",
         complete |-> FALSE, checksum |-> FALSE, members |-> {},
         object |-> NewPreservationObject, created |-> FALSE,
         left |-> NoPlace]

TypeOK == /\ token \in [Resources -> Nat]
          /\ complete \in BOOLEAN
          /\ place \in Places
          /\ checksum \in [FileSets -> BOOLEAN]
          /\ preservation \in [Resources -> PreservationObject \cup {NoObject}]
          /\ cloud \in [Key -> Nat]
          /\ queue \subseteq Jobs
          /\ worker \in [Workers -> Run]
          /\ spent \in [{"saves", "moves", "takedowns", "errors"} -> Nat]

Init == /\ token = [r \in Resources |-> IF r = Work THEN 1 ELSE 0]
        /\ complete = FALSE
        /\ place = Top
        /\ checksum = [f \in FileSets |-> FALSE]
        /\ preservation = [r \in Resources |-> NoObject]
        /\ cloud = [k \in Key |-> 0]
        /\ queue = {}
        /\ worker = [w \in Workers |-> Idle]
        /\ spent = [b \in {"saves", "moves", "takedowns", "errors"} |-> 0]

Members == {f \in FileSets : token[f] > 0}

\* ChangeSet#preserve?: the parent decides; without one, the state does.
WorkPreserves(c, p) == p # Top \/ c

\* FileSetChangeSet#preserve?: only in a work that has been preserved.
FileSetPreserves(c, p) == WorkPreserves(c, p) /\ preservation[Work] # NoObject

NeverPreserved(members) == {f \in members : preservation[f] = NoObject}

\* The thread w goes on with run.
Goes(w, run) == worker' = [worker EXCEPT ![w] = run]

Spend(bound, limit) == /\ spent[bound] < limit
                       /\ spent' = [spent EXCEPT ![bound] = @ + 1]

(***************************************************************************)
(* Saves of the work and of its file sets, each through a                  *)
(* ChangeSetPersister, in a transaction; the jobs are queued after it has  *)
(* committed, with the tokens reloaded.                                    *)
(***************************************************************************)

WorkJobs(t, c, p) == IF WorkPreserves(c, p) THEN {Preserve(Work, t, "save")} ELSE {}

FileSetJobs(f, t) == IF FileSetPreserves(complete, place)
                       THEN {Preserve(f, t, "save")}
                       ELSE {}

\* Slip: the job is queued with the token of the resource before the save
SaveWorkOldToken ==
    /\ Spend("saves", MaxSaves)
    /\ token' = [token EXCEPT ![Work] = @ + 1]
    /\ complete' \in {complete, TRUE}
    /\ queue' = queue \cup WorkJobs(token[Work], complete', place)
    /\ UNCHANGED <<place, checksum, preservation, cloud, worker>>

\* An edit of the work; it may complete it.
SaveWork ==
    /\ Spend("saves", MaxSaves)
    /\ token' = [token EXCEPT ![Work] = @ + 1]
    /\ complete' \in {complete, TRUE}
    /\ queue' = queue \cup WorkJobs(token'[Work], complete', place)
    /\ UNCHANGED <<place, checksum, preservation, cloud, worker>>

\* A complete work goes back to a state that is not public.
TakeDown ==
    /\ Spend("takedowns", MaxTakedowns)
    /\ complete
    /\ token' = [token EXCEPT ![Work] = @ + 1]
    /\ complete' = FALSE
    /\ queue' = queue \cup WorkJobs(token'[Work], FALSE, place)
    /\ UNCHANGED <<place, checksum, preservation, cloud, worker>>

\* AppendToParent: the work leaves its parent and joins another one.
Move(p) ==
    /\ Spend("moves", MaxMoves)
    /\ p # place
    /\ token' = [token EXCEPT ![Work] = @ + 1]
    /\ place' = p
    /\ queue' = queue \cup WorkJobs(token'[Work], complete, p)
    /\ UNCHANGED <<complete, checksum, preservation, cloud, worker>>

\* CreateFile: the file set is saved, then the work that has it as a member.
AddFileSet(f) ==
    /\ token[f] = 0
    /\ token' = [token EXCEPT ![f] = 1, ![Work] = @ + 1]
    /\ queue' = queue \cup {Characterization(f)} \cup FileSetJobs(f, 1)
                      \cup WorkJobs(token'[Work], complete, place)
    /\ UNCHANGED <<complete, place, checksum, preservation, cloud, worker, spent>>

(***************************************************************************)
(* The jobs that a free thread runs in one step.                           *)
(***************************************************************************)

FreeWorker == \E w \in Workers : worker[w].pc = "idle"

\* The characterized file set is saved by the persister, which queues nothing.
Characterize(f) ==
    /\ FreeWorker
    /\ Characterization(f) \in queue
    /\ checksum' = [checksum EXCEPT ![f] = TRUE]
    /\ token' = [token EXCEPT ![f] = @ + 1]
    /\ queue' = (queue \ {Characterization(f)}) \cup {Derivatives(f)}
    /\ UNCHANGED <<complete, place, preservation, cloud, worker, spent>>

\* Slip: saved by the persister, like the characterization
CreateDerivativesQuietly(f) ==
    /\ FreeWorker
    /\ Derivatives(f) \in queue
    /\ token' = [token EXCEPT ![f] = @ + 1]
    /\ queue' = queue \ {Derivatives(f)}
    /\ UNCHANGED <<complete, place, checksum, preservation, cloud, worker, spent>>

CreateDerivatives(f) ==
    /\ FreeWorker
    /\ Derivatives(f) \in queue
    /\ token' = [token EXCEPT ![f] = @ + 1]
    /\ queue' = (queue \ {Derivatives(f)}) \cup FileSetJobs(f, token'[f])
    /\ UNCHANGED <<complete, place, checksum, preservation, cloud, worker, spent>>

PreserveMembers(u) ==
    /\ FreeWorker
    /\ PreserveChildren(u) \in queue
    /\ LET ids == IF u THEN NeverPreserved(Members) ELSE Members
       IN  queue' = (queue \ {PreserveChildren(u)})
                      \cup {Preserve(f, token[f], "parent") : f \in ids}
    /\ UNCHANGED <<token, complete, place, checksum, preservation, cloud, worker, spent>>

CleanupFiles(k) ==
    /\ FreeWorker
    /\ Cleanup(k.of, k.place, k.kind) \in queue
    /\ cloud' = [cloud EXCEPT ![k] = 0]
    /\ queue' = queue \ {Cleanup(k.of, k.place, k.kind)}
    /\ UNCHANGED <<token, complete, place, checksum, preservation, worker, spent>>

(***************************************************************************)
(* PreserveResourceJob and the Preserver it runs.                          *)
(***************************************************************************)

\* The resource as the job reads it.
Loaded(j) == [Idle EXCEPT !.pc = "loaded", !.id = j.id, !.token = j.token,
                 !.by = j.by, !.complete = complete,
                 !.checksum = j.id # Work /\ checksum[j.id],
                 !.members = IF j.id = Work THEN Members ELSE {}]

\* Slip: an outdated job raises, and Sidekiq tries it again
LoadOrRaise(w, j) ==
    /\ worker[w].pc = "idle"
    /\ j \in queue \cap PreserveResourceJob
    /\ IF token[j.id] # j.token THEN UNCHANGED <<queue, worker>>
       ELSE /\ queue' = queue \ {j}
            /\ Goes(w, Loaded(j))
    /\ UNCHANGED <<token, complete, place, checksum, preservation, cloud, spent>>

\* The job reads the resource; if it has changed since, there is nothing to do.
Load(w, j) ==
    /\ worker[w].pc = "idle"
    /\ j \in queue \cap PreserveResourceJob
    /\ queue' = queue \ {j}
    /\ IF token[j.id] # j.token THEN UNCHANGED worker ELSE Goes(w, Loaded(j))
    /\ UNCHANGED <<token, complete, place, checksum, preservation, cloud, spent>>

\* Where the binary stands in the order of the Preserver's steps.
AfterObject(r) == IF r = Work THEN "metadata" ELSE "binary"

\* preserve?, then the search for the PreservationObject.
Begin(w) ==
    LET run == worker[w]
        preserves == IF run.id = Work THEN WorkPreserves(run.complete, place)
                                      ELSE FileSetPreserves(complete, place)
        found == preservation[run.id]
    IN  /\ run.pc = "loaded"
        /\ IF ~preserves THEN Goes(w, Idle)
           ELSE IF found = NoObject THEN Goes(w, [run EXCEPT !.pc = "creating"])
           ELSE Goes(w, [run EXCEPT !.pc = AfterObject(run.id), !.object = found])
        /\ UNCHANGED <<token, complete, place, checksum, preservation, cloud, queue, spent>>

Uploading == {"binary", "metadata", "moved", "saving", "committing"}

Retry(w) == /\ Goes(w, Idle)
            /\ queue' = queue \cup {Preserve(worker[w].id, worker[w].token, worker[w].by)}

\* Slip: no unique index
CreateAnotherObject(w) ==
    /\ worker[w].pc = "creating"
    /\ Goes(w, [worker[w] EXCEPT !.pc = AfterObject(worker[w].id), !.created = TRUE])
    /\ UNCHANGED <<token, complete, place, checksum, preservation, cloud, queue, spent>>

\* The unique index on preserved_object_id: an insert waits for an uncommitted
\* one of the same resource, and fails if one has been committed.
CreateObject(w) ==
    LET run == worker[w]
    IN  /\ run.pc = "creating"
        /\ \A v \in Workers \ {w} : ~(worker[v].created /\ worker[v].id = run.id)
        /\ IF preservation[run.id] # NoObject THEN Retry(w)
           ELSE /\ Goes(w, [run EXCEPT !.pc = AfterObject(run.id), !.created = TRUE])
                /\ UNCHANGED queue
        /\ UNCHANGED <<token, complete, place, checksum, preservation, cloud, spent>>

\* The binary is uploaded unless it has been, or has no checksum yet.
PreserveBinary(w) ==
    LET run == worker[w]
        due == run.checksum /\ run.object.binary = NoPlace
    IN  /\ run.pc = "binary"
        /\ Goes(w, [run EXCEPT !.pc = "metadata",
                         !.object = [run.object EXCEPT
                             !.binary = IF due THEN place ELSE run.object.binary]])
        /\ cloud' = IF due THEN [cloud EXCEPT ![KeyOf(run.id, place, "binary")] = 1]
                           ELSE cloud
        /\ UNCHANGED <<token, complete, place, checksum, preservation, queue, spent>>

\* The metadata goes to the path of today.  If the object records another one,
\* the hierarchy has changed.
PreserveMetadata(w) ==
    LET run == worker[w]
        moved == run.object.metadata \notin {NoPlace, place}
    IN  /\ run.pc = "metadata"
        /\ cloud' = [cloud EXCEPT ![KeyOf(run.id, place, "metadata")] = run.token]
        /\ Goes(w, [run EXCEPT !.pc = IF moved THEN "moved" ELSE "saving",
                         !.left = IF moved THEN run.object.metadata ELSE NoPlace,
                         !.object = [run.object EXCEPT !.metadata = place]])
        /\ UNCHANGED <<token, complete, place, checksum, preservation, queue, spent>>

\* The object after a move.
Moved(run) == [run.object EXCEPT
                 !.binary = IF run.checksum THEN place ELSE run.object.binary]

\* Slip: only the metadata file is cleaned up
ReorganizeMetadata(w) ==
    LET run == worker[w]
    IN  /\ run.pc = "moved"
        /\ cloud' = IF run.checksum
                      THEN [cloud EXCEPT ![KeyOf(run.id, place, "binary")] = 1]
                      ELSE cloud
        /\ queue' = queue \cup {Cleanup(run.id, run.left, "metadata")}
        /\ Goes(w, [run EXCEPT !.pc = "saving",
                         !.object = Moved(run)])
        /\ UNCHANGED <<token, complete, place, checksum, preservation, spent>>

\* After a move the binary is uploaded again, and what is at the old path is
\* given to CleanupFilesJob.
Reorganize(w) ==
    LET run == worker[w]
        old == run.object.binary
        oldKeys == {<<run.left, "metadata">>}
                     \cup (IF run.checksum /\ old \notin {NoPlace, place}
                             THEN {<<old, "binary">>} ELSE {})
    IN  /\ run.pc = "moved"
        /\ cloud' = IF run.checksum
                      THEN [cloud EXCEPT ![KeyOf(run.id, place, "binary")] = 1]
                      ELSE cloud
        /\ queue' = queue \cup {Cleanup(run.id, k[1], k[2]) : k \in oldKeys}
        /\ Goes(w, [run EXCEPT !.pc = "saving",
                         !.object = Moved(run)])
        /\ UNCHANGED <<token, complete, place, checksum, preservation, spent>>

\* Slip: a move is forgotten
ChildrenJobsOfNewWork(run) ==
    IF run.members # {} /\ (NeverPreserved(run.members) # {} \/ run.created)
      THEN {PreserveChildren(~run.created)}
      ELSE {}

\* The members it had when it was loaded are preserved with a work that is new
\* or has moved; else only those that never were.
ChildrenJobs(run) ==
    LET only_unpreserved == run.left = NoPlace /\ ~run.created
    IN  IF run.members # {} /\ (NeverPreserved(run.members) # {} \/ ~only_unpreserved)
          THEN {PreserveChildren(only_unpreserved)}
          ELSE {}

\* The object as it is saved.
Recorded(object, t) == [object EXCEPT !.version = t, !.lock = object.lock + 1]

\* Slip: recorded with the token that the resource has by now
SavedRunOfNow(run) == [run EXCEPT !.pc = "committing",
                                  !.object = Recorded(run.object, token[run.id])]

SavedRun(run) == [run EXCEPT !.pc = "committing",
                             !.object = Recorded(run.object, run.token)]

\* Slip: the object is saved without optimistic locking
SaveObjectUnlocked(w) ==
    LET run == worker[w]
    IN  /\ run.pc = "saving"
        /\ Goes(w, SavedRun(run))
        /\ queue' = queue \cup ChildrenJobs(run)
        /\ UNCHANGED <<token, complete, place, checksum, preservation, cloud, spent>>

\* The PreservationObject is updated if its lock token is still the one read;
\* the row is locked until the commit.  The job for the members is queued now.
SaveObject(w) ==
    LET run == worker[w]
        stale == ~run.created /\ preservation[run.id].lock # run.object.lock
    IN  /\ run.pc = "saving"
        /\ \A v \in Workers \ {w} : ~(worker[v].pc = "committing" /\ worker[v].id = run.id)
        /\ IF stale THEN Retry(w)
           ELSE /\ Goes(w, SavedRun(run))
                /\ queue' = queue \cup ChildrenJobs(run)
        /\ UNCHANGED <<token, complete, place, checksum, preservation, cloud, spent>>

Commit(w) ==
    /\ worker[w].pc = "committing"
    /\ preservation' = [preservation EXCEPT ![worker[w].id] = worker[w].object]
    /\ Goes(w, Idle)
    /\ UNCHANGED <<token, complete, place, checksum, cloud, queue, spent>>

\* An error or a crash: the transaction is rolled back, the job runs again.
Fail(w) ==
    /\ worker[w].pc # "idle"
    /\ Spend("errors", MaxErrors)
    /\ Retry(w)
    /\ UNCHANGED <<token, complete, place, checksum, preservation, cloud>>

Saves == \/ SaveWork
         \/ TakeDown
         \/ \E p \in Parents : Move(p)
         \/ \E f \in FileSets : AddFileSet(f)

ShortJobs == \/ \E f \in FileSets : Characterize(f) \/ CreateDerivatives(f)
             \/ \E u \in BOOLEAN : PreserveMembers(u)
             \/ \E k \in Key : CleanupFiles(k)

Preserver(w) == \/ \E j \in queue : Load(w, j)
                \/ Begin(w) \/ CreateObject(w)
                \/ PreserveBinary(w) \/ PreserveMetadata(w) \/ Reorganize(w)
                \/ SaveObject(w) \/ Commit(w)

Next == \/ Saves
        \/ ShortJobs
        \/ \E w \in Workers : Preserver(w) \/ Fail(w)

Spec == Init /\ [][Next]_vars

\* Sidekiq runs what is queued; nobody has to save anything.
FairSpec == Spec /\ WF_vars(ShortJobs) /\ \A w \in Workers : WF_vars(Preserver(w))

(***************************************************************************)
(* Properties.                                                             *)
(***************************************************************************)

Quiet == queue = {} /\ \A w \in Workers : worker[w].pc = "idle"

\* The resource is recorded as it is now, where it is now, and the metadata
\* file of that record is in the cloud.
MetadataPreserved(r) ==
    LET object == preservation[r]
    IN  /\ object # NoObject
        /\ object.version = token[r]
        /\ object.metadata = place
        /\ cloud[KeyOf(r, place, "metadata")] = token[r]

BinaryPreserved(f) == /\ preservation[f] # NoObject
                      /\ preservation[f].binary = place
                      /\ cloud[KeyOf(f, place, "binary")] = 1

\* Once no job is left, a work that preserves, and every file set in it, has
\* its last version in the cloud and on record, at the path it has now
\* (PreserveResource#run, Preserver#preserve!).
MetadataKept ==
    Quiet /\ WorkPreserves(complete, place) =>
        \A r \in {Work} \cup Members : MetadataPreserved(r)

\* So has every characterized binary (preserve_binary_node).
BinariesKept ==
    Quiet /\ WorkPreserves(complete, place) =>
        \A f \in Members : checksum[f] => BinaryPreserved(f)

\* Nothing that is to be preserved is missing once no job is left, whatever failed
\* in between and was run again.
AllKept == MetadataKept /\ BinariesKept

\* Nothing is left in the cloud at a path that no PreservationObject records
\* (preserver.rb, "clean up the old files").
NothingLeftBehind ==
    Quiet => \A k \in Key : cloud[k] # 0 =>
        /\ preservation[k.of] # NoObject
        /\ k.place = IF k.kind = "metadata" THEN preservation[k.of].metadata
                                            ELSE preservation[k.of].binary

\* A resource is first preserved by one Preserver at a time: what the unique
\* index on preserved_object_id is for (preserver.rb, preserve_binary_content).
FirstPreservationAlone ==
    \A v, w \in Workers :
        /\ v # w /\ worker[v].id = worker[w].id
        /\ worker[v].pc \in Uploading /\ worker[w].pc \in Uploading
        => preservation[worker[v].id] # NoObject

\* A record that has the token a characterized file set has now names its
\* binary, or nothing would ever ask for the binary again: whichever jobs came
\* too early, too late or twice (preserve_binary_content skips a file that has no
\* checksum; PreserveResourceJob drops a job whose token is not the current one).
CurrentNamesBinary ==
    \A f \in FileSets :
        /\ preservation[f] # NoObject /\ preservation[f].version = token[f]
        /\ checksum[f]
        => preservation[f].binary # NoPlace

\* A recorded preservation copy of a binary is never forgotten, whichever
\* threads save the object (optimistic locking of PreservationObject).
BinaryNodesKept ==
    [][\A f \in FileSets :
         preservation[f] # NoObject /\ preservation[f].binary # NoPlace
         => preservation'[f].binary # NoPlace]_vars

\* Sidekiq comes to rest: no thread waits for ever for the uncommitted row of
\* another, and no job is retried for ever (PreserveResourceJob, Preserver).
JobsRunOut == []<>Quiet

\* A version that the work keeps is recorded in the end (PreserveResource#run
\* queues a job for every save).
EveryVersionRecorded ==
    \A n \in 1 .. MaxSaves + MaxMoves + MaxTakedowns + Cardinality(FileSets) + 1 :
        (token[Work] = n /\ WorkPreserves(complete, place))
        ~> \/ token[Work] # n
           \/ preservation[Work] # NoObject /\ preservation[Work].version = n
=============================================================================
