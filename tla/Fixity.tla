-------------------------------- MODULE Fixity --------------------------------
(***************************************************************************)
(* The fixity checks of one preserved file set and their repairs: the      *)
(* cloud function checkFixity (cloud_fixity/index.js), CloudFixityJob and  *)
(* RepairCloudFixityJob, LocalFixityJob and RepairLocalFixityJob, and the  *)
(* Preserver as far as the repairs use it.                                 *)
(*                                                                         *)
(* Two files are in the cloud: the binary, whose local copy may break as   *)
(* well, and the metadata, which follow the file set: every save of it     *)
(* makes a new version and queues its preservation.  The content of a file *)
(* is the number of the version it holds, 0 when it is broken.             *)
(*                                                                         *)
(* The steps of a job are steps of a worker; what other workers do comes   *)
(* in between.  A job that raises or whose process dies is run again       *)
(* (super_fetch!).  `raced' is history: two first results of one file were *)
(* taken by two jobs at once.                                              *)
(***************************************************************************)
EXTENDS Integers, FiniteSets, FiniteSetsExt, Bags, BagsExt

CONSTANTS
    Workers,         \* threads of Sidekiq
    MaxRetries,      \* 5 in the code: how often the function tries a file
    Ids,             \* of events; as many as can be in use at once
    Mixes            \* bound: <<saves of the file set, files that break, errors>>
                     \* that are explored together

ASSUME FixityAssumption == /\ MaxRetries \in Nat \ {0}
                           /\ Ids \subseteq Nat \ {0} /\ Ids # {}
                           /\ Mixes \subseteq Nat \X Nat \X Nat
                           /\ IsFiniteSet(Mixes) /\ Mixes # {}

VARIABLES
    version,         \* of the file set
    local,           \* the local binary has the checksum on record
    content,         \* of the files in the cloud
    recorded,        \* the version the PreservationObject names
    outdated,        \* workers whose PreservationObject was saved by another
    events,          \* the current cloud fixity events
    localEvent,      \* status of the current local fixity event
    requests,        \* messages to the cloud function
    queue,           \* jobs
    at,              \* what each worker is doing
    edits, corruptions, faults,
    raced

fileVars  == <<version, local, content, recorded>>
eventVars == <<events, localEvent>>
bounds    == <<edits, corruptions, faults>>
vars      == <<fileVars, outdated, eventVars, requests, queue, at, bounds, raced>>

Files    == {"metadata", "binary"}
MaxEdits == Max({m[1] : m \in Mixes})
Versions == 0 .. MaxEdits + 1
Statuses == {"SUCCESS", "FAILURE", "REPAIRING"}

Events   == [id : Ids, file : Files, status : Statuses, child : Versions]
Requests == [file : Files, sum : Versions, retries : 0 .. MaxRetries - 1]
Jobs     == [kind : {"cloud"}, file : Files, status : {"SUCCESS", "FAILURE"}, child : Versions]
            \cup [kind : {"repair"}, event : Events]
            \cup [kind : {"preserve"}, version : Versions]
            \cup [kind : {"local", "repairLocal"}]
Steps    == {[step |-> "free"]}
            \cup [step : {"decided"}, job : Jobs, previous : SUBSET Events, status : Statuses]
            \cup [step : {"saved"}, job : Jobs, event : Events]
            \cup [step : {"replaced"}, job : Jobs]
            \cup [step : {"good", "broken"}, job : Jobs, version : Versions, found : BOOLEAN]
            \cup [step : {"upload", "uploaded", "preserved"}, job : Jobs, version : Versions]

IsABagOf(bag, S) == IsABag(bag) /\ DOMAIN bag \subseteq S

TypeOK == /\ version \in Versions
          /\ local \in BOOLEAN
          /\ content \in [Files -> Versions] /\ recorded \in [Files -> Versions]
          /\ outdated \subseteq Workers
          /\ events \subseteq Events /\ localEvent \in Statuses \cup {"NONE"}
          /\ IsABagOf(requests, Requests) /\ IsABagOf(queue, Jobs)
          /\ at \in [Workers -> Steps]
          /\ edits \in 0 .. MaxEdits /\ corruptions \in Nat /\ faults \in Nat
          /\ raced \in BOOLEAN

\* A file set that is preserved; it may have been checked before, and the local
\* binary may have broken since.
Init == /\ version = 1 /\ local \in BOOLEAN
        /\ content = [f \in Files |-> 1] /\ recorded = [f \in Files |-> 1] /\ outdated = {}
        /\ events \in {{}, {[id |-> CHOOSE i \in Ids : \A j \in Ids : i <= j, file |-> "binary", status |-> "SUCCESS", child |-> 1]}}
        /\ localEvent = "NONE"
        /\ requests = EmptyBag /\ queue = EmptyBag
        /\ at = [w \in Workers |-> [step |-> "free"]]
        /\ edits = 0 /\ corruptions = 0 /\ faults = 0 /\ raced = FALSE

Current(f) == {e \in events : e.file = f}

EventsOf(step) == CASE step.step = "decided" -> step.previous
                    [] step.step = "saved"   -> {step.event}
                    [] step.step = "free"    -> {}
                    [] OTHER                 -> IF step.job.kind = "repair" THEN {step.job.event} ELSE {}

\* Events that somebody still names keep their id.
IdsInUse(f) == {e.id : e \in {e \in events \cup UNION {EventsOf(at[w]) : w \in Workers}
                                     \cup {j.event : j \in {q \in DOMAIN queue : q.kind = "repair"}} : e.file = f}}

NewId(f) == CHOOSE i \in Ids \ IdsInUse(f) : \A j \in Ids \ IdsInUse(f) : i <= j

Free(w) == at' = [at EXCEPT ![w] = [step |-> "free"]]
To(w, step) == at' = [at EXCEPT ![w] = step]
On(w, step) == at[w].step = step

\* The job raises, and is queued again.
Raise(w) == Free(w) /\ queue' = BagAdd(queue, at[w].job)

OneMore(saves, breaks, errors) ==
    /\ edits' = edits + saves /\ corruptions' = corruptions + breaks /\ faults' = faults + errors
    /\ \E m \in Mixes : edits' <= m[1] /\ corruptions' <= m[2] /\ faults' <= m[3]

Quiet == requests = EmptyBag /\ queue = EmptyBag /\ \A w \in Workers : On(w, "free")

---------------------------------------------------------------------------
(* The cloud function *)

\* queue_resource_check!: a message for each file of the PreservationObject
Requested == requests (+) SetToBag({[file |-> f, sum |-> recorded[f], retries |-> 0] : f \in Files})

Result(r, status) == [kind |-> "cloud", file |-> r.file, status |-> status, child |-> r.sum]

\* checkFixity, and the worker that queues its result
CheckFixity(r) ==
    /\ requests' = BagRemove(requests, r)
    /\ queue' = BagAdd(queue, Result(r, IF content[r.file] = r.sum THEN "SUCCESS" ELSE "FAILURE"))
    /\ UNCHANGED <<fileVars, outdated, eventVars, at, bounds, raced>>

\* Slip: nobody counts.
RetryForever(r) ==
    /\ OneMore(0, 0, 1)
    /\ requests' = BagAdd(BagRemove(requests, r), [r EXCEPT !.retries = @ + 1])
    /\ UNCHANGED <<fileVars, outdated, eventVars, queue, at, raced>>

\* the catch: a stream or a publication fails
Retry(r) ==
    /\ OneMore(0, 0, 1)
    /\ IF r.retries + 1 >= MaxRetries
         THEN requests' = BagRemove(requests, r) /\ queue' = BagAdd(queue, Result(r, "FAILURE"))
         ELSE requests' = BagAdd(BagRemove(requests, r), [r EXCEPT !.retries = @ + 1]) /\ UNCHANGED queue
    /\ UNCHANGED <<fileVars, outdated, eventVars, at, raced>>

\* The last publication fails as well, or the message was acknowledged and its
\* job is not queued.
LoseResult(r) ==
    /\ OneMore(0, 0, 1)
    /\ requests' = BagRemove(requests, r)
    /\ UNCHANGED <<fileVars, outdated, eventVars, queue, at, raced>>

\* Pub/Sub delivers at least once.
DeliverAgain(r) ==
    /\ OneMore(0, 0, 1)
    /\ requests' = BagAdd(requests, r)
    /\ UNCHANGED <<fileVars, outdated, eventVars, queue, at, raced>>

---------------------------------------------------------------------------
(* CloudFixityJob *)

VersionsDiffer(f) == f = "metadata" /\ recorded["metadata"] # version

\* Slip: the answer is recorded as it is, and nothing repaired.
UpdatedStatusAsTold(job, repairing) == job.status

\* updated_status; `repairing' of the first of the previous events
UpdatedStatus(job, repairing) ==
    CASE repairing -> "FAILURE"
      [] ~repairing /\ (VersionsDiffer(job.file) \/ job.status = "FAILURE") -> "REPAIRING"
      [] OTHER -> job.status

\* previous_events: read, and kept until they are saved
Decide(w, job) ==
    /\ job.kind = "cloud"
    /\ \E repairing \in IF Current(job.file) = {} THEN {FALSE} ELSE {e.status = "REPAIRING" : e \in Current(job.file)} :
          To(w, [step |-> "decided", job |-> job, previous |-> Current(job.file),
                 status |-> UpdatedStatus(job, repairing)])
    /\ queue' = BagRemove(queue, job)
    /\ UNCHANGED <<fileVars, outdated, eventVars, requests, bounds, raced>>

SaveEvents(w, job, previous, status) ==
    LET e == [id |-> NewId(job.file), file |-> job.file, status |-> status, child |-> job.child]
    IN  /\ Ids \ IdsInUse(job.file) # {}
        /\ events' = (events \ previous) \cup {e}
        /\ raced' = (raced \/ (previous = {} /\ Current(job.file) # {}))
        /\ IF status = "REPAIRING" THEN To(w, [step |-> "saved", job |-> job, event |-> e]) ELSE Free(w)

\* Slip: events without optimistic lock.
SaveResultUnlocked(w) ==
    /\ On(w, "decided")
    /\ SaveEvents(w, at[w].job, at[w].previous, at[w].status) /\ UNCHANGED queue
    /\ UNCHANGED <<fileVars, outdated, localEvent, requests, bounds>>

\* The transaction.  Events have an optimistic lock: one that is no longer
\* current was saved by somebody else.
SaveResult(w) ==
    /\ On(w, "decided")
    /\ \/ /\ at[w].previous \subseteq events
          /\ SaveEvents(w, at[w].job, at[w].previous, at[w].status) /\ UNCHANGED queue
       \/ /\ ~(at[w].previous \subseteq events)
          /\ Raise(w) /\ UNCHANGED <<events, raced>>
    /\ UNCHANGED <<fileVars, outdated, localEvent, requests, bounds>>

\* current_cloud_fixity_event: the first that is current and names the node.
\* A node that was preserved again may have a new name for the same version.
QueueRepair(w) ==
    LET found == {e \in events : e.child = at[w].job.child /\ e.file = at[w].job.file}
    IN  /\ On(w, "saved")
        /\ \/ \E e \in found : Free(w) /\ queue' = BagAdd(queue, [kind |-> "repair", event |-> e])
           \/ at[w].event \notin events /\ Raise(w)
        /\ UNCHANGED <<fileVars, outdated, eventVars, requests, bounds, raced>>

---------------------------------------------------------------------------
(* LocalFixityJob and RepairLocalFixityJob *)

LocalStatus == IF local THEN "SUCCESS" ELSE IF localEvent = "REPAIRING" THEN "FAILURE" ELSE "REPAIRING"

AndRepair(q) == IF LocalStatus = "REPAIRING" THEN BagAdd(q, [kind |-> "repairLocal"]) ELSE q

CheckLocal(w, job) ==
    /\ job.kind = "local"
    /\ localEvent' = LocalStatus
    /\ queue' = AndRepair(BagRemove(queue, job))
    /\ UNCHANGED <<fileVars, outdated, events, requests, at, bounds, raced>>

\* Slip: the checksum of the cloud file is not compared.
RepairLocalUnchecked(w, job) ==
    /\ job.kind = "repairLocal"
    /\ local' = (content["binary"] # 0)
    /\ queue' = BagRemove(queue, job) /\ To(w, [step |-> "replaced", job |-> job])
    /\ UNCHANGED <<version, content, recorded, outdated, eventVars, requests, bounds, raced>>

\* replace_file_from_preservation_object
RepairLocal(w, job) ==
    /\ job.kind = "repairLocal"
    /\ local' = (local \/ content["binary"] # 0)
    /\ queue' = BagRemove(queue, job) /\ To(w, [step |-> "replaced", job |-> job])
    /\ UNCHANGED <<version, content, recorded, outdated, eventVars, requests, bounds, raced>>

CheckLocalAgain(w) == /\ On(w, "replaced")
                      /\ queue' = BagAdd(queue, [kind |-> "local"]) /\ Free(w)
                      /\ UNCHANGED <<fileVars, outdated, eventVars, requests, bounds, raced>>

---------------------------------------------------------------------------
(* RepairCloudFixityJob *)

\* The resource is read now, and this copy preserved later.
StartRepair(w, job) ==
    /\ job.kind = "repair"
    /\ \/ /\ job.event.file = "metadata"
          /\ To(w, [step |-> "upload", job |-> job, version |-> version])
          /\ queue' = BagRemove(queue, job) /\ UNCHANGED localEvent
       \/ /\ job.event.file = "binary"
          /\ localEvent' = LocalStatus
          /\ queue' = AndRepair(BagRemove(queue, job))
          /\ To(w, [step |-> IF local THEN "good" ELSE "broken", job |-> job, version |-> version, found |-> job.event \in events])
    /\ UNCHANGED <<fileVars, outdated, events, requests, bounds, raced>>

\* create_failed_cloud_fixity_event
GiveUp(w) ==
    LET old == at[w].job.event
        e   == [id |-> NewId(old.file), file |-> old.file, status |-> "FAILURE", child |-> old.child]
    IN  /\ On(w, "broken")
        /\ \/ /\ (at[w].found => old \in events) /\ Ids \ IdsInUse(old.file) # {}
              /\ events' = (events \ {old}) \cup {e} /\ Free(w) /\ UNCHANGED queue
           \/ /\ at[w].found /\ old \notin events
              /\ Raise(w) /\ UNCHANGED events
        /\ UNCHANGED <<fileVars, outdated, localEvent, requests, bounds, raced>>

\* preserve_binary_content, forced: the PreservationObject is read, the binary
\* uploaded.  The store refuses a file that does not have
\* the checksum on record.
UploadBinary(w) ==
    /\ On(w, "good")
    /\ \/ /\ local
          /\ content' = [content EXCEPT !["binary"] = 1] /\ outdated' = outdated \ {w}
          /\ To(w, [step |-> "upload", job |-> at[w].job, version |-> at[w].version]) /\ UNCHANGED queue
       \/ ~local /\ Raise(w) /\ UNCHANGED <<content, outdated>>
    /\ UNCHANGED <<version, local, recorded, eventVars, requests, bounds, raced>>

RepairsBinary(job) == job.kind = "repair" /\ job.event.file = "binary"

\* preserve_metadata.  The PreservationObject is read before the first upload.
UploadMetadata(w) ==
    /\ On(w, "upload")
    /\ content' = [content EXCEPT !["metadata"] = at[w].version]
    /\ outdated' = IF RepairsBinary(at[w].job) THEN outdated ELSE outdated \ {w}
    /\ To(w, [step |-> "uploaded", job |-> at[w].job, version |-> at[w].version])
    /\ UNCHANGED <<version, local, recorded, eventVars, requests, queue, bounds, raced>>

\* and the object saved, if nobody else has saved it.
Record(w) ==
    /\ On(w, "uploaded")
    /\ \/ /\ w \notin outdated
          /\ recorded' = [recorded EXCEPT !["metadata"] = at[w].version]
          /\ outdated' = Workers \ {w} /\ UNCHANGED queue
          /\ IF at[w].job.kind = "repair" THEN To(w, [step |-> "preserved", job |-> at[w].job, version |-> at[w].version]) ELSE Free(w)
       \/ w \in outdated /\ Raise(w) /\ UNCHANGED <<recorded, outdated>>
    /\ UNCHANGED <<version, local, content, eventVars, requests, bounds, raced>>

CheckAgain(w) == /\ On(w, "preserved")
                 /\ requests' = Requested /\ Free(w)
                 /\ UNCHANGED <<fileVars, outdated, eventVars, queue, bounds, raced>>

\* PreserveResourceJob: only of the version it was queued for
StartPreserve(w, job) ==
    /\ job.kind = "preserve"
    /\ queue' = BagRemove(queue, job)
    /\ IF job.version = version THEN To(w, [step |-> "upload", job |-> job, version |-> version]) ELSE UNCHANGED at
    /\ UNCHANGED <<fileVars, outdated, eventVars, requests, bounds, raced>>

---------------------------------------------------------------------------
(* What comes from outside *)

\* The daily checks are random; what is modelled is the day that picks this
\* file set.  The checks of the day before are through.
DailyCheck == /\ Quiet
              /\ requests' = Requested /\ queue' = BagAdd(queue, [kind |-> "local"])
              /\ UNCHANGED <<fileVars, outdated, eventVars, at, bounds, raced>>

Edit == /\ OneMore(1, 0, 0)
        /\ version' = version + 1
        /\ queue' = BagAdd(queue, [kind |-> "preserve", version |-> version'])
        /\ UNCHANGED <<local, content, recorded, outdated, eventVars, requests, at, raced>>

Corrupt == /\ OneMore(0, 1, 0)
           /\ \/ local' = FALSE /\ UNCHANGED content
              \/ \E f \in Files : content' = [content EXCEPT ![f] = 0] /\ UNCHANGED local
           /\ UNCHANGED <<version, recorded, outdated, eventVars, requests, queue, at, raced>>

\* An error or a crash anywhere in a job
Fault(w) == /\ OneMore(0, 0, 1)
            /\ ~On(w, "free") /\ Raise(w)
            /\ UNCHANGED <<fileVars, outdated, eventVars, requests, raced>>

---------------------------------------------------------------------------

Take(w) == On(w, "free") /\ \E job \in DOMAIN queue :
              \/ Decide(w, job) \/ CheckLocal(w, job) \/ RepairLocal(w, job)
              \/ StartRepair(w, job) \/ StartPreserve(w, job)

Work(w) == \/ Take(w)
           \/ SaveResult(w) \/ QueueRepair(w) \/ CheckLocalAgain(w)
           \/ GiveUp(w) \/ UploadBinary(w) \/ UploadMetadata(w) \/ Record(w) \/ CheckAgain(w)

Check == \E r \in DOMAIN requests : CheckFixity(r)

Trouble == \/ \E r \in DOMAIN requests : Retry(r) \/ LoseResult(r) \/ DeliverAgain(r)
           \/ \E w \in Workers : Fault(w)
           \/ Corrupt

Next == \/ \E w \in Workers : Work(w)
        \/ Check \/ DailyCheck \/ Edit \/ Trouble

Spec == Init /\ [][Next]_vars

\* Sidekiq goes on, Pub/Sub delivers, and a day comes that picks the file set:
\* as it comes when no message is left, one condition does for both.
FairSpec == Spec /\ (\A w \in Workers : WF_vars(Work(w))) /\ WF_vars(Check \/ DailyCheck)

---------------------------------------------------------------------------
(* Properties *)

\* A repair never replaces a good copy by a broken one, however the checks and
\* the repairs of the two copies and what breaks meanwhile are interleaved.
GoodCopiesKept == [][corruptions' = corruptions => /\ local => local'
                                                   /\ content["binary"] = 1 => content'["binary"] = 1]_vars

\* Once the first check is recorded, at most one repair of a file is announced:
\* results that arrive together or twice do not start a second.
OneRepairAtATime == raced \/ \A d, e \in events :
    d.file = e.file /\ d.status = "REPAIRING" /\ e.status = "REPAIRING" => d = e

AllGood == local /\ content = [f \in Files |-> IF f = "binary" THEN 1 ELSE version] /\ recorded["metadata"] = version

Lost == ~local /\ content["binary"] = 0

\* From some time on all copies are good and the events say so; or no good copy
\* of the binary was left, and no event says that there is.
Settles == <>[](\/ AllGood /\ \A e \in events : e.status = "SUCCESS"
                \/ Lost /\ localEvent # "SUCCESS" /\ \A e \in Current("binary") : e.status # "SUCCESS")
=============================================================================
