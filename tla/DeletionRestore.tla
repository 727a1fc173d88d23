--------------------------- MODULE DeletionRestore ---------------------------
(***************************************************************************)
(* Deleting a work and its file sets, and bringing them back.  A request   *)
(* deletes a resource in one transaction, except for the jobs it puts into *)
(* Redis meanwhile; the file sets of a work are deleted by a job each,     *)
(* step by step.  A deletion marker keeps the PreservationObject of what   *)
(* was deleted.  Restoring imports the resource from preservation storage, *)
(* lists it in its parent, restores its members and deletes the marker.    *)
(*                                                                         *)
(* At the start everything has been preserved.  Jobs are a set: of two     *)
(* that are the same the second finds nothing left to do.                  *)
(***************************************************************************)
EXTENDS Integers, FiniteSets, Sequences, SequencesExt

CONSTANTS
    Work,         \* a complete work that has no parent
    FileSets,     \* its members
    Workers,      \* web and Sidekiq threads
    Nothing,      \* null: no parent, no marker
    Mixes         \* bounds: how many requests and failures a behaviour has

Events == {"deletes", "restores",   \* requests of users
           "errors",    \* jobs that fail, and that Sidekiq runs again
           "crashes"}   \* requests that fail, or lose what follows their commit

Resources == {Work} \cup FileSets

DeletionMarker == [id : Nat, of : Resources, kept : BOOLEAN, parent : {Work, Nothing}]

ASSUME DeletionAssumption == /\ Work \notin FileSets /\ IsFiniteSet(FileSets)
                             /\ Nothing \notin Resources \cup DeletionMarker
                             /\ Mixes \subseteq [Events -> Nat]

VARIABLES
    exists,   \* resources in the database
    members,  \* member_ids of the work
    token,    \* its lock token
    binary,   \* file set -> the file it names, and whether that is there
    object,   \* resources that have a PreservationObject
    cloud,    \* resources whose metadata is at its path in preservation storage
    stored,   \* the members that the last version there lists for the work
    markers,  \* deletion markers; `kept': with a PreservationObject
    made,     \* how many markers have been made
    jobs,     \* jobs that wait in Redis
    worker,   \* thread -> what it is doing
    left,     \* what is left of the bounds
    wanted,   \* history: the resources there are if every request is granted
    untimely, \* history: a request came while another was under way
    failed    \* history: what kind of failures there have been

database == <<exists, members, token>>
aside    == <<left, wanted, untimely, failed>>
vars == <<database, binary, object, cloud, stored, markers, made, jobs, worker, aside>>

Job == [kind : {"deleteMember", "restore", "cleanupFiles", "cleanupPreservation",
                "preserve", "preserveChildren", "characterize"},
        of : Resources, id : Nat]

Run == [pc : {"idle", "deleting", "marked", "unlisting", "unlinked", "dropped",
              "import", "attach", "members", "finish"},
        of : Resources, ids : Seq(FileSets),
        marker : DeletionMarker \cup {Nothing}, outer : DeletionMarker \cup {Nothing}]

Idle == [pc |-> "idle", of |-> Work, ids |-> <<>>,
         marker |-> Nothing, outer |-> Nothing]

TypeOK ==
    /\ exists \subseteq Resources
    /\ members \in Seq(FileSets)
    /\ token \in Nat
    /\ binary \in [FileSets -> [id : Nat, there : BOOLEAN]]
    /\ object \subseteq Resources /\ cloud \subseteq Resources
    /\ stored \in Seq(FileSets)
    /\ markers \subseteq DeletionMarker
    /\ made \in Nat
    /\ jobs \subseteq Job
    /\ worker \in [Workers -> Run]
    /\ left \in [Events -> Nat]
    /\ wanted \subseteq Resources
    /\ untimely \in BOOLEAN /\ failed \subseteq Events

Init ==
    /\ exists = Resources /\ members \in SetToSeqs(FileSets) /\ token = 0
    /\ binary = [f \in FileSets |-> [id |-> 0, there |-> TRUE]]
    /\ object = Resources /\ cloud = Resources /\ stored = members
    /\ markers = {} /\ made = 0
    /\ jobs = {} /\ worker = [w \in Workers |-> Idle]
    /\ left \in Mixes
    /\ wanted = Resources /\ untimely = FALSE /\ failed = {}
-----------------------------------------------------------------------------
Quiet == jobs = {} /\ \A w \in Workers : worker[w].pc = "idle"

Spend(event) == /\ left[event] > 0
                /\ left' = [left EXCEPT ![event] = @ - 1]

\* A user asks for something, in time or not
Request(event) ==
    /\ Spend(event)
    /\ untimely' = (untimely \/ ~Quiet)
    /\ UNCHANGED failed

Failure(event) == Spend(event) /\ failed' = failed \cup {event}

Queued(kind, rs) == [kind : {kind}, of : rs, id : {0}]

Listed(f) == Work \in exists /\ f \in ToSet(members)

\* PreserveResourceJobs for those of rs that are to be preserved (ChangeSet and
\* FileSetChangeSet#preserve?), given the resources and members there are
PreserveJobs(rs, there, ids, t) ==
    {[kind |-> "preserve", of |-> r, id |-> IF r = Work THEN t ELSE 0] :
        r \in {r \in rs \cap there : r = Work \/ (Work \in there \cap object /\ r \in ToSet(ids))}}

Preserve(rs)      == PreserveJobs(rs, exists, members, token)
PreserveSaved(rs) == PreserveJobs(rs, exists', members', token')

\* ids that are not in gone, in their order
Without(ids, gone) ==
    LET rest[n \in 0 .. Len(ids)] == IF n = 0 THEN <<>>
                                     ELSE IF ids[n] \in gone THEN rest[n - 1]
                                     ELSE Append(rest[n - 1], ids[n])
    IN  rest[Len(ids)]

SaveMembers(ids) == members' = ids /\ token' = token + 1 /\ UNCHANGED exists

Goes(w, pc) == worker' = [worker EXCEPT ![w].pc = pc]

Rests(w) == worker' = [worker EXCEPT ![w] = Idle]
-----------------------------------------------------------------------------
(***************************************************************************)
(* Deletion by a request                                                   *)
(***************************************************************************)
\* Slip: the marker is made after the PreservationObject is deleted.
MarkerOfTheRest(r, parent) ==
    [id |-> made, of |-> r, kept |-> FALSE, parent |-> parent]

\* Slip: a deletion marker names itself as the parent.
MarkerOfOrphan(r, parent) ==
    [id |-> made, of |-> r, kept |-> r \in object, parent |-> r]

MarkerOf(r, parent) ==
    [id |-> made, of |-> r, kept |-> r \in object, parent |-> parent]

CleanupFiles(f) == [kind |-> "cleanupFiles", of |-> f, id |-> binary[f].id]

\* The marker is made first, and the job that removes the files is queued at
\* once, before the commit
Destroy(w, r) ==
    LET ids == IF r = Work THEN members ELSE <<>>
    IN  /\ worker[w].pc = "idle" /\ r \in exists
        /\ Request("deletes")
        /\ wanted' = wanted \ ({r} \cup ToSet(ids))
        /\ made' = made + 1
        /\ jobs' = jobs \cup {CleanupFiles(f) : f \in {r} \cap FileSets}
        /\ worker' = [worker EXCEPT ![w] =
             [Idle EXCEPT !.pc = "deleting", !.of = r, !.ids = ids,
                          !.marker = MarkerOf(r, IF r # Work /\ Listed(r) THEN Work ELSE Nothing)]]
        /\ UNCHANGED <<database, binary, object, cloud, stored, markers>>

\* Slip: the lock token of the parent is the one that was read before the delete.
AfterDeleteUnreloaded(d) ==
    PreserveJobs(IF d.of # Work /\ Listed(d.of) THEN {Work} ELSE {}, exists, members, token)
        \cup Queued("cleanupPreservation", {d.of} \cap object)
        \cup Queued("deleteMember", ToSet(d.ids))

\* What waits for the commit: PreserveResource of the parent (reloaded),
\* CleanupPreservation, DeleteMembers
AfterDelete(d) ==
    PreserveSaved(IF d.of # Work /\ Listed(d.of) THEN {Work} ELSE {})
        \cup Queued("cleanupPreservation", {d.of} \cap object)
        \cup Queued("deleteMember", ToSet(d.ids))

Commit(w) ==
    LET d == worker[w]
    IN  /\ d.pc = "deleting"
        /\ exists' = exists \ {d.of}
        /\ markers' = markers \cup {d.marker}
        /\ object' = object \ {d.of}
        /\ IF d.of # Work /\ Listed(d.of)
           THEN members' = Without(members, {d.of}) /\ token' = token + 1
           ELSE UNCHANGED <<members, token>>
        /\ \/ jobs' = jobs \cup AfterDelete(d) /\ UNCHANGED <<left, failed>>
           \/ Failure("crashes") /\ UNCHANGED jobs
        /\ Rests(w)
        /\ UNCHANGED <<binary, cloud, stored, made, wanted, untimely>>

\* The parent turns out to be stale, or the process stops
RollBack(w) ==
    /\ worker[w].pc = "deleting"
    /\ Failure("crashes")
    /\ Rests(w)
    /\ UNCHANGED <<database, binary, object, cloud, stored, markers, made, jobs, wanted,
                   untimely>>
-----------------------------------------------------------------------------
(***************************************************************************)
(* DeleteMemberJob: the same handlers, each step on its own                *)
(***************************************************************************)
DeleteMember(w, f) ==
    LET job == Queued("deleteMember", {f})
    IN  /\ worker[w].pc = "idle" /\ job \subseteq jobs
        /\ IF f \in exists
           THEN /\ markers' = markers \cup {MarkerOf(f, Work)}
                /\ made' = made + 1
                /\ jobs' = (jobs \ job) \cup {CleanupFiles(f)}
                /\ worker' = [worker EXCEPT ![w] = [Idle EXCEPT !.pc = "marked", !.of = f]]
           ELSE jobs' = jobs \ job /\ UNCHANGED <<markers, made, worker>>
        /\ UNCHANGED <<database, binary, object, cloud, stored, aside>>

\* CleanupStructure saves the parent, and has it preserved, with the member
CleanupStructure(w) ==
    /\ worker[w].pc = "marked"
    /\ IF Listed(worker[w].of)
       THEN /\ SaveMembers(members)
            /\ jobs' = jobs \cup PreserveSaved({Work})
       ELSE UNCHANGED <<database, jobs>>
    /\ Goes(w, "unlisting")
    /\ UNCHANGED <<binary, object, cloud, stored, markers, made, aside>>

\* CleanupMembership saves it without the member, and does not
CleanupMembership(w) ==
    /\ worker[w].pc = "unlisting"
    /\ IF Listed(worker[w].of) THEN SaveMembers(Without(members, {worker[w].of}))
                               ELSE UNCHANGED database
    /\ Goes(w, "unlinked")
    /\ UNCHANGED <<binary, object, cloud, stored, markers, made, jobs, aside>>

\* DeleteReferenced, and CleanupPreservation with it
DeleteReferenced(w) ==
    /\ worker[w].pc = "unlinked"
    /\ object' = object \ {worker[w].of}
    /\ jobs' = jobs \cup Queued("cleanupPreservation", {worker[w].of} \cap object)
    /\ Goes(w, "dropped")
    /\ UNCHANGED <<database, binary, cloud, stored, markers, made, aside>>

DeleteRow(w) ==
    /\ worker[w].pc = "dropped"
    /\ exists' = exists \ {worker[w].of}
    /\ Rests(w)
    /\ UNCHANGED <<members, token, binary, object, cloud, stored, markers, made, jobs, aside>>
-----------------------------------------------------------------------------
(***************************************************************************)
(* RestoreFromDeletionMarkerJob                                            *)
(***************************************************************************)
RestoreJob(m) == [kind |-> "restore", of |-> m.of, id |-> m.id]

\* With its members, as preservation storage lists them
WithMembers(r) == {r} \cup IF r = Work THEN ToSet(stored) ELSE {}

Restore(m) ==
    /\ m \in markers
    /\ Request("restores")
    /\ wanted' = wanted \cup IF m.kept THEN WithMembers(m.of) ELSE {}
    /\ jobs' = jobs \cup {RestoreJob(m)}
    /\ UNCHANGED <<database, binary, object, cloud, stored, markers, made, worker>>

\* find_by raises when the marker is gone; one without an object is passed over
TakeRestore(w) ==
    \E j \in jobs :
        LET found == {m \in markers : RestoreJob(m) = j /\ m.kept}
        IN  /\ j.kind = "restore" /\ worker[w].pc = "idle"
            /\ jobs' = jobs \ {j}
            /\ \/ \E m \in found : worker' = [worker EXCEPT ![w] =
                                     [Idle EXCEPT !.pc = "import", !.marker = m]]
               \/ found = {} /\ UNCHANGED worker
            /\ UNCHANGED <<database, binary, object, cloud, stored, markers, made, aside>>

\* Slip: the metadata is imported, and not the file.
ImportedWithoutFile(m) ==
    /\ exists' = exists \cup {m.of}
    /\ members' = IF m.of = Work THEN stored ELSE members
    /\ token' = IF m.of = Work THEN token + 1 ELSE token
    /\ UNCHANGED binary

\* from_preservation_object: the resource, and its file under a new identifier
Imported(m) ==
    /\ exists' = exists \cup {m.of}
    /\ members' = IF m.of = Work THEN stored ELSE members
    /\ token' = IF m.of = Work THEN token + 1 ELSE token
    /\ binary' = [f \in FileSets |->
         IF f = m.of THEN [id |-> binary[f].id + 1, there |-> TRUE] ELSE binary[f]]

\* PreserveResource follows the commit
Import(w) ==
    LET m == worker[w].marker
    IN  /\ worker[w].pc = "import"
        /\ Imported(m)
        /\ jobs' = jobs \cup PreserveSaved({m.of})
        /\ worker' = [worker EXCEPT ![w].pc = "attach",
                                    ![w].ids = IF m.of = Work THEN stored ELSE @]
        /\ UNCHANGED <<object, cloud, stored, markers, made, aside>>

\* A resource that is there already and has changed is not written over
ImportStale(w) ==
    /\ worker[w].pc = "import" /\ worker[w].marker.of \in exists
    /\ Rests(w)
    /\ UNCHANGED <<database, binary, object, cloud, stored, markers, made, jobs, aside>>

\* A parent that is gone makes the job fail, whenever Sidekiq runs it
ParentGone(w) ==
    /\ worker[w].pc = "attach"
    /\ worker[w].marker.parent # Nothing /\ Work \notin exists
    /\ failed' = failed \cup {"errors"}
    /\ Rests(w)
    /\ UNCHANGED <<database, binary, object, cloud, stored, markers, made, jobs, left, wanted,
                   untimely>>

AttachToParent(w) ==
    LET m    == worker[w].marker
        next == IF m.of = Work THEN "members" ELSE "finish"
    IN  /\ worker[w].pc = "attach"
        /\ \/ /\ m.parent = Nothing \/ Listed(m.of)
              /\ Goes(w, next) /\ UNCHANGED <<database, jobs>>
           \/ /\ m.parent # Nothing /\ Work \in exists /\ ~Listed(m.of)
              /\ SaveMembers(Append(members, m.of))
              /\ jobs' = jobs \cup PreserveSaved({Work})
              /\ Goes(w, next)
        /\ UNCHANGED <<binary, object, cloud, stored, markers, made, aside>>

\* Slip: only the first member is restored.
RestoreFirstMember(w) ==
    LET d     == worker[w]
        found == {m \in markers : m.of = Head(d.ids)}
    IN  /\ d.pc = "members" /\ d.ids # <<>>
        /\ \/ \E m \in found :
                 /\ m.kept
                 /\ worker' = [worker EXCEPT ![w] =
                      [d EXCEPT !.ids = <<>>, !.pc = "import", !.marker = m, !.outer = d.marker]]
           \/ /\ found = {} \/ \E m \in found : ~m.kept
              /\ worker' = [worker EXCEPT ![w] = [d EXCEPT !.ids = <<>>]]
        /\ UNCHANGED <<database, binary, object, cloud, stored, markers, made, jobs, aside>>

\* The next member, by whichever marker of it comes first
RestoreMember(w) ==
    LET d     == worker[w]
        found == {m \in markers : m.of = Head(d.ids)}
        next  == [d EXCEPT !.ids = Tail(@)]
    IN  /\ d.pc = "members" /\ d.ids # <<>>
        /\ \/ \E m \in found :
                 /\ m.kept
                 /\ worker' = [worker EXCEPT ![w] =
                      [next EXCEPT !.pc = "import", !.marker = m, !.outer = d.marker]]
           \/ /\ found = {} \/ \E m \in found : ~m.kept
              /\ worker' = [worker EXCEPT ![w] = next]
        /\ UNCHANGED <<database, binary, object, cloud, stored, markers, made, jobs, aside>>

\* The marker is deleted; a member's returns to its work's
Finish(w) ==
    LET d == worker[w]
    IN  /\ d.pc = "finish" \/ (d.pc = "members" /\ d.ids = <<>>)
        /\ jobs' = jobs \cup Queued("characterize", {d.marker.of} \cap FileSets)
        /\ markers' = markers \ {d.marker}
        /\ worker' = [worker EXCEPT ![w] =
             IF d.outer = Nothing THEN Idle
             ELSE [d EXCEPT !.pc = "members", !.marker = d.outer, !.outer = Nothing]]
        /\ UNCHANGED <<database, binary, object, cloud, stored, made, aside>>

Reimported(f) ==
    /\ exists' = exists \cup {f} /\ members' = Append(members, f) /\ token' = token + 1
    /\ binary' = [binary EXCEPT ![f] = [id |-> @.id + 1, there |-> TRUE]]

\* RestoreFromDeletionMarkers: the file manager brings a member back in one
\* transaction with the save of the work
Reinstate(m) ==
    LET f == m.of
    IN  /\ m \in markers /\ m.parent = Work /\ Work \in exists
        /\ Request("restores")
        /\ IF m.kept
           THEN /\ Reimported(f)
                /\ markers' = markers \ {m}
                /\ wanted' = wanted \cup {f}
           ELSE /\ SaveMembers(members) /\ UNCHANGED <<binary, markers, wanted>>
        /\ jobs' = jobs \cup Queued("characterize", IF m.kept THEN {f} ELSE {})
                         \cup PreserveSaved({Work} \cup IF m.kept THEN {f} ELSE {})
        /\ UNCHANGED <<object, cloud, stored, made, worker>>

\* A job fails before its next step, and Sidekiq runs it again
Retry(d) ==
    IF d.pc \in {"marked", "unlisting", "unlinked", "dropped"} THEN Queued("deleteMember", {d.of})
    ELSE {RestoreJob(IF d.outer = Nothing THEN d.marker ELSE d.outer)}

FailJob(w) ==
    /\ worker[w].pc \notin {"idle", "deleting"}
    /\ Failure("errors")
    /\ jobs' = jobs \cup Retry(worker[w])
    /\ Rests(w)
    /\ UNCHANGED <<database, binary, object, cloud, stored, markers, made, wanted, untimely>>
-----------------------------------------------------------------------------
(***************************************************************************)
(* The other jobs                                                          *)
(***************************************************************************)
RunCleanupFiles(j) ==
    /\ j \in jobs /\ j.kind = "cleanupFiles"
    /\ jobs' = jobs \ {j}
    /\ binary' = [binary EXCEPT ![j.of].there = @ /\ binary[j.of].id # j.id]
    /\ UNCHANGED <<database, object, cloud, stored, markers, made, worker, aside>>

\* Whatever metadata is at the path by now
RunCleanupPreservation(j) ==
    /\ j \in jobs /\ j.kind = "cleanupPreservation"
    /\ jobs' = jobs \ {j}
    /\ cloud' = cloud \ {j.of}
    /\ UNCHANGED <<database, binary, object, stored, markers, made, worker, aside>>

NeverPreserved == Without(members, object)

ChildrenJob(number) == [kind |-> "preserveChildren", of |-> Work, id |-> number]

\* preserve_children: all of them the first time, else those without an object
Children(r) ==
    {j \in {ChildrenJob(0), ChildrenJob(1)} :
        /\ r = Work /\ members # <<>>
        /\ IF j.id = 0 THEN Work \notin object
                       ELSE Work \in object /\ NeverPreserved # <<>>}

\* A job for a version that is not current any more does nothing
PreserveResource(j) ==
    LET r == j.of
    IN  /\ j \in jobs /\ j.kind = "preserve"
        /\ IF j \in Preserve({r})
           THEN /\ object' = object \cup {r} /\ cloud' = cloud \cup {r}
                /\ stored' = IF r = Work THEN members ELSE stored
                /\ jobs' = (jobs \ {j}) \cup Children(r)
           ELSE jobs' = jobs \ {j} /\ UNCHANGED <<object, cloud, stored>>
        /\ UNCHANGED <<database, binary, markers, made, worker, aside>>

\* The first member that is not there ends the job
PreserveChildren(j) ==
    LET ids     == IF j = ChildrenJob(0) THEN members ELSE NeverPreserved
        reached == {ids[i] : i \in {i \in DOMAIN ids : \A k \in 1..i : ids[k] \in exists}}
    IN  /\ j \in jobs /\ j.kind = "preserveChildren"
        /\ jobs' = (jobs \ {j}) \cup
             {[kind |-> "preserve", of |-> f, id |-> 0] : f \in {f \in reached : Work \in exists}}
        /\ UNCHANGED <<database, binary, object, cloud, stored, markers, made, worker, aside>>

\* CharacterizationJob and the CreateDerivativesJob it queues, which saves
Characterize(j) ==
    /\ j \in jobs /\ j.kind = "characterize"
    /\ jobs' = (jobs \ {j}) \cup Preserve({j.of})
    /\ UNCHANGED <<database, binary, object, cloud, stored, markers, made, worker, aside>>
-----------------------------------------------------------------------------
Next ==
    \/ \E w \in Workers :
          \/ \E r \in Resources : Destroy(w, r)
          \/ Commit(w) \/ RollBack(w)
          \/ \E f \in FileSets : DeleteMember(w, f)
          \/ CleanupStructure(w) \/ CleanupMembership(w) \/ DeleteReferenced(w) \/ DeleteRow(w)
          \/ TakeRestore(w) \/ Import(w) \/ ImportStale(w) \/ AttachToParent(w) \/ ParentGone(w)
          \/ RestoreMember(w) \/ Finish(w) \/ FailJob(w)
    \/ \E m \in markers : Restore(m) \/ Reinstate(m)
    \/ \E j \in jobs : \/ RunCleanupFiles(j) \/ RunCleanupPreservation(j)
                      \/ PreserveResource(j) \/ PreserveChildren(j) \/ Characterize(j)

Spec == Init /\ [][Next]_vars
-----------------------------------------------------------------------------
Orderly == Quiet /\ ~untimely /\ failed = {}

\* A PreservationObject, its own or a marker's, to restore it from
Recoverable(r) == r \in object \/ \E m \in markers : m.of = r /\ m.kept

BeingDeleted(r) ==
    \/ Queued("deleteMember", {r}) \subseteq jobs
    \/ \E w \in Workers : worker[w].of = r /\ worker[w].pc \in
            {"deleting", "marked", "unlisting", "unlinked", "dropped"}

\* What has been preserved can be brought back once it is gone, through any failures
\* of jobs and requests: its marker is there before its PreservationObject goes, and
\* stays until it is imported, and a job that runs again does not spoil it.
NeverLost ==
    [][untimely' \/ \A r \in Resources : Recoverable(r) => \/ Recoverable(r)'
                                                           \/ r \in exists' /\ ~BeingDeleted(r)']_vars

\* When nothing is left to do, exactly what users asked for is there, and a work
\* lists its members: it was deleted with them, and restored with them.
DoneAsAsked ==
    Orderly => exists = wanted /\ (Work \in exists => ToSet(members) = exists \cap FileSets)

\* What has been restored is preserved again, by the save of the import, the
\* first preservation of its work, or the save after its characterization.
PreservedAgain ==
    Orderly => /\ exists \subseteq object /\ exists \subseteq cloud
               /\ Work \in exists => stored = members

\* A file set has its file, unless its deletion is under way: what has been
\* imported got a file of its own, and no job of the deletion takes it again.  A
\* request that fails after it has queued CleanupFilesJob is the exception.
BinariesThere ==
    "crashes" \in failed \/ \A f \in exists \cap FileSets : binary[f].there \/ BeingDeleted(f)
=============================================================================
