---------------------------- MODULE FixityProofs ----------------------------
(***************************************************************************)
(* What holds of Fixity for any number of workers, retries, saves, broken  *)
(* files and errors: its types, that no repair replaces a good copy by a   *)
(* broken one, and that once a first result is recorded no file has two    *)
(* repairs announced.                                                      *)
(***************************************************************************)
EXTENDS Fixity, SequenceLemmas

-----------------------------------------------------------------------------
(***************************************************************************)
(* Types                                                                   *)
(***************************************************************************)
LEMMA BagAdded ==
    ASSUME NEW S, NEW B, IsABagOf(B, S), NEW x \in S
    PROVE  IsABagOf(BagAdd(B, x), S)
<1>1. B \in [DOMAIN B -> {n \in Nat : n > 0}] /\ DOMAIN B \subseteq S
  BY DEF IsABagOf, IsABag
<1>2. CASE x \in DOMAIN B
  <2>1. BagAdd(B, x) = [e \in DOMAIN B |-> IF e = x THEN B[e] + 1 ELSE B[e]]
    BY <1>2 DEF BagAdd
  <2> QED BY <1>1, <2>1 DEF IsABagOf, IsABag
<1>3. CASE x \notin DOMAIN B
  <2>1. BagAdd(B, x) = [e \in DOMAIN B \cup {x} |-> IF e = x THEN 1 ELSE B[e]]
    BY <1>3 DEF BagAdd
  <2> QED BY <1>1, <2>1 DEF IsABagOf, IsABag
<1> QED BY <1>2, <1>3

LEMMA BagRemoved ==
    ASSUME NEW S, NEW B, IsABagOf(B, S), NEW x
    PROVE  IsABagOf(BagRemove(B, x), S)
<1>1. B \in [DOMAIN B -> {n \in Nat : n > 0}] /\ DOMAIN B \subseteq S
  BY DEF IsABagOf, IsABag
<1>2. CASE x \in DOMAIN B /\ B[x] = 1
  <2>1. BagRemove(B, x) = [e \in DOMAIN B \ {x} |-> B[e]]
    BY <1>2 DEF BagRemove
  <2> QED BY <1>1, <2>1 DEF IsABagOf, IsABag
<1>3. CASE x \in DOMAIN B /\ B[x] # 1
  <2>1. BagRemove(B, x) = [e \in DOMAIN B |-> IF e = x THEN B[e] - 1 ELSE B[e]]
    BY <1>3 DEF BagRemove
  <2>2. \A e \in DOMAIN B : (IF e = x THEN B[e] - 1 ELSE B[e]) \in {n \in Nat : n > 0}
    BY <1>1, <1>3
  <2> QED BY <1>1, <2>1, <2>2 DEF IsABagOf, IsABag
<1>4. CASE x \notin DOMAIN B
  BY <1>4 DEF BagRemove
<1> QED BY <1>2, <1>3, <1>4

LEMMA BagOfSet ==
    ASSUME NEW S, NEW T \in SUBSET S
    PROVE  IsABagOf(SetToBag(T), S)
BY DEF IsABagOf, IsABag, SetToBag

LEMMA BagsUnited ==
    ASSUME NEW S, NEW A, NEW B, IsABagOf(A, S), IsABagOf(B, S)
    PROVE  IsABagOf(A (+) B, S)
<1>1. /\ A \in [DOMAIN A -> {n \in Nat : n > 0}] /\ DOMAIN A \subseteq S
      /\ B \in [DOMAIN B -> {n \in Nat : n > 0}] /\ DOMAIN B \subseteq S
  BY DEF IsABagOf, IsABag
<1> DEFINE C == [e \in (DOMAIN A) \cup (DOMAIN B) |->
                   (IF e \in DOMAIN A THEN A[e] ELSE 0) + (IF e \in DOMAIN B THEN B[e] ELSE 0)]
<1>2. A (+) B = C
  BY DEF (+)
<1>3. \A e \in (DOMAIN A) \cup (DOMAIN B) :
        (IF e \in DOMAIN A THEN A[e] ELSE 0) + (IF e \in DOMAIN B THEN B[e] ELSE 0) \in {n \in Nat : n > 0}
  BY <1>1
<1>4. C \in [DOMAIN C -> {n \in Nat : n > 0}] /\ DOMAIN C \subseteq S
  BY <1>1, <1>3
<1> QED BY <1>2, <1>4 DEF IsABagOf, IsABag

LEMMA OfTwo ==
    ASSUME NEW a \in Nat, NEW b \in Nat
    PROVE  \E c \in Nat : a <= c /\ b <= c
<1>1. CASE a <= b
  BY <1>1
<1>2. CASE b <= a
  BY <1>2
<1> QED BY <1>1, <1>2

LEMMA Bounded ==
    ASSUME NEW N \in Nat, NEW v \in [1 .. N -> Nat]
    PROVE  \E b \in Nat : \A n \in 1 .. N : v[n] <= b
<1> DEFINE G == {k \in 0 .. N : \E b \in Nat : \A n \in 1 .. k : v[n] <= b}
<1>1. 0 \in G
  OBVIOUS
<1>2. ASSUME NEW k \in 1 .. N, k - 1 \in G PROVE k \in G
  <2>1. PICK b \in Nat : \A n \in 1 .. k - 1 : v[n] <= b
    BY <1>2
  <2>2. v[k] \in Nat
    BY <1>2
  <2>3. PICK c \in Nat : b <= c /\ v[k] <= c
    BY <2>1, <2>2, OfTwo
  <2>4. ASSUME NEW n \in 1 .. k PROVE v[n] <= c
    <3>1. CASE n = k
      BY <2>3, <3>1
    <3>2. CASE n # k
      <4>1. n \in 1 .. k - 1 /\ v[n] \in Nat
        BY <3>2, <1>2
      <4>2. v[n] <= b
        BY <2>1, <4>1
      <4> QED BY <2>3, <4>1, <4>2
    <3> QED BY <3>1, <3>2
  <2> QED BY <1>2, <2>4
<1> HIDE DEF G
<1>3. \A k \in 0 .. N : k \in G
  BY <1>1, <1>2, UpTo
<1>4. N \in G
  BY <1>3
<1> QED BY <1>4 DEF G

\* A finite set of mixes has one with the most saves.
LEMMA EditsBound ==
    ASSUME FixityAssumption
    PROVE  MaxEdits \in Nat /\ \A m \in Mixes : m[1] \in Nat /\ m[1] <= MaxEdits
<1> DEFINE I == {b \in Nat : \A m \in Mixes : m[1] <= b}
           E == {m[1] : m \in Mixes}
<1>1. \A m \in Mixes : m[1] \in Nat
  BY DEF FixityAssumption
<1>2. I # {}
  <2>1. PICK s \in Seq(Mixes) : \A m \in Mixes : \E n \in 1 .. Len(s) : s[n] = m
    BY DEF FixityAssumption, IsFiniteSet
  <2> DEFINE v == [n \in 1 .. Len(s) |-> s[n][1]]
  <2>2. Len(s) \in Nat /\ \A n \in 1 .. Len(s) : s[n] \in Mixes
    OBVIOUS
  <2>3. v \in [1 .. Len(s) -> Nat]
    BY <1>1, <2>2
  <2>4. PICK b \in Nat : \A n \in 1 .. Len(s) : v[n] <= b
    BY <2>2, <2>3, Bounded
  <2>5. \A m \in Mixes : m[1] <= b
    BY <2>1, <2>4
  <2> QED BY <2>5
<1>3. PICK b \in I : \A c \in I : b <= c
  BY <1>2, Least
<1>4. b \in E
  <2> SUFFICES ASSUME \A m \in Mixes : m[1] # b PROVE FALSE
    OBVIOUS
  <2>1. PICK m \in Mixes : TRUE
    BY DEF FixityAssumption
  <2>2. m[1] < b /\ b - 1 \in Nat
    BY <1>1, <1>3, <2>1
  <2>3. \A n \in Mixes : n[1] <= b - 1
    BY <1>1, <1>3
  <2> QED BY <1>3, <2>2, <2>3
<1>5. \E x \in E : \A y \in E : x >= y
  BY <1>1, <1>3, <1>4
<1>6. MaxEdits \in E /\ \A y \in E : MaxEdits >= y
  BY <1>5 DEF MaxEdits, Max
<1> QED BY <1>1, <1>6

\* A worker has the job that its step belongs to.
Fits(s) == /\ s.step \in {"decided", "saved"} => s.job.kind = "cloud"
           /\ s.step \in {"good", "broken"} => s.job.kind = "repair"

Typed == TypeOK /\ (\A w \in Workers : Fits(at[w])) /\ version = edits + 1

LEMMA JobFields ==
    /\ \A j \in Jobs : j.kind = "cloud" =>
         j.file \in Files /\ j.status \in {"SUCCESS", "FAILURE"} /\ j.child \in Versions
    /\ \A j \in Jobs : j.kind = "repair" => j.event \in Events
<1>1. ASSUME NEW j \in Jobs, j.kind = "cloud"
      PROVE  j.file \in Files /\ j.status \in {"SUCCESS", "FAILURE"} /\ j.child \in Versions
  <2>1. j \in [kind : {"cloud"}, file : Files, status : {"SUCCESS", "FAILURE"}, child : Versions]
    BY <1>1 DEF Jobs
  <2> QED BY <2>1
<1>2. ASSUME NEW j \in Jobs, j.kind = "repair" PROVE j.event \in Events
  <2>1. j \in [kind : {"repair"}, event : Events]
    BY <1>2 DEF Jobs
  <2> QED BY <2>1
<1> QED BY <1>1, <1>2

LEMMA JobsAre ==
    /\ [kind |-> "local"] \in Jobs /\ [kind |-> "repairLocal"] \in Jobs
    /\ \A e \in Events : [kind |-> "repair", event |-> e] \in Jobs
    /\ \A v \in Versions : [kind |-> "preserve", version |-> v] \in Jobs
    /\ \A r \in Requests, s \in {"SUCCESS", "FAILURE"} : Result(r, s) \in Jobs
<1>1. \A r \in Requests, s \in {"SUCCESS", "FAILURE"} : Result(r, s) \in Jobs
  BY DEF Result, Requests, Jobs
<1> QED BY <1>1 DEF Jobs

LEMMA StepFields ==
    ASSUME NEW s \in Steps
    PROVE  /\ s.step # "free" => s.job \in Jobs
           /\ s.step = "decided" => s.previous \subseteq Events /\ s.status \in Statuses
           /\ s.step = "saved" => s.event \in Events
           /\ s.step \in {"good", "broken", "upload", "uploaded", "preserved"} => s.version \in Versions
<1>1. CASE s.step = "decided"
  <2>1. s \in [step : {"decided"}, job : Jobs, previous : SUBSET Events, status : Statuses]
    BY <1>1 DEF Steps
  <2> QED BY <2>1, <1>1
<1>2. CASE s.step = "saved"
  <2>1. s \in [step : {"saved"}, job : Jobs, event : Events]
    BY <1>2 DEF Steps
  <2> QED BY <2>1, <1>2
<1>3. CASE s.step \in {"good", "broken"}
  <2>1. s \in [step : {"good", "broken"}, job : Jobs, version : Versions, found : BOOLEAN]
    BY <1>3 DEF Steps
  <2> QED BY <2>1, <1>3
<1>4. CASE s.step \in {"upload", "uploaded", "preserved"}
  <2>1. s \in [step : {"upload", "uploaded", "preserved"}, job : Jobs, version : Versions]
    BY <1>4 DEF Steps
  <2> QED BY <2>1, <1>4
<1>5. CASE s.step = "replaced"
  <2>1. s \in [step : {"replaced"}, job : Jobs]
    BY <1>5 DEF Steps
  <2> QED BY <2>1, <1>5
<1>6. CASE s.step = "free"
  BY <1>6
<1>7. s.step \in {"free", "decided", "saved", "replaced", "good", "broken", "upload", "uploaded", "preserved"}
  BY DEF Steps
<1> QED BY <1>1, <1>2, <1>3, <1>4, <1>5, <1>6, <1>7

LEMMA StepsAre ==
    /\ [step |-> "free"] \in Steps
    /\ \A j \in Jobs, p \in SUBSET Events, s \in Statuses :
         [step |-> "decided", job |-> j, previous |-> p, status |-> s] \in Steps
    /\ \A j \in Jobs, e \in Events : [step |-> "saved", job |-> j, event |-> e] \in Steps
    /\ \A j \in Jobs : [step |-> "replaced", job |-> j] \in Steps
    /\ \A s \in {"good", "broken"}, j \in Jobs, v \in Versions, b \in BOOLEAN :
         [step |-> s, job |-> j, version |-> v, found |-> b] \in Steps
    /\ \A s \in {"upload", "uploaded", "preserved"}, j \in Jobs, v \in Versions :
         [step |-> s, job |-> j, version |-> v] \in Steps
<1>1. \A j \in Jobs, p \in SUBSET Events, s \in Statuses :
         [step |-> "decided", job |-> j, previous |-> p, status |-> s] \in Steps
  BY DEF Steps
<1>2. \A j \in Jobs, e \in Events : [step |-> "saved", job |-> j, event |-> e] \in Steps
  BY DEF Steps
<1>3. \A s \in {"good", "broken"}, j \in Jobs, v \in Versions, b \in BOOLEAN :
         [step |-> s, job |-> j, version |-> v, found |-> b] \in Steps
  BY DEF Steps
<1>4. \A s \in {"upload", "uploaded", "preserved"}, j \in Jobs, v \in Versions :
         [step |-> s, job |-> j, version |-> v] \in Steps
  BY DEF Steps
<1> QED BY <1>1, <1>2, <1>3, <1>4 DEF Steps

LEMMA ToFits ==
    ASSUME Typed, NEW w \in Workers, NEW s \in Steps, Fits(s), To(w, s)
    PROVE  at' \in [Workers -> Steps] /\ \A v \in Workers : Fits(at'[v])
<1>1. at' = [at EXCEPT ![w] = s] /\ at \in [Workers -> Steps]
  BY DEF To, Typed, TypeOK
<1>2. \A v \in Workers : at'[v] = s \/ at'[v] = at[v]
  BY <1>1
<1> QED BY <1>1, <1>2 DEF Typed

LEMMA FreeFits ==
    ASSUME Typed, NEW w \in Workers, Free(w)
    PROVE  at' \in [Workers -> Steps] /\ \A v \in Workers : Fits(at'[v])
<1>1. To(w, [step |-> "free"])
  BY DEF Free, To
<1>2. Fits([step |-> "free"])
  BY DEF Fits
<1> QED BY <1>1, <1>2, StepsAre, ToFits

LEMMA RaiseFits ==
    ASSUME Typed, NEW w \in Workers, at[w].step # "free", Raise(w)
    PROVE  /\ at' \in [Workers -> Steps] /\ \A v \in Workers : Fits(at'[v])
           /\ IsABagOf(queue', Jobs)
<1>1. at[w] \in Steps /\ IsABagOf(queue, Jobs)
  BY DEF Typed, TypeOK
<1>2. at[w].job \in Jobs
  BY <1>1, StepFields
<1> QED BY <1>1, <1>2, FreeFits, BagAdded DEF Raise

\* A step that changes events, queues and workers, and nothing else.
LEMMA WorksTyped ==
    ASSUME Typed, UNCHANGED <<fileVars, bounds>>,
           outdated' \subseteq Workers, events' \subseteq Events, localEvent' \in Statuses \cup {"NONE"},
           IsABagOf(requests', Requests), IsABagOf(queue', Jobs),
           at' \in [Workers -> Steps], \A v \in Workers : Fits(at'[v]), raced' \in BOOLEAN
    PROVE  Typed'
<1>1. /\ version' = version /\ local' = local /\ content' = content /\ recorded' = recorded
      /\ edits' = edits /\ corruptions' = corruptions /\ faults' = faults
  BY DEF fileVars, bounds
<1> QED BY <1>1 DEF Typed, TypeOK

LEMMA LocalTyped ==
    ASSUME TypeOK
    PROVE  /\ LocalStatus \in Statuses
           /\ \A q : IsABagOf(q, Jobs) => IsABagOf(AndRepair(q), Jobs)
<1>1. LocalStatus \in Statuses
  BY DEF LocalStatus, Statuses
<1>2. \A q : IsABagOf(q, Jobs) => IsABagOf(AndRepair(q), Jobs)
  BY BagAdded, JobsAre DEF AndRepair
<1> QED BY <1>1, <1>2

LEMMA RequestedTyped ==
    ASSUME TypeOK, FixityAssumption
    PROVE  IsABagOf(Requested, Requests)
<1> DEFINE T == {[file |-> f, sum |-> recorded[f], retries |-> 0] : f \in Files}
<1>1. T \in SUBSET Requests
  <2>1. 0 \in 0 .. MaxRetries - 1 /\ \A f \in Files : recorded[f] \in Versions
    BY DEF FixityAssumption, TypeOK
  <2> QED BY <2>1 DEF Requests
<1>2. IsABagOf(SetToBag(T), Requests) /\ IsABagOf(requests, Requests)
  BY <1>1, BagOfSet DEF TypeOK
<1>3. IsABagOf(requests (+) SetToBag(T), Requests)
  BY <1>2, BagsUnited
<1> QED BY <1>3 DEF Requested

LEMMA NewIdIn ==
    ASSUME FixityAssumption, NEW f, Ids \ IdsInUse(f) # {}
    PROVE  NewId(f) \in Ids
<1> DEFINE S == Ids \ IdsInUse(f)
<1>1. S \in SUBSET Nat /\ S # {}
  BY DEF FixityAssumption
<1> HIDE DEF S
<1>2. \E i \in S : \A j \in S : i <= j
  BY <1>1, Least
<1> QED BY <1>2 DEF NewId, S

LEMMA TakeTyped ==
    ASSUME Typed, NEW w \in Workers, NEW job \in DOMAIN queue,
           \/ Decide(w, job) \/ CheckLocal(w, job) \/ RepairLocal(w, job)
           \/ StartRepair(w, job) \/ StartPreserve(w, job)
    PROVE  Typed'
<1>0. /\ TypeOK /\ job \in Jobs /\ IsABagOf(queue, Jobs) /\ IsABagOf(BagRemove(queue, job), Jobs)
      /\ version \in Versions /\ IsABagOf(requests, Requests) /\ events \subseteq Events
      /\ outdated \subseteq Workers /\ raced \in BOOLEAN /\ localEvent \in Statuses \cup {"NONE"}
      /\ at \in [Workers -> Steps] /\ \A v \in Workers : Fits(at[v])
  BY BagRemoved DEF Typed, TypeOK, IsABagOf
<1>1. CASE Decide(w, job)
  <2>1. PICK repairing : To(w, [step |-> "decided", job |-> job, previous |-> Current(job.file),
                                status |-> UpdatedStatus(job, repairing)])
                         /\ repairing \in BOOLEAN
    BY <1>1 DEF Decide
  <2> DEFINE s == [step |-> "decided", job |-> job, previous |-> Current(job.file),
                   status |-> UpdatedStatus(job, repairing)]
  <2>2. Current(job.file) \in SUBSET Events
    BY <1>0 DEF Current
  <2>3. UpdatedStatus(job, repairing) \in Statuses
    BY <1>0, <1>1, <2>1, JobFields DEF UpdatedStatus, Statuses, Decide
  <2>4. s \in Steps /\ Fits(s)
    BY <1>0, <1>1, <2>2, <2>3, StepsAre DEF Fits, Decide
  <2>5. at' \in [Workers -> Steps] /\ \A v \in Workers : Fits(at'[v])
    BY <2>1, <2>4, ToFits
  <2> QED BY <1>0, <1>1, <2>5, WorksTyped DEF Decide, eventVars
<1>2. CASE CheckLocal(w, job)
  <2>1. IsABagOf(queue', Jobs) /\ localEvent' \in Statuses
    BY <1>0, <1>2, LocalTyped DEF CheckLocal
  <2> QED BY <1>0, <1>2, <2>1, WorksTyped DEF CheckLocal
<1>3. CASE RepairLocal(w, job)
  <2>1. [step |-> "replaced", job |-> job] \in Steps /\ Fits([step |-> "replaced", job |-> job])
    BY <1>0, StepsAre DEF Fits
  <2>2. at' \in [Workers -> Steps] /\ \A v \in Workers : Fits(at'[v])
    BY <1>3, <2>1, ToFits DEF RepairLocal
  <2>3. local' \in BOOLEAN
    BY <1>3 DEF RepairLocal
  <2>4. IsABagOf(queue', Jobs)
    BY <1>0, <1>3 DEF RepairLocal
  <2> QED BY <1>3, <2>2, <2>3, <2>4 DEF RepairLocal, Typed, TypeOK, eventVars, bounds
<1>4. CASE StartRepair(w, job)
  <2>1. job.kind = "repair" /\ UNCHANGED <<fileVars, outdated, events, requests, bounds, raced>>
    BY <1>4 DEF StartRepair
  <2>2. CASE /\ To(w, [step |-> "upload", job |-> job, version |-> version])
             /\ queue' = BagRemove(queue, job) /\ UNCHANGED localEvent
    <3> DEFINE s == [step |-> "upload", job |-> job, version |-> version]
    <3>1. s \in Steps /\ Fits(s)
      BY <1>0, StepsAre DEF Fits
    <3>2. at' \in [Workers -> Steps] /\ \A v \in Workers : Fits(at'[v])
      BY <2>2, <3>1, ToFits
    <3> QED BY <1>0, <2>1, <2>2, <3>2, WorksTyped
  <2>3. CASE /\ localEvent' = LocalStatus
             /\ queue' = AndRepair(BagRemove(queue, job))
             /\ To(w, [step |-> IF local THEN "good" ELSE "broken", job |-> job, version |-> version,
                       found |-> job.event \in events])
    <3> DEFINE s == [step |-> IF local THEN "good" ELSE "broken", job |-> job, version |-> version,
                     found |-> job.event \in events]
    <3>1. (IF local THEN "good" ELSE "broken") \in {"good", "broken"} /\ (job.event \in events) \in BOOLEAN
      OBVIOUS
    <3>2. s \in Steps /\ Fits(s)
      BY <1>0, <2>1, <3>1, StepsAre DEF Fits
    <3>3. at' \in [Workers -> Steps] /\ \A v \in Workers : Fits(at'[v])
      BY <2>3, <3>2, ToFits
    <3>4. IsABagOf(queue', Jobs) /\ localEvent' \in Statuses
      BY <1>0, <2>3, LocalTyped
    <3> QED BY <1>0, <2>1, <3>3, <3>4, WorksTyped
  <2> QED BY <1>4, <2>2, <2>3 DEF StartRepair
<1>5. CASE StartPreserve(w, job)
  <2> DEFINE s == [step |-> "upload", job |-> job, version |-> version]
  <2>1. s \in Steps /\ Fits(s)
    BY <1>0, StepsAre DEF Fits
  <2>2. To(w, s) \/ UNCHANGED at
    BY <1>5 DEF StartPreserve
  <2>3. at' \in [Workers -> Steps] /\ \A v \in Workers : Fits(at'[v])
    BY <1>0, <2>1, <2>2, ToFits
  <2> QED BY <1>0, <1>5, <2>3, WorksTyped DEF StartPreserve, eventVars
<1> QED BY <1>1, <1>2, <1>3, <1>4, <1>5

LEMMA SaveTyped ==
    ASSUME Typed, FixityAssumption, NEW w \in Workers, SaveResult(w)
    PROVE  Typed'
<1> DEFINE job == at[w].job
           status == at[w].status
           e == [id |-> NewId(job.file), file |-> job.file, status |-> status, child |-> job.child]
<1>1. /\ at[w] \in Steps /\ at[w].step = "decided" /\ job.kind = "cloud"
      /\ IsABagOf(queue, Jobs) /\ IsABagOf(requests, Requests) /\ events \subseteq Events
      /\ outdated \subseteq Workers /\ raced \in BOOLEAN /\ localEvent \in Statuses \cup {"NONE"}
  BY DEF SaveResult, On, Typed, TypeOK, Fits
<1>2. job \in Jobs /\ status \in Statuses
  BY <1>1, StepFields
<1>3. job.file \in Files /\ job.child \in Versions
  BY <1>1, <1>2, JobFields
<1>4. UNCHANGED <<fileVars, outdated, localEvent, requests, bounds>>
  BY DEF SaveResult
<1>5. CASE SaveEvents(w, job, at[w].previous, status) /\ UNCHANGED queue
  <2>1. Ids \ IdsInUse(job.file) # {} /\ events' = (events \ at[w].previous) \cup {e}
        /\ raced' \in BOOLEAN
    BY <1>1, <1>5 DEF SaveEvents
  <2>2. e \in Events
    BY <1>2, <1>3, <2>1, NewIdIn DEF Events
  <2>3. To(w, [step |-> "saved", job |-> job, event |-> e]) \/ Free(w)
    BY <1>5 DEF SaveEvents
  <2>4. [step |-> "saved", job |-> job, event |-> e] \in Steps /\ Fits([step |-> "saved", job |-> job, event |-> e])
    BY <1>1, <1>2, <2>2, StepsAre DEF Fits
  <2>5. at' \in [Workers -> Steps] /\ \A v \in Workers : Fits(at'[v])
    BY <2>3, <2>4, ToFits, FreeFits
  <2> QED BY <1>1, <1>4, <1>5, <2>1, <2>2, <2>5, WorksTyped
<1>6. CASE Raise(w) /\ UNCHANGED <<events, raced>>
  BY <1>1, <1>4, <1>6, RaiseFits, WorksTyped
<1> QED BY <1>5, <1>6 DEF SaveResult

LEMMA GiveUpTyped ==
    ASSUME Typed, FixityAssumption, NEW w \in Workers, GiveUp(w)
    PROVE  Typed'
<1> DEFINE old == at[w].job.event
           e   == [id |-> NewId(old.file), file |-> old.file, status |-> "FAILURE", child |-> old.child]
<1>1. /\ at[w] \in Steps /\ at[w].step = "broken" /\ at[w].job.kind = "repair"
      /\ IsABagOf(queue, Jobs) /\ IsABagOf(requests, Requests) /\ events \subseteq Events
      /\ outdated \subseteq Workers /\ raced \in BOOLEAN /\ localEvent \in Statuses \cup {"NONE"}
  BY DEF GiveUp, On, Typed, TypeOK, Fits
<1>2. old \in Events
  BY <1>1, StepFields, JobFields
<1>3. UNCHANGED <<fileVars, outdated, localEvent, requests, bounds, raced>>
  BY DEF GiveUp
<1>4. CASE /\ Ids \ IdsInUse(old.file) # {}
           /\ events' = (events \ {old}) \cup {e} /\ Free(w) /\ UNCHANGED queue
  <2>1. old.file \in Files /\ old.child \in Versions /\ "FAILURE" \in Statuses
    BY <1>2 DEF Events, Statuses
  <2>2. e \in Events
    BY <1>4, <2>1, NewIdIn DEF Events
  <2> QED BY <1>1, <1>3, <1>4, <2>2, FreeFits, WorksTyped
<1>5. CASE Raise(w) /\ UNCHANGED events
  BY <1>1, <1>3, <1>5, RaiseFits, WorksTyped
<1> QED BY <1>4, <1>5 DEF GiveUp

LEMMA UploadTyped ==
    ASSUME Typed, FixityAssumption, NEW w \in Workers, UploadBinary(w) \/ UploadMetadata(w)
    PROVE  Typed'
<1> DEFINE s(step) == [step |-> step, job |-> at[w].job, version |-> at[w].version]
<1>1. /\ at[w] \in Steps /\ at[w].step \in {"good", "upload"} /\ IsABagOf(queue, Jobs)
      /\ content \in [Files -> Versions] /\ 1 \in Versions
  <2>1. 1 \in Versions
    BY EditsBound DEF Versions
  <2> QED BY <2>1 DEF UploadBinary, UploadMetadata, On, Typed, TypeOK
<1>2. at[w].job \in Jobs /\ at[w].version \in Versions
  BY <1>1, StepFields
<1>3. s("upload") \in Steps /\ Fits(s("upload")) /\ s("uploaded") \in Steps /\ Fits(s("uploaded"))
  BY <1>2, StepsAre DEF Fits
<1>4. /\ content' \in [Files -> Versions] /\ outdated' \subseteq Workers
      /\ UNCHANGED <<version, local, recorded, eventVars, requests, bounds, raced>>
  <2>1. outdated \subseteq Workers
    BY DEF Typed, TypeOK
  <2>2. CASE UploadBinary(w)
    BY <1>1, <2>1, <2>2 DEF UploadBinary
  <2>3. CASE UploadMetadata(w)
    BY <1>1, <1>2, <2>1, <2>3 DEF UploadMetadata
  <2> QED BY <2>2, <2>3
<1>5. /\ at' \in [Workers -> Steps] /\ \A v \in Workers : Fits(at'[v])
      /\ IsABagOf(queue', Jobs)
  <2>1. \/ To(w, s("upload")) /\ UNCHANGED queue
        \/ To(w, s("uploaded")) /\ UNCHANGED queue
        \/ Raise(w)
    BY DEF UploadBinary, UploadMetadata
  <2> HIDE DEF s
  <2> QED BY <1>1, <1>3, <2>1, ToFits, RaiseFits
<1> QED BY <1>4, <1>5 DEF Typed, TypeOK, eventVars, bounds

LEMMA RecordTyped ==
    ASSUME Typed, NEW w \in Workers, Record(w)
    PROVE  Typed'
<1> DEFINE s == [step |-> "preserved", job |-> at[w].job, version |-> at[w].version]
<1>1. /\ at[w] \in Steps /\ at[w].step = "uploaded" /\ IsABagOf(queue, Jobs)
      /\ recorded \in [Files -> Versions] /\ outdated \subseteq Workers
  BY DEF Record, On, Typed, TypeOK
<1>2. at[w].job \in Jobs /\ at[w].version \in Versions
  BY <1>1, StepFields
<1>3. s \in Steps /\ Fits(s)
  BY <1>2, StepsAre DEF Fits
<1>4. /\ recorded' \in [Files -> Versions] /\ outdated' \subseteq Workers
      /\ UNCHANGED <<version, local, content, eventVars, requests, bounds, raced>>
  BY <1>1, <1>2 DEF Record
<1>5. /\ at' \in [Workers -> Steps] /\ \A v \in Workers : Fits(at'[v])
      /\ IsABagOf(queue', Jobs)
  <2>1. ((To(w, s) \/ Free(w)) /\ UNCHANGED queue) \/ Raise(w)
    BY DEF Record
  <2> HIDE DEF s
  <2> QED BY <1>1, <1>3, <2>1, ToFits, FreeFits, RaiseFits
<1> QED BY <1>4, <1>5 DEF Typed, TypeOK, eventVars, bounds

LEMMA WorkTyped ==
    ASSUME Typed, FixityAssumption, NEW w \in Workers, Work(w)
    PROVE  Typed'
<1>0. /\ TypeOK /\ IsABagOf(queue, Jobs) /\ IsABagOf(requests, Requests) /\ events \subseteq Events
      /\ outdated \subseteq Workers /\ raced \in BOOLEAN /\ localEvent \in Statuses \cup {"NONE"}
  BY DEF Typed, TypeOK
<1>1. CASE Take(w)
  BY <1>1, TakeTyped DEF Take
<1>2. CASE QueueRepair(w)
  <2>1. UNCHANGED <<fileVars, outdated, eventVars, requests, bounds, raced>> /\ at[w].step # "free"
    BY <1>2 DEF QueueRepair, On
  <2>2. CASE \E e \in events : Free(w) /\ queue' = BagAdd(queue, [kind |-> "repair", event |-> e])
    <3>1. IsABagOf(queue', Jobs)
      BY <1>0, <2>2, BagAdded, JobsAre
    <3> QED BY <1>0, <2>1, <2>2, <3>1, FreeFits, WorksTyped DEF eventVars
  <2>3. CASE Raise(w)
    BY <1>0, <2>1, <2>3, RaiseFits, WorksTyped DEF eventVars
  <2> QED BY <1>2, <2>2, <2>3 DEF QueueRepair
<1>3. CASE CheckLocalAgain(w)
  <2>1. IsABagOf(queue', Jobs)
    BY <1>0, <1>3, BagAdded, JobsAre DEF CheckLocalAgain
  <2> QED BY <1>0, <1>3, <2>1, FreeFits, WorksTyped DEF CheckLocalAgain, eventVars
<1>4. CASE CheckAgain(w)
  <2>1. IsABagOf(requests', Requests)
    BY <1>0, <1>4, RequestedTyped DEF CheckAgain
  <2> QED BY <1>0, <1>4, <2>1, FreeFits, WorksTyped DEF CheckAgain, eventVars
<1> QED BY <1>1, <1>2, <1>3, <1>4, SaveTyped, GiveUpTyped, UploadTyped, RecordTyped DEF Work

LEMMA CountsTyped ==
    ASSUME Typed, FixityAssumption, NEW s \in Nat, NEW b \in Nat, NEW n \in Nat, OneMore(s, b, n)
    PROVE  edits' = edits + s /\ edits' \in 0 .. MaxEdits /\ corruptions' \in Nat /\ faults' \in Nat
<1>1. edits \in Nat /\ corruptions \in Nat /\ faults \in Nat /\ MaxEdits \in Nat
  BY EditsBound DEF Typed, TypeOK
<1>2. PICK m \in Mixes : edits' <= m[1]
  BY DEF OneMore
<1>3. m[1] \in Nat /\ m[1] <= MaxEdits
  BY EditsBound
<1> QED BY <1>1, <1>2, <1>3 DEF OneMore

\* Steps of the cloud function and of Pub/Sub.
LEMMA RequestsTyped ==
    ASSUME Typed, FixityAssumption, NEW r \in DOMAIN requests,
           CheckFixity(r) \/ Retry(r) \/ LoseResult(r) \/ DeliverAgain(r)
    PROVE  Typed'
<1>0. /\ IsABagOf(requests, Requests) /\ IsABagOf(queue, Jobs) /\ r \in Requests
      /\ IsABagOf(BagRemove(requests, r), Requests)
  BY BagRemoved DEF Typed, TypeOK, IsABagOf
<1>1. UNCHANGED <<fileVars, outdated, eventVars, at, raced>>
  BY DEF CheckFixity, Retry, LoseResult, DeliverAgain
<1>2. edits' = edits /\ corruptions' \in Nat /\ faults' \in Nat
  <2>1. CASE CheckFixity(r)
    BY <2>1 DEF CheckFixity, bounds, Typed, TypeOK
  <2>2. CASE OneMore(0, 0, 1)
    BY <2>2, CountsTyped, EditsBound DEF Typed, TypeOK
  <2> QED BY <2>1, <2>2 DEF Retry, LoseResult, DeliverAgain
<1>3. IsABagOf(requests', Requests) /\ IsABagOf(queue', Jobs)
  <2>1. CASE CheckFixity(r)
    <3>1. Result(r, IF content[r.file] = r.sum THEN "SUCCESS" ELSE "FAILURE") \in Jobs
      BY <1>0, JobsAre
    <3> QED BY <1>0, <2>1, <3>1, BagAdded DEF CheckFixity
  <2>2. CASE Retry(r)
    <3>1. CASE /\ r.retries + 1 >= MaxRetries
               /\ requests' = BagRemove(requests, r) /\ queue' = BagAdd(queue, Result(r, "FAILURE"))
      BY <1>0, <3>1, JobsAre, BagAdded
    <3>2. CASE /\ ~(r.retries + 1 >= MaxRetries) /\ UNCHANGED queue
               /\ requests' = BagAdd(BagRemove(requests, r), [r EXCEPT !.retries = @ + 1])
      <4>1. r.retries + 1 \in 0 .. MaxRetries - 1
        BY <1>0, <3>2 DEF Requests, FixityAssumption
      <4>2. [r EXCEPT !.retries = @ + 1] \in Requests
        BY <1>0, <4>1 DEF Requests
      <4> QED BY <1>0, <3>2, <4>2, BagAdded
    <3> QED BY <2>2, <3>1, <3>2 DEF Retry
  <2>3. CASE LoseResult(r)
    BY <1>0, <2>3 DEF LoseResult
  <2>4. CASE DeliverAgain(r)
    BY <1>0, <2>4, BagAdded DEF DeliverAgain
  <2> QED BY <2>1, <2>2, <2>3, <2>4
<1> QED BY <1>1, <1>2, <1>3 DEF Typed, TypeOK, fileVars, eventVars

LEMMA OutsideTyped ==
    ASSUME Typed, FixityAssumption, DailyCheck \/ Edit \/ Corrupt \/ \E w \in Workers : Fault(w)
    PROVE  Typed'
<1>0. IsABagOf(queue, Jobs) /\ TypeOK
  BY DEF Typed, TypeOK
<1>1. CASE DailyCheck
  <2>1. IsABagOf(requests', Requests) /\ IsABagOf(queue', Jobs)
    BY <1>0, <1>1, RequestedTyped, BagAdded, JobsAre DEF DailyCheck
  <2> QED BY <1>1, <2>1 DEF DailyCheck, Typed, TypeOK, fileVars, eventVars, bounds
<1>2. CASE Edit
  <2>1. /\ edits' = edits + 1 /\ edits' \in 0 .. MaxEdits /\ corruptions' \in Nat /\ faults' \in Nat
        /\ version' = version + 1
    BY <1>2, CountsTyped DEF Edit
  <2>2. version' = edits' + 1 /\ version' \in Versions
    BY <2>1, EditsBound DEF Typed, TypeOK, Versions
  <2>3. IsABagOf(queue', Jobs)
    BY <1>0, <1>2, <2>2, BagAdded, JobsAre DEF Edit
  <2> QED BY <1>2, <2>1, <2>2, <2>3 DEF Edit, Typed, TypeOK, eventVars
<1>3. CASE Corrupt
  <2>1. edits' = edits /\ corruptions' \in Nat /\ faults' \in Nat
    BY <1>3, CountsTyped, EditsBound DEF Corrupt, Typed, TypeOK
  <2>2. 0 \in Versions
    BY EditsBound DEF Versions
  <2>3. local' \in BOOLEAN /\ content' \in [Files -> Versions]
    BY <1>3, <2>2 DEF Corrupt, Typed, TypeOK
  <2> QED BY <1>3, <2>1, <2>3 DEF Corrupt, Typed, TypeOK, eventVars
<1>4. ASSUME NEW w \in Workers, Fault(w) PROVE Typed'
  <2>1. edits' = edits /\ corruptions' \in Nat /\ faults' \in Nat
    BY <1>4, CountsTyped, EditsBound DEF Fault, Typed, TypeOK
  <2>2. /\ at' \in [Workers -> Steps] /\ \A v \in Workers : Fits(at'[v])
        /\ IsABagOf(queue', Jobs)
    BY <1>4, RaiseFits DEF Fault, On
  <2> QED BY <1>4, <2>1, <2>2 DEF Fault, Typed, TypeOK, fileVars, eventVars
<1> QED BY <1>1, <1>2, <1>3, <1>4

LEMMA NextTyped ==
    ASSUME Typed, FixityAssumption, [Next]_vars
    PROVE  Typed'
<1>1. CASE UNCHANGED vars
  BY <1>1 DEF vars, fileVars, eventVars, bounds, Typed, TypeOK
<1> QED BY <1>1, WorkTyped, RequestsTyped, OutsideTyped DEF Next, Check, Trouble

LEMMA InitTyped ==
    ASSUME Init, FixityAssumption
    PROVE  Typed
<1> DEFINE i == CHOOSE i \in Ids : \A j \in Ids : i <= j
           e == [id |-> i, file |-> "binary", status |-> "SUCCESS", child |-> 1]
<1>1. 1 \in Versions /\ 0 \in 0 .. MaxEdits
  BY EditsBound DEF Versions
<1>2. i \in Ids
  <2>1. Ids \in SUBSET Nat /\ Ids # {}
    BY DEF FixityAssumption
  <2>2. \E k \in Ids : \A j \in Ids : k <= j
    BY <2>1, Least
  <2> QED BY <2>2
<1>3. events \subseteq Events
  <2>1. e \in Events
    BY <1>1, <1>2 DEF Events, Files, Statuses
  <2>2. events = {} \/ events = {e}
    BY DEF Init
  <2> QED BY <2>1, <2>2
<1>4. IsABagOf(requests, Requests) /\ IsABagOf(queue, Jobs)
  <2>1. {} \in SUBSET Requests /\ {} \in SUBSET Jobs
    OBVIOUS
  <2> QED BY <2>1, BagOfSet DEF Init, EmptyBag
<1>5. at \in [Workers -> Steps] /\ \A w \in Workers : Fits(at[w])
  BY StepsAre DEF Init, Fits
<1>6. /\ local \in BOOLEAN /\ version = 1 /\ outdated = {} /\ localEvent = "NONE"
      /\ content = [f \in Files |-> 1] /\ recorded = [f \in Files |-> 1]
      /\ edits = 0 /\ corruptions = 0 /\ faults = 0 /\ raced = FALSE
  BY DEF Init
<1>7. content \in [Files -> Versions] /\ recorded \in [Files -> Versions] /\ version \in Versions
  BY <1>1, <1>6
<1>8. /\ outdated \subseteq Workers /\ localEvent \in Statuses \cup {"NONE"}
      /\ edits \in 0 .. MaxEdits /\ corruptions \in Nat /\ faults \in Nat /\ raced \in BOOLEAN
      /\ version = edits + 1
  <2>1. edits \in 0 .. MaxEdits /\ version = edits + 1 /\ corruptions \in Nat /\ faults \in Nat
    BY <1>1, <1>6
  <2>2. outdated \subseteq Workers /\ localEvent \in Statuses \cup {"NONE"} /\ raced \in BOOLEAN
    BY <1>6, Zenon
  <2> QED BY <2>1, <2>2
<1>9. TypeOK
  BY <1>3, <1>4, <1>5, <1>6, <1>7, <1>8 DEF TypeOK
<1> QED BY <1>5, <1>8, <1>9 DEF Typed

\* The states are well-formed for any number of workers, retries, saves and
\* troubles: in particular the function never sends a message with more tries
\* than it may take, what is queued again after an error is a job, and no event
\* names a version that the file set never had.
THEOREM FixityTypes == Spec => []TypeOK
<1>1. Init => Typed
  BY InitTyped, FixityAssumption
<1>2. Typed /\ [Next]_vars => Typed'
  BY NextTyped, FixityAssumption
<1>3. Typed => TypeOK
  BY DEF Typed
<1> QED BY <1>1, <1>2, <1>3, PTL DEF Spec

-----------------------------------------------------------------------------
(***************************************************************************)
(* Good copies are kept                                                    *)
(***************************************************************************)
Copies == /\ local \in BOOLEAN
          /\ content = [f \in Files |-> content[f]]
          /\ corruptions \in Nat

Better == /\ local => local'
          /\ content["binary"] = 1 => content'["binary"] = 1

LEMMA WorkOnCopies ==
    ASSUME Copies, NEW w \in Workers, Work(w)
    PROVE  Copies' /\ Better
<1>1. CASE \E job \in DOMAIN queue : RepairLocal(w, job)
  <2>1. local' = (local \/ content["binary"] # 0) /\ content' = content /\ corruptions' = corruptions
    BY <1>1 DEF RepairLocal, bounds
  <2> QED BY <2>1 DEF Copies, Better
<1>2. CASE UploadBinary(w)
  <2>1. local' = local /\ corruptions' = corruptions
    BY <1>2 DEF UploadBinary, bounds
  <2>2. content' = content \/ content' = [content EXCEPT !["binary"] = 1]
    BY <1>2 DEF UploadBinary
  <2> QED BY <2>1, <2>2 DEF Copies, Better, Files
<1>3. CASE UploadMetadata(w)
  <2>1. local' = local /\ corruptions' = corruptions
    BY <1>3 DEF UploadMetadata, bounds
  <2>2. content' = [content EXCEPT !["metadata"] = at[w].version]
    BY <1>3 DEF UploadMetadata
  <2> QED BY <2>1, <2>2 DEF Copies, Better, Files
<1>4. CASE UNCHANGED <<local, content, corruptions>>
  BY <1>4 DEF Copies, Better
<1>5. CASE Take(w)
  <2>1. PICK job \in DOMAIN queue :
             \/ Decide(w, job) \/ CheckLocal(w, job) \/ RepairLocal(w, job)
             \/ StartRepair(w, job) \/ StartPreserve(w, job)
    BY <1>5 DEF Take
  <2>2. CASE Decide(w, job) BY <2>2, <1>4 DEF Decide, fileVars, bounds
  <2>3. CASE CheckLocal(w, job) BY <2>3, <1>4 DEF CheckLocal, fileVars, bounds
  <2>4. CASE StartRepair(w, job) BY <2>4, <1>4 DEF StartRepair, fileVars, bounds
  <2>5. CASE StartPreserve(w, job) BY <2>5, <1>4 DEF StartPreserve, fileVars, bounds
  <2> QED BY <2>1, <2>2, <2>3, <2>4, <2>5, <1>1
<1>6. CASE SaveResult(w) BY <1>6, <1>4 DEF SaveResult, fileVars, bounds
<1>7. CASE QueueRepair(w) BY <1>7, <1>4 DEF QueueRepair, fileVars, bounds
<1>8. CASE CheckLocalAgain(w) BY <1>8, <1>4 DEF CheckLocalAgain, fileVars, bounds
<1>9. CASE GiveUp(w) BY <1>9, <1>4 DEF GiveUp, fileVars, bounds
<1>10. CASE Record(w) BY <1>10, <1>4 DEF Record, bounds
<1>11. CASE CheckAgain(w) BY <1>11, <1>4 DEF CheckAgain, fileVars, bounds
<1> QED BY <1>2, <1>3, <1>5, <1>6, <1>7, <1>8, <1>9, <1>10, <1>11 DEF Work

LEMMA OneMoreCounts ==
    ASSUME Copies, NEW saves \in Nat, NEW breaks \in Nat, NEW errors \in Nat,
           OneMore(saves, breaks, errors)
    PROVE  corruptions' = corruptions + breaks /\ corruptions' \in Nat
BY DEF OneMore, Copies

LEMMA NextOnCopies ==
    ASSUME Copies, [Next]_vars
    PROVE  Copies' /\ (corruptions' = corruptions => Better)
<1>1. CASE \E w \in Workers : Work(w)
  BY <1>1, WorkOnCopies
<1>2. CASE UNCHANGED <<local, content>> /\ corruptions' \in Nat
  BY <1>2 DEF Copies, Better
<1>3. CASE Check
  BY <1>3, <1>2 DEF Check, CheckFixity, fileVars, bounds, Copies
<1>4. CASE DailyCheck
  BY <1>4, <1>2 DEF DailyCheck, fileVars, bounds, Copies
<1>5. CASE Edit
  BY <1>5, <1>2, OneMoreCounts DEF Edit
<1>6. CASE Corrupt
  <2>1. corruptions' = corruptions + 1 /\ corruptions' \in Nat
    BY <1>6, OneMoreCounts DEF Corrupt
  <2>2. local' \in BOOLEAN /\ content' = [f \in Files |-> content'[f]]
    BY <1>6 DEF Corrupt, Copies
  <2> QED BY <2>1, <2>2 DEF Copies
<1>7. CASE \E w \in Workers : Fault(w)
  BY <1>7, <1>2, OneMoreCounts DEF Fault, fileVars
<1>8. CASE \E r \in DOMAIN requests : Retry(r) \/ LoseResult(r) \/ DeliverAgain(r)
  BY <1>8, <1>2, OneMoreCounts DEF Retry, LoseResult, DeliverAgain, fileVars
<1>9. CASE UNCHANGED vars
  BY <1>9, <1>2 DEF vars, fileVars, bounds, Copies
<1> QED BY <1>1, <1>3, <1>4, <1>5, <1>6, <1>7, <1>8, <1>9 DEF Next, Trouble

\* However many checks and repairs of the two copies run at once, and whatever
\* breaks or fails meanwhile: no repair makes a good copy of the binary bad.
THEOREM CopiesKept == Spec => GoodCopiesKept
<1>1. Init => Copies
  BY DEF Init, Copies
<1>2. Copies /\ [Next]_vars => Copies'
  BY NextOnCopies
<1>3. Copies /\ [Next]_vars =>
        [corruptions' = corruptions => /\ local => local'
                                       /\ content["binary"] = 1 => content'["binary"] = 1]_vars
  BY NextOnCopies DEF Better
<1> QED BY <1>1, <1>2, <1>3, PTL DEF Spec, GoodCopiesKept

-----------------------------------------------------------------------------
(***************************************************************************)
(* One repair at a time                                                    *)
(*                                                                         *)
(* A job may save its result only if all events it has read are current;   *)
(* what has to be shown is that then no repair was announced meanwhile.    *)
(***************************************************************************)
Decided(w) == at[w].step = "decided"

\* Jobs that have read events of one file have not read them side by side: of
\* what is still current, the later has read all that the earlier has.
ReadInOrder ==
    \A v, w \in Workers :
        /\ Decided(v) /\ Decided(w) /\ at[v].job.file = at[w].job.file
        /\ at[v].previous \subseteq events /\ at[w].previous \subseteq events
        => at[v].previous \subseteq at[w].previous \/ at[w].previous \subseteq at[v].previous

\* A job that may still save has seen every repair that is announced.
RepairsSeen ==
    \A w \in Workers : \A e \in events :
        /\ Decided(w) /\ at[w].previous # {} /\ at[w].previous \subseteq events
        /\ e.file = at[w].job.file /\ e.status = "REPAIRING"
        => e \in at[w].previous

OneRepair == \A d, e \in events : d.file = e.file /\ d.status = "REPAIRING" /\ e.status = "REPAIRING" => d = e

Read == \A w \in Workers : Decided(w) => \A e \in at[w].previous : e.file = at[w].job.file

Repairs == /\ at = [w \in Workers |-> at[w]]
           /\ raced \in BOOLEAN
           /\ Read /\ ReadInOrder
           /\ raced \/ (RepairsSeen /\ OneRepair)

\* A new event is none that anybody has read.
LEMMA NewEvent ==
    ASSUME NEW f, Ids \ IdsInUse(f) # {}, FixityAssumption,
           NEW e, e.id = NewId(f), e.file = f
    PROVE  /\ e \notin events
           /\ \A w \in Workers : Decided(w) => e \notin at[w].previous
<1>1. NewId(f) \in Ids \ IdsInUse(f)
  <2> DEFINE S == Ids \ IdsInUse(f)
  <2>1. S \subseteq Nat /\ S # {}
    BY DEF FixityAssumption
  <2>2. \E i \in S : \A j \in S : i <= j
    BY <2>1, Least
  <2> QED BY <2>2 DEF NewId
<1>2. e.id \notin IdsInUse(f)
  BY <1>1
<1>3. ASSUME e \in events PROVE FALSE
  BY <1>2, <1>3 DEF IdsInUse
<1>4. ASSUME NEW w \in Workers, Decided(w), e \in at[w].previous PROVE FALSE
  <2>1. e \in EventsOf(at[w])
    BY <1>4 DEF EventsOf, Decided
  <2> QED BY <1>2, <2>1 DEF IdsInUse
<1> QED BY <1>3, <1>4

\* Steps that neither read the events nor change them.
LEMMA OtherSteps ==
    ASSUME Repairs, UNCHANGED <<events, raced>>,
           at' = [w \in Workers |-> at'[w]],
           \A w \in Workers : Decided(w)' => at'[w] = at[w]
    PROVE  Repairs'
<1>1. Read'
  BY DEF Repairs, Read, Decided
<1>2. ReadInOrder'
  BY DEF Repairs, ReadInOrder, Decided
<1>3. RepairsSeen => RepairsSeen'
  BY DEF RepairsSeen, Decided
<1>4. OneRepair => OneRepair'
  BY DEF OneRepair
<1> QED BY <1>1, <1>2, <1>3, <1>4 DEF Repairs

LEMMA WorkerMoves ==
    ASSUME Repairs, UNCHANGED <<events, raced>>, NEW w \in Workers, NEW step,
           To(w, step), step.step # "decided"
    PROVE  Repairs'
<1>1. at' = [v \in Workers |-> at'[v]] /\ \A v \in Workers : Decided(v)' => at'[v] = at[v]
  BY DEF To, Repairs, Decided
<1> QED BY <1>1, OtherSteps

LEMMA WorkerFree ==
    ASSUME Repairs, UNCHANGED <<events, raced>>, NEW w \in Workers, Free(w)
    PROVE  Repairs'
<1>1. To(w, [step |-> "free"])
  BY DEF Free, To
<1>2. [step |-> "free"].step # "decided"
  OBVIOUS
<1> QED BY <1>1, <1>2, WorkerMoves

LEMMA DecideRepairs ==
    ASSUME Repairs, NEW w \in Workers, NEW job, Decide(w, job)
    PROVE  Repairs'
<1>1. UNCHANGED <<events, raced>>
  BY DEF Decide, eventVars
<1>2. PICK status : at' = [at EXCEPT ![w] = [step |-> "decided", job |-> job,
                                             previous |-> Current(job.file), status |-> status]]
  BY DEF Decide, To
<1>3. /\ at' = [v \in Workers |-> at'[v]]
      /\ at'[w].previous = Current(job.file) /\ at'[w].job = job
      /\ \A v \in Workers : v # w => at'[v] = at[v]
  BY <1>2 DEF Repairs
<1>4. Read'
  BY <1>3 DEF Repairs, Read, Decided, Current
<1>5. ReadInOrder'
  BY <1>1, <1>3 DEF Repairs, Read, ReadInOrder, Decided, Current
<1>6. RepairsSeen => RepairsSeen'
  BY <1>1, <1>3 DEF RepairsSeen, Decided, Current
<1>7. OneRepair => OneRepair'
  BY <1>1 DEF OneRepair
<1> QED BY <1>1, <1>3, <1>4, <1>5, <1>6, <1>7 DEF Repairs

LEMMA SaveRepairs ==
    ASSUME Repairs, FixityAssumption, NEW w \in Workers, Decided(w), at[w].previous \subseteq events,
           SaveEvents(w, at[w].job, at[w].previous, at[w].status)
    PROVE  Repairs'
<1> DEFINE f == at[w].job.file
           e == [id |-> NewId(f), file |-> f, status |-> at[w].status, child |-> at[w].job.child]
<1>1. /\ Ids \ IdsInUse(f) # {} /\ events' = (events \ at[w].previous) \cup {e}
      /\ raced' = (raced \/ (at[w].previous = {} /\ Current(f) # {}))
  BY DEF SaveEvents
<1>2. \A v \in Workers : Decided(v) => e \notin at[v].previous
  BY <1>1, NewEvent
<1>3. /\ at' = [v \in Workers |-> at'[v]] /\ ~Decided(w)'
      /\ \A v \in Workers : v # w => at'[v] = at[v]
  BY DEF SaveEvents, Free, To, Repairs, Decided
<1>4. e.file = f
  OBVIOUS
<1> HIDE DEF e, f
<1>5. \A v \in Workers : Decided(v)' => v # w /\ Decided(v) /\ at'[v] = at[v]
  BY <1>3 DEF Decided
<1>6. \A v \in Workers : Decided(v)' /\ at'[v].previous \subseteq events' =>
        at[v].previous \subseteq events \ at[w].previous
  BY <1>1, <1>2, <1>5
<1>7. Read'
  BY <1>5 DEF Repairs, Read
<1>8. ReadInOrder'
  <2> SUFFICES ASSUME NEW u \in Workers, NEW v \in Workers, Decided(u)', Decided(v)',
                      at'[u].job.file = at'[v].job.file,
                      at'[u].previous \subseteq events', at'[v].previous \subseteq events'
               PROVE  at'[u].previous \subseteq at'[v].previous \/ at'[v].previous \subseteq at'[u].previous
    BY DEF ReadInOrder
  <2>1. at[u].previous \subseteq events /\ at[v].previous \subseteq events
    BY <1>6
  <2> QED BY <2>1, <1>5 DEF Repairs, ReadInOrder
<1>9. ASSUME ~raced' PROVE RepairsSeen'
  <2>1. ~raced /\ (at[w].previous = {} => Current(f) = {})
    BY <1>1, <1>9 DEF Repairs
  <2> SUFFICES ASSUME NEW v \in Workers, NEW d \in events', Decided(v)', at'[v].previous # {},
                      at'[v].previous \subseteq events',
                      d.file = at'[v].job.file, d.status = "REPAIRING"
               PROVE  d \in at'[v].previous
    BY DEF RepairsSeen
  <2>2. v # w /\ Decided(v) /\ at'[v] = at[v] /\ at[v].previous \subseteq events \ at[w].previous
    BY <1>5, <1>6
  <2>3. CASE at[v].job.file # f
    <3>1. d \in events
      BY <1>1, <1>4, <2>2, <2>3
    <3> QED BY <2>1, <2>2, <3>1 DEF Repairs, RepairsSeen
  <2>4. CASE at[v].job.file = f
    <3>1. at[v].previous \subseteq Current(f)
      BY <2>2, <2>4 DEF Repairs, Read, Current
    <3>2. at[w].previous # {}
      BY <2>1, <2>2, <3>1
    <3>3. at[v].previous \subseteq at[w].previous \/ at[w].previous \subseteq at[v].previous
      BY <2>2, <2>4 DEF Repairs, ReadInOrder, f
    <3> QED BY <2>2, <3>2, <3>3
  <2> QED BY <2>3, <2>4
<1>10. ASSUME ~raced' PROVE OneRepair'
  <2>1. ~raced /\ (at[w].previous = {} => Current(f) = {})
    BY <1>1, <1>10 DEF Repairs
  <2>2. \A d \in events \ at[w].previous : ~(d.file = f /\ d.status = "REPAIRING")
    BY <2>1 DEF Repairs, RepairsSeen, Current, f
  <2> QED BY <1>1, <1>4, <2>1, <2>2 DEF Repairs, OneRepair
<1> QED BY <1>1, <1>3, <1>7, <1>8, <1>9, <1>10 DEF Repairs

LEMMA GiveUpRepairs ==
    ASSUME Repairs, FixityAssumption, NEW w \in Workers, GiveUp(w)
    PROVE  Repairs'
<1> DEFINE old == at[w].job.event
           e   == [id |-> NewId(old.file), file |-> old.file, status |-> "FAILURE", child |-> old.child]
<1>1. CASE UNCHANGED events /\ Free(w)
  BY <1>1, WorkerFree DEF GiveUp
<1>2. CASE Ids \ IdsInUse(old.file) # {} /\ events' = (events \ {old}) \cup {e} /\ Free(w)
  <2>1. raced' = raced
    BY DEF GiveUp
  <2>2. \A v \in Workers : Decided(v) => e \notin at[v].previous
    BY <1>2, NewEvent
  <2>3. /\ at' = [v \in Workers |-> at'[v]]
        /\ \A v \in Workers : Decided(v)' => Decided(v) /\ at'[v] = at[v]
    BY <1>2 DEF Free, Repairs, Decided
  <2>4. e.status = "FAILURE"
    OBVIOUS
  <2> HIDE DEF e, old
  <2>5. \A v \in Workers : Decided(v)' /\ at'[v].previous \subseteq events' => at[v].previous \subseteq events
    BY <1>2, <2>2, <2>3
  <2>6. Read'
    BY <2>3 DEF Repairs, Read
  <2>7. ReadInOrder'
    BY <2>3, <2>5 DEF Repairs, ReadInOrder
  <2>8. RepairsSeen => RepairsSeen'
    BY <1>2, <2>3, <2>4, <2>5 DEF RepairsSeen
  <2>9. OneRepair => OneRepair'
    BY <1>2, <2>4 DEF OneRepair
  <2> QED BY <2>1, <2>3, <2>6, <2>7, <2>8, <2>9 DEF Repairs
<1> QED BY <1>1, <1>2 DEF GiveUp, Raise

LEMMA WorkOnRepairs ==
    ASSUME Repairs, FixityAssumption, NEW w \in Workers, Work(w)
    PROVE  Repairs'
<1>1. CASE Take(w)
  <2>1. PICK job \in DOMAIN queue :
             \/ Decide(w, job) \/ CheckLocal(w, job) \/ RepairLocal(w, job)
             \/ StartRepair(w, job) \/ StartPreserve(w, job)
    BY <1>1 DEF Take
  <2>2. CASE Decide(w, job)
    BY <2>2, DecideRepairs
  <2>3. CASE CheckLocal(w, job)
    BY <2>3, OtherSteps DEF CheckLocal, Repairs
  <2>4. CASE RepairLocal(w, job)
    BY <2>4, WorkerMoves DEF RepairLocal, eventVars
  <2>5. CASE StartRepair(w, job)
    <3>1. UNCHANGED <<events, raced>>
      BY <2>5 DEF StartRepair
    <3>2. CASE To(w, [step |-> "upload", job |-> job, version |-> version])
      BY <3>1, <3>2, WorkerMoves
    <3>3. CASE To(w, [step |-> IF local THEN "good" ELSE "broken", job |-> job, version |-> version,
                      found |-> job.event \in events])
      BY <3>1, <3>3, WorkerMoves
    <3> QED BY <2>5, <3>2, <3>3 DEF StartRepair
  <2>6. CASE StartPreserve(w, job)
    <3>1. UNCHANGED <<events, raced>>
      BY <2>6 DEF StartPreserve, eventVars
    <3>2. CASE To(w, [step |-> "upload", job |-> job, version |-> version])
      BY <3>1, <3>2, WorkerMoves
    <3>3. CASE UNCHANGED at
      BY <3>1, <3>3, OtherSteps DEF Repairs
    <3> QED BY <2>6, <3>2, <3>3 DEF StartPreserve
  <2> QED BY <2>1, <2>2, <2>3, <2>4, <2>5, <2>6
<1>2. CASE SaveResult(w)
  <2>1. CASE at[w].previous \subseteq events /\ SaveEvents(w, at[w].job, at[w].previous, at[w].status)
    BY <1>2, <2>1, SaveRepairs DEF SaveResult, On, Decided
  <2>2. CASE Raise(w) /\ UNCHANGED <<events, raced>>
    BY <2>2, WorkerFree DEF Raise
  <2> QED BY <1>2, <2>1, <2>2 DEF SaveResult
<1>3. CASE QueueRepair(w)
  BY <1>3, WorkerFree DEF QueueRepair, Raise, eventVars
<1>4. CASE CheckLocalAgain(w)
  BY <1>4, WorkerFree DEF CheckLocalAgain, eventVars
<1>5. CASE GiveUp(w)
  BY <1>5, GiveUpRepairs
<1>6. CASE UploadBinary(w)
  <2>1. UNCHANGED <<events, raced>>
    BY <1>6 DEF UploadBinary, eventVars
  <2>2. CASE To(w, [step |-> "upload", job |-> at[w].job, version |-> at[w].version])
    BY <2>1, <2>2, WorkerMoves
  <2>3. CASE Raise(w)
    BY <2>1, <2>3, WorkerFree DEF Raise
  <2> QED BY <1>6, <2>2, <2>3 DEF UploadBinary
<1>7. CASE UploadMetadata(w)
  BY <1>7, WorkerMoves DEF UploadMetadata, eventVars
<1>8. CASE Record(w)
  <2>1. UNCHANGED <<events, raced>>
    BY <1>8 DEF Record, eventVars
  <2>2. CASE To(w, [step |-> "preserved", job |-> at[w].job, version |-> at[w].version])
    BY <2>1, <2>2, WorkerMoves
  <2>3. CASE Free(w)
    BY <2>1, <2>3, WorkerFree
  <2> QED BY <1>8, <2>2, <2>3 DEF Record, Raise
<1>9. CASE CheckAgain(w)
  BY <1>9, WorkerFree DEF CheckAgain, eventVars
<1> QED BY <1>1, <1>2, <1>3, <1>4, <1>5, <1>6, <1>7, <1>8, <1>9 DEF Work

LEMMA NextOnRepairs ==
    ASSUME Repairs, FixityAssumption, [Next]_vars
    PROVE  Repairs'
<1>1. CASE \E w \in Workers : Work(w)
  BY <1>1, WorkOnRepairs
<1>2. CASE UNCHANGED <<events, raced, at>>
  BY <1>2, OtherSteps DEF Repairs
<1>3. CASE \E w \in Workers : Fault(w)
  BY <1>3, WorkerFree DEF Fault, Raise, eventVars
<1>4. CASE Check
  BY <1>4, <1>2 DEF Check, CheckFixity, eventVars
<1>5. CASE DailyCheck
  BY <1>5, <1>2 DEF DailyCheck, eventVars
<1>6. CASE Edit
  BY <1>6, <1>2 DEF Edit, eventVars
<1>7. CASE Corrupt
  BY <1>7, <1>2 DEF Corrupt, eventVars
<1>8. CASE \E r \in DOMAIN requests : Retry(r) \/ LoseResult(r) \/ DeliverAgain(r)
  BY <1>8, <1>2 DEF Retry, LoseResult, DeliverAgain, eventVars
<1>9. CASE UNCHANGED vars
  BY <1>9, <1>2 DEF vars, eventVars
<1> QED BY <1>1, <1>3, <1>4, <1>5, <1>6, <1>7, <1>8, <1>9 DEF Next, Trouble

\* Once the first result of a file is recorded, at most one repair of it is
\* announced: of jobs that have read the same events, the optimistic lock lets
\* one through, and the next one sees its repair.
THEOREM RepairsOneAtATime == Spec => []OneRepairAtATime
<1>1. Init => Repairs
  <2> SUFFICES ASSUME Init PROVE Repairs
    OBVIOUS
  <2>1. at = [w \in Workers |-> at[w]] /\ \A w \in Workers : ~Decided(w)
    BY DEF Init, Decided
  <2>2. events = {} \/ \E e : events = {e}
    BY DEF Init
  <2> QED BY <2>1, <2>2 DEF Init, Repairs, Read, ReadInOrder, RepairsSeen, OneRepair
<1>2. Repairs /\ [Next]_vars => Repairs'
  BY NextOnRepairs, FixityAssumption
<1>3. Repairs => OneRepairAtATime
  BY DEF Repairs, OneRepair, OneRepairAtATime
<1> QED BY <1>1, <1>2, <1>3, PTL DEF Spec

=============================================================================
