------------------------------ MODULE GitSyncProofs ------------------------------
(***************************************************************************)
(* No deployment is lost on its way to the repository, for any number of   *)
(* processes, versions, attempts, handovers and requests of users.         *)
(***************************************************************************)
EXTENDS GitSync, FiniteSetTheorems, SequenceTheorems, TLAPS

BusyPhases == {"clone", "stale", "push", "done", "refused"}

Busy(w) == work[w].phase \in BusyPhases

(***************************************************************************)
(* What a process knows of a job was read before; the version and the job  *)
(* itself are still the same when it settles it.                           *)
(***************************************************************************)
ItemStands(item) == item.job \in DOMAIN jobs /\ jobs[item.job].version = item.version

Stands(i) ==
    /\ work[i] # Idle => \A item \in work[i].batch : ItemStands(item)
    /\ Busy(i) => /\ work[i].item \in Item /\ ItemStands(work[i].item)
                  /\ work[i].version = work[i].item.version

ItemsStand == \A i \in Instances : Stands(i)

Scheduled ==
    faults \cap {"db", "crash"} = {} =>
        \A j \in DOMAIN jobs :
            jobs[j].status = "pending" => InHand(j) \/ jobs[j].retry # "never"

(***************************************************************************)
(* While the file is none of the versions that may stay there, somebody    *)
(* still has to push the version requested last: a caller, or the job it   *)
(* left, which nobody is about to complete.  Who is still committing       *)
(* commits that version or a rival of it.                                  *)
(***************************************************************************)
Retryable == {jobs[j].version : j \in DOMAIN jobs}

Candidates == {requested} \cup rivals \cup Retryable

OwedByCaller ==
    \E c \in Callers : work[c].phase \in BusyPhases \ {"done"} /\ work[c].version = requested

OwedByJob ==
    \E j \in DOMAIN jobs :
        /\ jobs[j].version = requested /\ jobs[j].status # "completed"
        /\ \A i \in Instances : work[i].phase = "done" => work[i].item.job # j

Accounted == file \in Candidates \/ OwedByCaller \/ OwedByJob

CallersCommit ==
    /\ exists
    /\ \A c \in Callers :
          /\ Busy(c) => work[c].version # NoFile
          /\ Committing(c) => work[c].version \in {requested} \cup rivals

Owed == faults \cap {"db", "crash", "delete"} = {} => Accounted /\ CallersCommit

CallersWork == \A c \in Callers : work[c] = Idle \/ Busy(c)

Inv == TypeOK /\ CallersWork /\ ItemsStand /\ Scheduled /\ Owed

-----------------------------------------------------------------------------
(***************************************************************************)
(* What a worker does, and what is written to a job.                       *)
(***************************************************************************)
LEMMA WorkShape ==
    ASSUME TypeOK, NEW w \in Workers
    PROVE  /\ work[w] \in Work
           /\ work[w].phase \in {"idle", "tick"} \cup BusyPhases
           /\ work[w].phase = "idle" <=> work[w] = Idle
           /\ work[w] # Idle => work[w].batch \in SUBSET Item
           /\ Busy(w) => /\ work[w].version \in Versions \cup {NoFile}
                         /\ work[w].item \in Item \cup {NoItem}
<1>1. work[w] \in Work
    BY DEF TypeOK
<1> QED
    BY <1>1 DEF Work, Idle, BusyPhases, Busy

LEMMA PhaseSets ==
    ASSUME TypeOK, NEW w \in Workers, Busy(w), NEW phase \in BusyPhases
    PROVE  /\ Phase(w, phase) \in Work
           /\ Phase(w, phase).phase = phase /\ Phase(w, phase) # Idle
           /\ Phase(w, phase).version = work[w].version
           /\ Phase(w, phase).batch = work[w].batch
           /\ Phase(w, phase).item = work[w].item
<1>1. work[w] \in [phase: BusyPhases, version: Versions \cup {NoFile},
                   batch: SUBSET Item, item: Item \cup {NoItem}]
    BY WorkShape DEF Work, Idle, BusyPhases, Busy
<1>2. Phase(w, phase) = [phase |-> phase, version |-> work[w].version,
                         batch |-> work[w].batch, item |-> work[w].item]
    BY <1>1 DEF Phase
<1>3. Phase(w, phase).phase = phase /\ Phase(w, phase).version = work[w].version
      /\ Phase(w, phase).batch = work[w].batch /\ Phase(w, phase).item = work[w].item
    BY <1>2
<1>4. Phase(w, phase) \in Work
    BY <1>1, <1>2 DEF Work, BusyPhases
<1>5. Phase(w, phase) # Idle
    BY <1>3 DEF Idle, BusyPhases
<1> QED
    BY <1>3, <1>4, <1>5

\* A Git command changes nobody's task, and nobody finishes one but who runs it.
LEMMA GitSets ==
    ASSUME TypeOK, NEW w \in Workers, Git(w)
    PROVE  /\ work' \in [Workers -> Work]
           /\ UNCHANGED <<requestVars, jobs, asked, faults, extras>>
           /\ Busy(w) /\ work[w].phase # "done" /\ file' \in {file, work[w].version}
           /\ \A v \in Workers : ~Busy(v) => work'[v] = work[v]
           /\ \A v \in Workers : Busy(v) =>
                 /\ work'[v].phase \in BusyPhases /\ work'[v] # Idle
                 /\ work'[v].version = work[v].version
                 /\ work'[v].batch = work[v].batch /\ work'[v].item = work[v].item
           /\ \A v \in Workers : work'[v].phase = "done" =>
                 work[v].phase = "done" \/ (v = w /\ file' = work[w].version)
<1>1. /\ Busy(w) /\ work[w].phase # "done"
      /\ UNCHANGED <<requestVars, jobs, asked, faults, extras>>
    BY DEF Git, Clone, Push, PushStale, Busy, BusyPhases
<1>2. PICK phase \in BusyPhases :
         /\ \/ Do(w, Phase(w, phase)) /\ file' = file
            \/ Pushed(w, phase) /\ file' = work[w].version
         /\ phase = "done" => file' = work[w].version
    BY DEF Git, Clone, Push, PushStale, BusyPhases
<1>3. \A v \in Workers : Busy(v) => \A q \in BusyPhases :
         /\ Phase(v, q) \in Work
         /\ Phase(v, q).phase = q /\ Phase(v, q) # Idle
         /\ Phase(v, q).version = work[v].version
         /\ Phase(v, q).batch = work[v].batch
         /\ Phase(v, q).item = work[v].item
    BY PhaseSets
<1>4. ASSUME NEW v \in Workers
      PROVE  \/ v = w /\ work'[v] = Phase(w, phase)
             \/ v # w /\ work'[v] = work[v]
             \/ v # w /\ Busy(v) /\ work'[v] = Phase(v, "stale")
    BY <1>2 DEF Do, Pushed, TypeOK, Busy, BusyPhases
<1>5. work' \in [Workers -> Work]
    <2>1. DOMAIN work' = Workers /\ work' = [v \in Workers |-> work'[v]]
        BY <1>2 DEF Do, Pushed, TypeOK
    <2>2. \A v \in Workers : work'[v] \in Work
        BY <1>1, <1>3, <1>4 DEF TypeOK, BusyPhases
    <2> QED
        BY <2>1, <2>2
<1>6. ASSUME NEW v \in Workers PROVE ~Busy(v) => work'[v] = work[v]
    BY <1>1, <1>4
<1>7. ASSUME NEW v \in Workers, Busy(v)
      PROVE  /\ work'[v].phase \in BusyPhases /\ work'[v] # Idle
             /\ work'[v].version = work[v].version
             /\ work'[v].batch = work[v].batch /\ work'[v].item = work[v].item
    <2>1. CASE work'[v] = work[v]
        BY <1>7, <2>1 DEF Busy, Idle, BusyPhases
    <2>2. CASE \E q \in BusyPhases : work'[v] = Phase(v, q)
        BY <1>3, <1>7, <2>2
    <2>3. "stale" \in BusyPhases
        BY DEF BusyPhases
    <2> QED
        BY <1>4, <2>1, <2>2, <2>3
<1>8. ASSUME NEW v \in Workers, work'[v].phase = "done"
      PROVE  work[v].phase = "done" \/ (v = w /\ file' = work[w].version)
    <2>1. CASE v = w
        BY <1>1, <1>2, <1>3, <1>4, <1>8, <2>1
    <2>2. CASE v # w
        <3>1. Busy(v) => Phase(v, "stale").phase = "stale"
            BY <1>3 DEF BusyPhases
        <3> QED
            BY <1>4, <1>8, <2>2, <3>1
    <2> QED
        BY <2>1, <2>2
<1>9. file' \in {file, work[w].version}
    BY <1>2
<1> QED
    BY <1>1, <1>5, <1>6, <1>7, <1>8, <1>9

LEMMA DoSets ==
    ASSUME TypeOK, NEW w \in Workers, NEW task, Do(w, task)
    PROVE  /\ work'[w] = task /\ \A v \in Workers \ {w} : work'[v] = work[v]
           /\ task \in Work => work' \in [Workers -> Work]
BY DEF Do, TypeOK

LEMMA JobShape ==
    ASSUME TypeOK, NEW j \in DOMAIN jobs
    PROVE  /\ jobs[j] \in Job
           /\ jobs[j].version \in Versions /\ jobs[j].attempts \in Nat
           /\ jobs[j].retry \in {"never", "later", "due"}
           /\ jobs[j].status \in {"pending", "completed", "failed", "gone"}
<1>1. jobs[j] \in Job
    BY DEF TypeOK
<1> QED
    BY <1>1 DEF Job

LEMMA JobSets ==
    ASSUME TypeOK, NEW j \in DOMAIN jobs, NEW row \in Job, jobs' = [jobs EXCEPT ![j] = row]
    PROVE  /\ jobs' \in Seq(Job) /\ DOMAIN jobs' = DOMAIN jobs
           /\ jobs'[j] = row /\ \A k \in DOMAIN jobs \ {j} : jobs'[k] = jobs[k]
BY DEF TypeOK

LEMMA RowsSet ==
    ASSUME TypeOK, NEW rows, rows = [j \in DOMAIN jobs |-> rows[j]],
           \A j \in DOMAIN jobs : rows[j] \in Job
    PROVE  rows \in Seq(Job) /\ DOMAIN rows = DOMAIN jobs
BY DEF TypeOK

LEMMA BackoffType == \A n : Backoff(n) \in {"never", "later", "due"}
BY DEF Backoff

LEMMA RestShape ==
    ASSUME NEW batch \in SUBSET Item
    PROVE  /\ Rest(batch) \in Work /\ Rest(batch).phase \in {"idle", "tick"}
           /\ Rest(batch) # Idle => Rest(batch).batch = batch
BY DEF Rest, Work, Idle

LEMMA CallersAreNoInstances ==
    /\ \A c \in Callers : c \in Workers /\ c \notin Instances
    /\ \A i \in Instances : i \in Workers
BY GitSyncAssumption DEF Workers

(***************************************************************************)
(* The two steps of a tick on one job.                                     *)
(***************************************************************************)
ClaimedRow(item) ==
    [jobs[item.job] EXCEPT !.attempts = item.attempts + 1, !.retry = "never"]

ClaimedTask(item, batch) ==
    [phase |-> IF item.linked THEN "clone" ELSE "refused",
     version |-> item.version, batch |-> batch,
     item |-> [item EXCEPT !.attempts = @ + 1]]

LEMMA ClaimShape ==
    ASSUME TypeOK, NEW item \in Item, item.job \in DOMAIN jobs, NEW batch \in SUBSET Item
    PROVE  /\ ClaimedRow(item) \in Job
           /\ ClaimedRow(item).version = jobs[item.job].version
           /\ ClaimedRow(item).status = jobs[item.job].status
           /\ ClaimedTask(item, batch) \in Work /\ ClaimedTask(item, batch) # Idle
           /\ ClaimedTask(item, batch).phase \in {"clone", "refused"}
           /\ ClaimedTask(item, batch).batch = batch
           /\ ClaimedTask(item, batch).item \in Item
           /\ ClaimedTask(item, batch).item.job = item.job
           /\ ClaimedTask(item, batch).item.version = item.version
           /\ ClaimedTask(item, batch).version = item.version
<1>1. jobs[item.job] \in Job
    BY JobShape
<1>2. item.attempts + 1 \in Nat /\ item.version \in Versions /\ item.linked \in BOOLEAN
    BY DEF Item
<1>3. [item EXCEPT !.attempts = @ + 1] \in Item
      /\ [item EXCEPT !.attempts = @ + 1].job = item.job
      /\ [item EXCEPT !.attempts = @ + 1].version = item.version
    BY <1>2 DEF Item
<1>4. /\ ClaimedRow(item) \in Job
      /\ ClaimedRow(item).version = jobs[item.job].version
      /\ ClaimedRow(item).status = jobs[item.job].status
    BY <1>1, <1>2 DEF ClaimedRow, Job
<1> DEFINE task == ClaimedTask(item, batch)
<1>5. /\ task.phase \in {"clone", "refused"}
      /\ task.batch = batch /\ task.version = item.version
      /\ task.item = [item EXCEPT !.attempts = @ + 1]
    BY DEF ClaimedTask
<1>6. task \in Work
    BY <1>2, <1>3 DEF ClaimedTask, Work
<1>7. task # Idle
    BY <1>5 DEF Idle
<1> QED
    BY <1>3, <1>4, <1>5, <1>6, <1>7

LEMMA ClaimCases ==
    ASSUME TypeOK, ItemsStand, NEW i \in Instances, Claim(i)
    PROVE  \E item \in work[i].batch, rest \in SUBSET work[i].batch :
              /\ work[i].phase = "tick" /\ item \in Item /\ rest \in SUBSET Item
              /\ ItemStands(item)
              /\ \/ /\ jobs' = [jobs EXCEPT ![item.job] = ClaimedRow(item)]
                    /\ Do(i, ClaimedTask(item, rest))
                 \/ /\ "db" \in faults \/ jobs[item.job].status = "gone"
                    /\ jobs' = jobs /\ Do(i, Rest(rest))
                 \/ /\ "db" \in faults
                    /\ jobs' = [jobs EXCEPT ![item.job] = ClaimedRow(item)]
                    /\ Do(i, Rest(rest))
<1>1. work[i].phase = "tick" /\ work[i] # Idle
    BY DEF Claim, Idle
<1>2. PICK item \in work[i].batch :
         LET rest == work[i].batch \ {item} IN
              /\ \/ /\ jobs' = [jobs EXCEPT ![item.job] = ClaimedRow(item)]
                    /\ Do(i, ClaimedTask(item, rest))
                 \/ /\ "db" \in faults \/ jobs[item.job].status = "gone"
                    /\ jobs' = jobs /\ Do(i, Rest(rest))
                 \/ /\ "db" \in faults
                    /\ jobs' = [jobs EXCEPT ![item.job] = ClaimedRow(item)]
                    /\ Do(i, Rest(rest))
    BY DEF Claim, Claimed, Update, Fault, ClaimedRow, ClaimedTask
<1>3. work[i].batch \in SUBSET Item /\ ItemStands(item)
    BY <1>1, WorkShape, CallersAreNoInstances DEF ItemsStand, Stands
<1> QED
    BY <1>1, <1>2, <1>3

\* What is written to a job when its commit is over.
SettledRow(i) ==
    LET item == work[i].item
        job  == jobs[item.job]
    IN  IF work[i].phase = "done" THEN [job EXCEPT !.status = "completed"]
        ELSE IF Exhausted(item)   THEN [job EXCEPT !.status = "failed"]
        ELSE [job EXCEPT !.retry = Backoff(item.attempts)]

LEMMA SettleCases ==
    ASSUME TypeOK, ItemsStand, NEW i \in Instances, Settle(i)
    PROVE  LET j == work[i].item.job IN
           /\ Busy(i) /\ work[i].phase \in {"done", "refused"} /\ j \in DOMAIN jobs
           /\ work[i].item \in Item /\ work[i].batch \in SUBSET Item
           /\ work[i] # Idle /\ Do(i, Rest(work[i].batch))
           /\ SettledRow(i) \in Job /\ SettledRow(i).version = jobs[j].version
           /\ \/ jobs' = [jobs EXCEPT ![j] = SettledRow(i)]
              \/ /\ "db" \in faults \/ jobs[j].status = "gone"
                 /\ jobs' = jobs
<1> DEFINE j == work[i].item.job
<1>1. Busy(i) /\ work[i].phase \in {"done", "refused"} /\ work[i] # Idle
    BY DEF Settle, Busy, BusyPhases, Idle
<1>2. j \in DOMAIN jobs /\ work[i].item \in Item /\ work[i].batch \in SUBSET Item
    BY <1>1, WorkShape, CallersAreNoInstances DEF ItemsStand, Stands, ItemStands
<1>3. SettledRow(i) \in Job /\ SettledRow(i).version = jobs[j].version
    <2>1. jobs[j] \in Job
        BY <1>2, JobShape
    <2> QED
        BY <2>1, BackoffType DEF SettledRow, Job
<1>4. /\ Do(i, Rest(work[i].batch))
      /\ \/ jobs' = [jobs EXCEPT ![j] = SettledRow(i)]
         \/ /\ "db" \in faults \/ jobs[j].status = "gone"
            /\ jobs' = jobs
    BY DEF Settle, Settled, SettledRow, Update, Fault
<1> QED
    BY <1>1, <1>2, <1>3, <1>4

-----------------------------------------------------------------------------
(***************************************************************************)
(* Types, and what is known of a job stays true.                           *)
(***************************************************************************)
VersionsStay ==
    \A j \in DOMAIN jobs : j \in DOMAIN jobs' /\ jobs'[j].version = jobs[j].version

Tasks == TypeOK /\ CallersWork /\ ItemsStand

LEMMA StandsFrame ==
    ASSUME VersionsStay, NEW i \in Instances, Stands(i), work'[i] = work[i]
    PROVE  Stands(i)'
BY DEF Stands, ItemStands, VersionsStay, Busy

LEMMA CallerTasks ==
    ASSUME Tasks, NEW c \in Callers, Deploy(c) \/ Delete(c) \/ Deployed(c) \/ Deleted(c)
    PROVE  Tasks' /\ VersionsStay
<1> USE CallersAreNoInstances DEF Tasks
<1>1. CASE Deploy(c) \/ Delete(c)
    <2>1. PICK phase \in {"clone", "done"}, version \in Versions \cup {NoFile} : Begin(c, phase, version)
        <3>1. CASE Deploy(c)
            <4>1. versions + 1 \in Versions
                BY <3>1, GitSyncAssumption DEF Deploy, TypeOK, Versions, NoFile
            <4> QED
                BY <3>1, <4>1 DEF Deploy
        <3>2. CASE Delete(c)
            BY <3>2 DEF Delete
        <3> QED
            BY <1>1, <3>1, <3>2
    <2> DEFINE task == [phase |-> phase, version |-> version, batch |-> {}, item |-> NoItem]
    <2>2. task \in Work /\ task.phase \in BusyPhases
        BY DEF Work, BusyPhases
    <2>3. work' \in [Workers -> Work] /\ work'[c] = task
          /\ \A v \in Workers \ {c} : work'[v] = work[v]
        BY <2>1, <2>2, DoSets DEF Begin
    <2>4. /\ UNCHANGED <<file, exists, linked, leader, jobs, asked, faults>>
          /\ extras' \in 0 .. MaxExtras
        BY <1>1, GitSyncAssumption DEF Deploy, Delete, Extra, TypeOK, requestVars
    <2>5. /\ {versions', requested'} \subseteq Versions \cup {NoFile}
          /\ rivals' \subseteq Versions \cup {NoFile}
        <3>1. CASE Deploy(c)
            <4>1. versions + 1 \in Versions
                BY <3>1, GitSyncAssumption DEF Deploy, TypeOK, Versions, NoFile
            <4>2. \A d \in Callers : Committing(d) => work[d].version \in Versions \cup {NoFile}
                BY WorkShape DEF Committing, Busy, BusyPhases
            <4> QED
                BY <3>1, <4>1, <4>2 DEF Deploy
        <3>2. CASE Delete(c)
            BY <3>2 DEF Delete, requestVars, TypeOK
        <3> QED
            BY <1>1, <3>1, <3>2
    <2>6. TypeOK' /\ VersionsStay
        BY <2>3, <2>4, <2>5 DEF TypeOK, VersionsStay
    <2>7. CallersWork'
        BY <2>2, <2>3 DEF CallersWork, Busy
    <2>8. ItemsStand'
        BY <2>3, <2>6, StandsFrame DEF ItemsStand
    <2> QED
        BY <2>6, <2>7, <2>8
<1>2. CASE Deployed(c) \/ Deleted(c)
    <2>1. Do(c, Idle) /\ Idle \in Work
        BY <1>2 DEF Deployed, Deleted, Work
    <2>2. work' \in [Workers -> Work] /\ work'[c] = Idle
          /\ \A v \in Workers \ {c} : work'[v] = work[v]
        BY <2>1, DoSets
    <2>3. jobs' \in Seq(Job) /\ VersionsStay /\ asked' \subseteq DOMAIN jobs'
        <3>1. CASE UNCHANGED jobs
            BY <1>2, <3>1 DEF TypeOK, VersionsStay, Deployed, Deleted
        <3>2. CASE Deployed(c) /\ jobs' # jobs
            <4> DEFINE row == NewJob(work[c].version)
            <4>1. jobs' = Append(jobs, row) /\ asked' = asked
                BY <3>2 DEF Deployed, Enqueue
            <4>2. work[c].version \in Versions
                BY <3>2, WorkShape DEF Deployed, Busy, BusyPhases
            <4>3. row \in Job
                BY <4>2, BackoffType DEF NewJob, Job
            <4> HIDE DEF row
            <4>4. jobs' \in Seq(Job) /\ \A j \in DOMAIN jobs : j \in DOMAIN jobs' /\ jobs'[j] = jobs[j]
                BY <4>1, <4>3 DEF TypeOK
            <4> QED
                BY <4>1, <4>4 DEF TypeOK, VersionsStay
        <3>3. CASE Deleted(c)
            <4>1. jobs' = [j \in DOMAIN jobs |-> [jobs[j] EXCEPT !.status = "gone"]]
                BY <3>3 DEF Deleted
            <4>2. \A j \in DOMAIN jobs : jobs'[j] \in Job /\ jobs'[j].version = jobs[j].version
                BY <4>1, JobShape DEF Job
            <4>3. jobs' \in Seq(Job) /\ DOMAIN jobs' = DOMAIN jobs
                BY <4>1, <4>2, RowsSet
            <4> QED
                BY <3>3, <4>2, <4>3 DEF Deleted, VersionsStay, TypeOK
        <3> QED
            BY <1>2, <3>1, <3>2, <3>3
    <2>4. TypeOK'
        BY <1>2, <2>2, <2>3 DEF Deployed, Deleted, TypeOK, requestVars
    <2>5. ItemsStand'
        BY <2>2, <2>3, StandsFrame DEF ItemsStand
    <2>6. CallersWork'
        BY <2>2 DEF CallersWork, Busy
    <2> QED
        BY <2>3, <2>4, <2>5, <2>6
<1> QED
    BY <1>1, <1>2

LEMMA UncommittedTasks ==
    ASSUME Tasks, DeployUncommitted
    PROVE  Tasks' /\ VersionsStay
<1> USE DEF Tasks
<1>1. /\ UNCHANGED <<file, requested, rivals, exists, linked, leader, jobs, work, asked, faults, extras>>
      /\ versions' \in Versions
    BY GitSyncAssumption DEF DeployUncommitted, TypeOK, Versions, NoFile
<1>2. TypeOK' /\ VersionsStay
    BY <1>1 DEF TypeOK, VersionsStay
<1>3. CallersWork' /\ ItemsStand'
    BY <1>1, <1>2, StandsFrame DEF CallersWork, ItemsStand, Busy
<1> QED
    BY <1>2, <1>3

LEMMA WorkerTasks ==
    ASSUME Tasks, NEW w \in Workers, Git(w) \/ Crash(w)
    PROVE  Tasks' /\ VersionsStay
<1> USE CallersAreNoInstances DEF Tasks
<1>1. CASE Git(w)
    <2>1. jobs' = jobs /\ VersionsStay
        BY <1>1, GitSets DEF VersionsStay
    <2>2. file' \in Versions \cup {NoFile}
        BY <1>1, GitSets, WorkShape DEF TypeOK
    <2>3. TypeOK'
        BY <1>1, <2>2, GitSets DEF TypeOK, requestVars
    <2>4. \A v \in Workers : Busy(v)' <=> Busy(v)
        BY <1>1, GitSets DEF Busy
    <2>5. CallersWork'
        BY <1>1, <2>4, GitSets DEF CallersWork
    <2>6. ASSUME NEW i \in Instances PROVE Stands(i)'
        <3>1. CASE ~Busy(i)
            BY <1>1, <2>1, <3>1, GitSets, StandsFrame DEF ItemsStand
        <3>2. CASE Busy(i)
            <4>1. work[i] # Idle
                BY <3>2 DEF Busy, Idle, BusyPhases
            <4>2. /\ work'[i].version = work[i].version
                  /\ work'[i].batch = work[i].batch /\ work'[i].item = work[i].item
                BY <1>1, <3>2, GitSets
            <4> QED
                BY <2>1, <2>4, <3>2, <4>1, <4>2 DEF ItemsStand, Stands, ItemStands
        <3> QED
            BY <3>1, <3>2
    <2> QED
        BY <2>1, <2>3, <2>5, <2>6 DEF ItemsStand
<1>2. CASE Crash(w)
    <2>1. Do(w, Idle) /\ Idle \in Work
        BY <1>2 DEF Crash, Work
    <2>2. work' \in [Workers -> Work] /\ work'[w] = Idle
          /\ \A v \in Workers \ {w} : work'[v] = work[v]
        BY <2>1, DoSets
    <2>3. UNCHANGED <<file, requestVars, jobs, asked, faults>> /\ extras' \in 0 .. MaxExtras
        BY <1>2, GitSyncAssumption DEF Crash, Extra, TypeOK
    <2>4. TypeOK' /\ VersionsStay
        BY <2>2, <2>3 DEF TypeOK, requestVars, VersionsStay
    <2>5. ASSUME NEW i \in Instances PROVE Stands(i)'
        <3>1. CASE i = w
            BY <2>2, <3>1 DEF Stands, Busy, Idle, BusyPhases
        <3>2. CASE i # w
            BY <2>2, <2>4, <3>2, StandsFrame DEF ItemsStand
        <3> QED
            BY <3>1, <3>2
    <2>6. CallersWork'
        BY <2>2 DEF CallersWork, Busy
    <2> QED
        BY <2>4, <2>5, <2>6 DEF ItemsStand
<1> QED
    BY <1>1, <1>2

LEMMA InstanceTasks ==
    ASSUME Tasks, NEW i \in Instances, Tick(i) \/ Claim(i) \/ Settle(i)
    PROVE  Tasks' /\ VersionsStay
<1> USE CallersAreNoInstances DEF Tasks
<1>1. UNCHANGED <<file, requestVars, asked, faults, extras>>
    BY DEF Tick, Claim, Settle
<1>2. ASSUME NEW task \in Work, Do(i, task), jobs' \in Seq(Job), DOMAIN jobs' = DOMAIN jobs,
             VersionsStay, Stands(i)'
      PROVE  Tasks' /\ VersionsStay
    <2>1. work' \in [Workers -> Work] /\ \A v \in Workers \ {i} : work'[v] = work[v]
        BY <1>2, DoSets
    <2>2. TypeOK'
        BY <1>1, <1>2, <2>1 DEF TypeOK, requestVars
    <2>3. CallersWork'
        BY <2>1 DEF CallersWork, Busy
    <2>4. ItemsStand'
        BY <1>2, <2>1, StandsFrame DEF ItemsStand
    <2> QED
        BY <1>2, <2>2, <2>3, <2>4
<1>3. ASSUME NEW j \in DOMAIN jobs, NEW row \in Job, row.version = jobs[j].version,
             jobs' = jobs \/ jobs' = [jobs EXCEPT ![j] = row]
      PROVE  jobs' \in Seq(Job) /\ DOMAIN jobs' = DOMAIN jobs /\ VersionsStay
    <2>1. CASE jobs' = jobs
        BY <2>1 DEF TypeOK, VersionsStay
    <2>2. CASE jobs' = [jobs EXCEPT ![j] = row]
        BY <1>3, <2>2, JobSets DEF VersionsStay
    <2> QED
        BY <1>3, <2>1, <2>2
<1>4. ASSUME NEW rest \in SUBSET work[i].batch, rest \in SUBSET Item, work[i] # Idle,
             Do(i, Rest(rest)), VersionsStay
      PROVE  Stands(i)'
    <2>1. work'[i] = Rest(rest)
        BY <1>4, DoSets
    <2>2. \A item \in rest : ItemStands(item)'
        BY <1>4 DEF ItemsStand, Stands, ItemStands, VersionsStay
    <2> QED
        BY <1>4, <2>1, <2>2, RestShape DEF Stands, Busy, BusyPhases
<1>5. CASE Tick(i)
    <2> DEFINE batch == {ItemOf(j) : j \in {k \in DOMAIN jobs : Due(k)}}
               task == [phase |-> "tick", batch |-> batch]
    <2>1. \A j \in DOMAIN jobs : ItemOf(j) \in Item /\ ItemStands(ItemOf(j))
        <3>1. ASSUME NEW j \in DOMAIN jobs PROVE ItemOf(j) \in Item /\ ItemStands(ItemOf(j))
            <4>1. j \in Nat \ {0} /\ linked \in BOOLEAN
                BY DEF TypeOK
            <4> QED
                BY <4>1, JobShape DEF ItemOf, Item, ItemStands
        <3> QED
            BY <3>1
    <2>2. batch \in SUBSET Item /\ \A item \in batch : ItemStands(item)
        BY <2>1
    <2>3. Do(i, task) /\ jobs' = jobs
        BY <1>5 DEF Tick
    <2> HIDE DEF batch
    <2>4. task \in Work /\ task.phase = "tick" /\ task.batch = batch
        BY <2>2 DEF Work
    <2> HIDE DEF task
    <2>5. work'[i] = task
        BY <2>3, DoSets
    <2>6. Stands(i)'
        BY <2>2, <2>3, <2>4, <2>5 DEF Stands, ItemStands, Busy, BusyPhases
    <2>7. jobs' \in Seq(Job) /\ DOMAIN jobs' = DOMAIN jobs /\ VersionsStay
        BY <2>3 DEF TypeOK, VersionsStay
    <2> QED
        BY <1>2, <2>3, <2>4, <2>6, <2>7
<1>6. CASE Claim(i)
    <2>1. PICK item \in work[i].batch, rest \in SUBSET work[i].batch :
             /\ work[i].phase = "tick" /\ item \in Item /\ rest \in SUBSET Item
             /\ ItemStands(item)
             /\ jobs' = jobs \/ jobs' = [jobs EXCEPT ![item.job] = ClaimedRow(item)]
             /\ Do(i, Rest(rest)) \/ Do(i, ClaimedTask(item, rest))
        BY <1>6, ClaimCases
    <2>2. item.job \in DOMAIN jobs /\ work[i] # Idle
        BY <2>1 DEF ItemStands, Idle
    <2>3. jobs' \in Seq(Job) /\ DOMAIN jobs' = DOMAIN jobs /\ VersionsStay
        BY <1>3, <2>1, <2>2, ClaimShape
    <2>4. CASE Do(i, Rest(rest))
        <3>1. Stands(i)'
            BY <1>4, <2>1, <2>2, <2>3, <2>4
        <3>2. Rest(rest) \in Work
            BY <2>1, RestShape
        <3> QED
            BY <1>2, <2>3, <2>4, <3>1, <3>2
    <2>5. CASE Do(i, ClaimedTask(item, rest))
        <3> DEFINE task == ClaimedTask(item, rest)
        <3>1. /\ task \in Work /\ task.batch = rest
              /\ task.item \in Item /\ task.item.job = item.job
              /\ task.item.version = item.version /\ task.version = item.version
            BY <2>1, <2>2, ClaimShape
        <3>2. work'[i] = task
            BY <2>5, DoSets
        <3>3. \A r \in rest \cup {item} : ItemStands(r)'
            BY <2>1, <2>2, <2>3 DEF ItemsStand, Stands, ItemStands, VersionsStay
        <3>4. ItemStands(task.item)'
            BY <3>1, <3>3 DEF ItemStands
        <3> HIDE DEF task
        <3>5. Stands(i)'
            BY <3>1, <3>2, <3>3, <3>4 DEF Stands
        <3> QED
            BY <1>2, <2>3, <2>5, <3>1, <3>5 DEF task
    <2> QED
        BY <2>1, <2>4, <2>5
<1>7. CASE Settle(i)
    <2> DEFINE j == work[i].item.job
    <2>1. /\ j \in DOMAIN jobs /\ work[i].batch \in SUBSET Item
          /\ work[i] # Idle /\ Do(i, Rest(work[i].batch))
          /\ SettledRow(i) \in Job /\ SettledRow(i).version = jobs[j].version
          /\ jobs' = jobs \/ jobs' = [jobs EXCEPT ![j] = SettledRow(i)]
        BY <1>7, SettleCases
    <2>2. jobs' \in Seq(Job) /\ DOMAIN jobs' = DOMAIN jobs /\ VersionsStay
        BY <1>3, <2>1
    <2>3. Stands(i)'
        BY <1>4, <2>1, <2>2
    <2>4. Rest(work[i].batch) \in Work
        BY <2>1, RestShape
    <2> QED
        BY <1>2, <2>1, <2>2, <2>3, <2>4
<1> QED
    BY <1>5, <1>6, <1>7

\* The requests of users, the clock, and what else happens to the environment.
LEMMA OtherTasks ==
    ASSUME Tasks,
           \/ \E j \in DOMAIN jobs : AskRetry(j) \/ RetryJob(j) \/ BecomesDue(j)
           \/ RetryAllFailed \/ Handover \/ Unlink
    PROVE  Tasks' /\ VersionsStay
<1> USE CallersAreNoInstances DEF Tasks
<1>1. ASSUME NEW j \in DOMAIN jobs
      PROVE  /\ Retried(j) \in Job /\ Retried(j).version = jobs[j].version
             /\ [jobs[j] EXCEPT !.retry = "due"] \in Job
             /\ [jobs[j] EXCEPT !.retry = "due"].version = jobs[j].version
    BY JobShape DEF Retried, Job
<1>2. jobs' \in Seq(Job) /\ DOMAIN jobs' = DOMAIN jobs /\ VersionsStay
    <2>1. CASE UNCHANGED jobs
        BY <2>1 DEF TypeOK, VersionsStay
    <2>2. ASSUME NEW j \in DOMAIN jobs, NEW row \in Job, row.version = jobs[j].version,
                 jobs' = [jobs EXCEPT ![j] = row]
          PROVE  jobs' \in Seq(Job) /\ DOMAIN jobs' = DOMAIN jobs /\ VersionsStay
        BY <2>2, JobSets DEF VersionsStay
    <2>3. ASSUME NEW j \in DOMAIN jobs, RetryJob(j) \/ BecomesDue(j)
          PROVE  jobs' \in Seq(Job) /\ DOMAIN jobs' = DOMAIN jobs /\ VersionsStay
        <3>1. \/ UNCHANGED jobs
              \/ jobs' = [jobs EXCEPT ![j] = Retried(j)]
              \/ jobs' = [jobs EXCEPT ![j] = [jobs[j] EXCEPT !.retry = "due"]]
            BY <2>3 DEF RetryJob, BecomesDue
        <3> QED
            BY <1>1, <2>1, <2>2, <3>1
    <2>4. CASE RetryAllFailed
        <3>1. jobs' = [j \in DOMAIN jobs |->
                         IF jobs[j].status = "failed" THEN Retried(j) ELSE jobs[j]]
            BY <2>4 DEF RetryAllFailed
        <3>2. \A j \in DOMAIN jobs : jobs'[j] \in Job /\ jobs'[j].version = jobs[j].version
            BY <1>1, <3>1, JobShape
        <3>3. jobs' \in Seq(Job) /\ DOMAIN jobs' = DOMAIN jobs
            BY <3>1, <3>2, RowsSet
        <3> QED
            BY <3>2, <3>3 DEF VersionsStay
    <2> QED
        BY <2>1, <2>3, <2>4 DEF AskRetry, Handover, Unlink
<1>3. UNCHANGED <<file, versions, requested, rivals, exists, work, faults>>
    BY DEF AskRetry, RetryJob, BecomesDue, RetryAllFailed, Handover, Unlink, requestVars
<1>4. extras' \in 0 .. MaxExtras
    BY GitSyncAssumption
       DEF AskRetry, RetryJob, BecomesDue, RetryAllFailed, Handover, Unlink, Extra, TypeOK
<1>5. linked' \in BOOLEAN /\ leader' \in Instances
    BY DEF AskRetry, RetryJob, BecomesDue, RetryAllFailed, Handover, Unlink, TypeOK, requestVars
<1>6. asked' \subseteq DOMAIN jobs
    BY DEF AskRetry, RetryJob, BecomesDue, RetryAllFailed, Handover, Unlink, TypeOK
<1>7. TypeOK'
    BY <1>2, <1>3, <1>4, <1>5, <1>6 DEF TypeOK
<1>8. CallersWork' /\ ItemsStand'
    BY <1>2, <1>3, StandsFrame DEF CallersWork, ItemsStand, Busy
<1> QED
    BY <1>2, <1>7, <1>8

LEMMA TasksStep == Tasks /\ [Next]_vars => Tasks' /\ VersionsStay
<1> SUFFICES ASSUME Tasks, [Next]_vars PROVE Tasks' /\ VersionsStay
    OBVIOUS
<1>1. CASE UNCHANGED vars
    BY <1>1 DEF vars, requestVars, Tasks, TypeOK, CallersWork, ItemsStand, Stands, ItemStands, Busy,
                VersionsStay
<1>2. CASE Next
    BY <1>2, CallerTasks, UncommittedTasks, WorkerTasks, InstanceTasks, OtherTasks DEF Next
<1> QED
    BY <1>1, <1>2

-----------------------------------------------------------------------------
(***************************************************************************)
(* A pending job is scheduled or in hand.                                  *)
(***************************************************************************)
Holds(i, j) == Busy(i) /\ work[i].item.job = j

LEMMA InHandDef ==
    ASSUME TypeOK, NEW j
    PROVE  InHand(j) <=> \E i \in Instances : Holds(i, j)
<1>1. \A i \in Instances : Busy(i) <=> work[i].phase \notin {"idle", "tick"}
    BY WorkShape, CallersAreNoInstances DEF Busy, BusyPhases
<1> QED
    BY <1>1 DEF InHand, Holds

LEMMA FaultsStay == [Next]_vars => faults' = faults
BY DEF vars, Next, Deploy, DeployUncommitted, Delete, Deployed, Deleted, Git, Clone, Push, PushStale, Crash, Tick,
       Claim, Settle, AskRetry, RetryJob, BecomesDue, RetryAllFailed, Handover, Unlink

LEMMA ScheduledStep == Tasks /\ Scheduled /\ [Next]_vars => Scheduled'
<1> SUFFICES ASSUME Tasks, Scheduled, [Next]_vars, faults \cap {"db", "crash"} = {},
                    NEW j \in DOMAIN jobs', jobs'[j].status = "pending",
                    jobs'[j].retry = "never"
             PROVE  InHand(j)'
    BY FaultsStay DEF Scheduled
<1> USE CallersAreNoInstances DEF Tasks
<1>0. TypeOK' /\ "db" \notin faults /\ "crash" \notin faults
    BY TasksStep
<1>1. j \in DOMAIN jobs /\ jobs[j].status = "pending" /\ jobs[j].retry = "never" =>
         \E i \in Instances : Holds(i, j)
    BY InHandDef DEF Scheduled
<1>2. \A i \in Instances : Holds(i, j)' => InHand(j)'
    BY DEF InHand, Holds, Busy, BusyPhases
<1>3. ASSUME j \in DOMAIN jobs, jobs'[j] = jobs[j],
             \A i \in Instances : Holds(i, j) => Holds(i, j)'
      PROVE  InHand(j)'
    BY <1>1, <1>2, <1>3
<1>4. CASE UNCHANGED vars
    BY <1>3, <1>4 DEF vars, Holds, Busy
<1>5. ASSUME NEW c \in Callers, Deploy(c) \/ Delete(c) \/ Deployed(c) \/ Deleted(c)
      PROVE  InHand(j)'
    <2>1. \A i \in Instances : work'[i] = work[i]
        BY <1>5, DoSets DEF Deploy, Delete, Deployed, Deleted, Begin
    <2>2. j \in DOMAIN jobs /\ jobs'[j] = jobs[j]
        <3>1. CASE UNCHANGED jobs
            BY <3>1
        <3>2. CASE Deployed(c) /\ jobs' # jobs
            <4> DEFINE row == NewJob(work[c].version)
            <4>1. jobs' = Append(jobs, row)
                BY <3>2 DEF Deployed, Enqueue
            <4>2. row.retry # "never"
                BY GitSyncAssumption DEF NewJob, Backoff
            <4> HIDE DEF row
            <4> QED
                BY <4>1, <4>2 DEF TypeOK
        <3>3. ~Deleted(c)
            BY JobShape DEF Deleted, Job
        <3> QED
            BY <1>5, <3>1, <3>2, <3>3 DEF Deploy, Delete
    <2> QED
        BY <1>3, <2>1, <2>2 DEF Holds, Busy
<1>12. CASE DeployUncommitted
    BY <1>3, <1>12 DEF DeployUncommitted, Holds, Busy
<1>6. ASSUME NEW w \in Workers, Git(w) PROVE InHand(j)'
    <2>1. jobs' = jobs
        BY <1>6, GitSets
    <2>2. \A i \in Instances : Holds(i, j) => Holds(i, j)'
        BY <1>6, GitSets DEF Holds, Busy
    <2> QED
        BY <1>3, <2>1, <2>2
<1>7. ASSUME NEW w \in Workers PROVE ~Crash(w)
    BY <1>0 DEF Crash, Extra, Fault
<1>8. ASSUME NEW i \in Instances, Tick(i) PROVE InHand(j)'
    <2>1. jobs' = jobs /\ ~Busy(i) /\ \A v \in Workers \ {i} : work'[v] = work[v]
        BY <1>8, DoSets DEF Tick, Busy, BusyPhases, Idle
    <2> QED
        BY <1>3, <2>1 DEF Holds, Busy
<1>9. ASSUME NEW i \in Instances, Claim(i) PROVE InHand(j)'
    <2>1. PICK item \in work[i].batch, rest \in SUBSET work[i].batch :
             /\ work[i].phase = "tick" /\ item \in Item /\ rest \in SUBSET Item
             /\ ItemStands(item)
             /\ \/ /\ jobs' = [jobs EXCEPT ![item.job] = ClaimedRow(item)]
                   /\ Do(i, ClaimedTask(item, rest))
                \/ jobs' = jobs /\ Do(i, Rest(rest))
        BY <1>0, <1>9, ClaimCases
    <2>2. ~Busy(i) /\ \A v \in Workers \ {i} : work'[v] = work[v]
        BY <2>1, DoSets DEF Busy, BusyPhases
    <2>3. \A v \in Instances : Holds(v, j) => Holds(v, j)'
        BY <2>2 DEF Holds, Busy
    <2>4. CASE jobs' = jobs
        BY <1>3, <2>3, <2>4
    <2>5. CASE /\ jobs' = [jobs EXCEPT ![item.job] = ClaimedRow(item)]
               /\ Do(i, ClaimedTask(item, rest))
        <3>1. item.job \in DOMAIN jobs
            BY <2>1 DEF ItemStands
        <3>2. DOMAIN jobs' = DOMAIN jobs /\ \A k \in DOMAIN jobs \ {item.job} : jobs'[k] = jobs[k]
            BY <2>1, <2>5, <3>1, ClaimShape, JobSets
        <3>3. CASE j # item.job
            BY <1>3, <2>3, <3>2, <3>3
        <3>4. CASE j = item.job
            <4>1. work'[i] = ClaimedTask(item, rest)
                BY <2>5, DoSets
            <4>2. Holds(i, j)'
                BY <2>1, <3>1, <3>4, <4>1, ClaimShape DEF Holds, Busy, BusyPhases
            <4> QED
                BY <1>2, <4>2
        <3> QED
            BY <3>3, <3>4
    <2> QED
        BY <2>1, <2>4, <2>5
<1>10. ASSUME NEW i \in Instances, Settle(i) PROVE InHand(j)'
    <2> DEFINE k == work[i].item.job
    <2>1. /\ work[i].phase \in {"done", "refused"} /\ k \in DOMAIN jobs /\ work[i].item \in Item
          /\ Do(i, Rest(work[i].batch)) /\ SettledRow(i) \in Job
          /\ \/ jobs' = [jobs EXCEPT ![k] = SettledRow(i)]
             \/ jobs[k].status = "gone" /\ jobs' = jobs
        BY <1>0, <1>10, SettleCases
    <2>2. \A v \in Workers \ {i} : work'[v] = work[v]
        BY <2>1, DoSets
    <2>3. DOMAIN jobs' = DOMAIN jobs /\ \A l \in DOMAIN jobs \ {k} : jobs'[l] = jobs[l]
        BY <2>1, JobSets
    <2>4. CASE j # k
        BY <1>3, <2>2, <2>3, <2>4 DEF Holds, Busy
    <2>5. j # k
        <3>1. ASSUME jobs'[k] = SettledRow(i)
              PROVE  jobs'[k].status # "pending" \/ jobs'[k].retry # "never"
            <4>1. jobs[k] \in Job
                BY <2>1, JobShape
            <4>2. CASE work[i].phase = "done" \/ Exhausted(work[i].item)
                BY <3>1, <4>1, <4>2 DEF SettledRow, Job
            <4>3. CASE work[i].phase # "done" /\ ~Exhausted(work[i].item)
                <5>1. work[i].item.attempts < Delays
                    BY <2>1, <4>3, GitSyncAssumption DEF Exhausted, Item
                <5> QED
                    BY <3>1, <4>1, <4>3, <5>1 DEF SettledRow, Job, Backoff
            <4> QED
                BY <4>2, <4>3
        <3> QED
            BY <2>1, <3>1, JobSets
    <2> QED
        BY <2>4, <2>5
<1>11. CASE \/ \E k \in DOMAIN jobs : AskRetry(k) \/ RetryJob(k) \/ BecomesDue(k)
            \/ RetryAllFailed \/ Handover \/ Unlink
    <2>1. work' = work
        BY <1>11 DEF AskRetry, RetryJob, BecomesDue, RetryAllFailed, Handover, Unlink
    <2>2. j \in DOMAIN jobs /\ jobs'[j] = jobs[j]
        <3>1. \A k \in DOMAIN jobs : Retried(k).retry = "due" /\ [jobs[k] EXCEPT !.retry = "due"].retry = "due"
            BY JobShape DEF Retried, Job
        <3>2. \/ UNCHANGED jobs
              \/ \E k \in DOMAIN jobs : \/ jobs' = [jobs EXCEPT ![k] = Retried(k)]
                                        \/ jobs' = [jobs EXCEPT ![k] = [jobs[k] EXCEPT !.retry = "due"]]
              \/ jobs' = [k \in DOMAIN jobs |->
                             IF jobs[k].status = "failed" THEN Retried(k) ELSE jobs[k]]
            BY <1>11 DEF AskRetry, RetryJob, BecomesDue, RetryAllFailed, Handover, Unlink
        <3> QED
            BY <3>1, <3>2
    <2> QED
        BY <1>3, <2>1, <2>2 DEF Holds, Busy
<1> QED
    BY <1>4, <1>5, <1>6, <1>7, <1>8, <1>9, <1>10, <1>11, <1>12 DEF Next

-----------------------------------------------------------------------------
(***************************************************************************)
(* The repository follows.                                                 *)
(***************************************************************************)
\* Steps that neither push nor begin a commit, and complete only what is done.
LEMMA AccountedFrame ==
    ASSUME Tasks, VersionsStay, Accounted, CallersCommit,
           UNCHANGED <<file, requested, rivals, exists>>,
           \A c \in Callers : work'[c] = work[c],
           \A i \in Instances : work'[i].phase = "done" => work'[i] = work[i],
           \A j \in DOMAIN jobs :
               jobs[j].status # "completed" =>
                   \/ jobs'[j].status # "completed"
                   \/ \E i \in Instances : work[i].phase = "done" /\ work[i].item.job = j
    PROVE  Accounted' /\ CallersCommit'
<1>1. CallersCommit'
    BY DEF CallersCommit, Busy, Committing
<1>2. CASE file \in Candidates
    BY <1>1, <1>2 DEF Accounted, Candidates, Retryable, VersionsStay
<1>3. CASE OwedByCaller
    BY <1>1, <1>3 DEF Accounted, OwedByCaller
<1>4. CASE OwedByJob
    <2>1. OwedByJob'
        BY <1>4 DEF OwedByJob, VersionsStay
    <2> QED
        BY <1>1, <2>1 DEF Accounted
<1> QED
    BY <1>1, <1>2, <1>3, <1>4 DEF Accounted

LEMMA OwedStep == Tasks /\ Owed /\ [Next]_vars => Owed'
<1> SUFFICES ASSUME Tasks, Owed, [Next]_vars, faults \cap {"db", "crash", "delete"} = {}
             PROVE  Accounted' /\ CallersCommit'
    BY FaultsStay DEF Owed
<1> USE CallersAreNoInstances DEF Tasks
<1>1. Accounted /\ CallersCommit /\ VersionsStay
    BY TasksStep DEF Owed
<1>2. "db" \notin faults /\ "crash" \notin faults /\ "delete" \notin faults
    OBVIOUS
<1>3. CASE UNCHANGED vars \/ DeployUncommitted
    <2>1. UNCHANGED <<file, requested, rivals, exists, work, jobs>>
        BY <1>3 DEF vars, requestVars, DeployUncommitted
    <2> QED
        BY <1>1, <2>1, AccountedFrame
<1>4. ASSUME NEW c \in Callers, Deploy(c) PROVE Accounted' /\ CallersCommit'
    <2>1. /\ work'[c].phase = "clone" /\ work'[c].version = requested'
          /\ \A v \in Workers \ {c} : work'[v] = work[v]
        BY <1>4, DoSets DEF Deploy, Begin
    <2>2. /\ requested' # NoFile /\ exists' = exists
          /\ \A d \in Callers : Committing(d) => work[d].version \in rivals'
        BY <1>4 DEF Deploy, TypeOK, Versions, NoFile
    <2>3. Accounted'
        BY <2>1 DEF Accounted, OwedByCaller, BusyPhases
    <2>4. ASSUME NEW d \in Callers
          PROVE  /\ Busy(d)' => work'[d].version # NoFile
                 /\ Committing(d)' => work'[d].version \in {requested'} \cup rivals'
        <3>1. CASE d = c
            BY <2>1, <2>2, <3>1
        <3>2. CASE d # c
            BY <1>1, <2>1, <2>2, <3>2 DEF CallersCommit, Busy, Committing
        <3> QED
            BY <3>1, <3>2
    <2>5. CallersCommit'
        BY <1>1, <2>2, <2>4 DEF CallersCommit
    <2> QED
        BY <2>3, <2>5
<1>5. ASSUME NEW c \in Callers PROVE ~Delete(c)
    BY <1>2 DEF Delete, Extra, Fault
<1>6. ASSUME NEW c \in Callers PROVE ~Deleted(c)
    BY <1>1 DEF Deleted, CallersCommit, Busy, BusyPhases
<1>7. ASSUME NEW c \in Callers, Deployed(c) PROVE Accounted' /\ CallersCommit'
    <2>1. /\ work'[c] = Idle /\ \A v \in Workers \ {c} : work'[v] = work[v]
          /\ UNCHANGED <<file, requested, rivals, exists>> /\ exists
          /\ work[c].phase \in {"done", "refused"}
        BY <1>1, <1>7, DoSets DEF Deployed, requestVars, CallersCommit
    <2>2. CallersCommit'
        BY <1>1, <2>1 DEF CallersCommit, Busy, Committing, Idle, BusyPhases
    <2>3. CASE file \in Candidates
        BY <1>1, <2>1, <2>2, <2>3 DEF Accounted, Candidates, Retryable, VersionsStay
    <2>4. CASE OwedByCaller
        <3>1. PICK d \in Callers :
                 work[d].phase \in BusyPhases \ {"done"} /\ work[d].version = requested
            BY <2>4 DEF OwedByCaller
        <3>2. CASE d # c
            <4>1. OwedByCaller'
                BY <2>1, <3>1, <3>2 DEF OwedByCaller
            <4> QED
                BY <2>2, <4>1 DEF Accounted
        <3>3. CASE d = c
            <4> DEFINE row == NewJob(requested)
                       new == Len(jobs) + 1
            <4>1. jobs' = Append(jobs, row)
                BY <1>2, <1>7, <2>1, <3>1, <3>3 DEF Deployed, Enqueue, Fault
            <4>2. row.version = requested /\ row.status = "pending"
                BY DEF NewJob
            <4> HIDE DEF row
            <4>3. new \in DOMAIN jobs' /\ jobs'[new] = row /\ new \notin DOMAIN jobs
                BY <4>1 DEF TypeOK
            <4>4. \A i \in Instances : work'[i].phase = "done" => work'[i].item.job # new
                BY <2>1, <4>3 DEF ItemsStand, Stands, ItemStands, Busy, BusyPhases
            <4> HIDE DEF new
            <4>5. OwedByJob'
                BY <2>1, <4>2, <4>3, <4>4 DEF OwedByJob
            <4> QED
                BY <2>2, <4>5 DEF Accounted
        <3> QED
            BY <3>2, <3>3
    <2>5. CASE OwedByJob
        <3>1. PICK j \in DOMAIN jobs :
                 /\ jobs[j].version = requested /\ jobs[j].status # "completed"
                 /\ \A i \in Instances : work[i].phase = "done" => work[i].item.job # j
            BY <2>5 DEF OwedByJob
        <3>2. j \in DOMAIN jobs' /\ jobs'[j] = jobs[j]
            <4>1. UNCHANGED jobs \/ \E row : jobs' = Append(jobs, row)
                BY <1>7 DEF Deployed, Enqueue
            <4> QED
                BY <4>1 DEF TypeOK
        <3>3. OwedByJob'
            BY <2>1, <3>1, <3>2 DEF OwedByJob
        <3> QED
            BY <2>2, <3>3 DEF Accounted
    <2> QED
        BY <1>1, <2>3, <2>4, <2>5 DEF Accounted
<1>8. ASSUME NEW w \in Workers, Git(w) PROVE Accounted' /\ CallersCommit'
    <2>1. UNCHANGED <<jobs, requested, rivals, exists>> /\ Candidates' = Candidates
        BY <1>8, GitSets DEF requestVars, Candidates, Retryable
    <2>2. ASSUME NEW c \in Callers
          PROVE  /\ Busy(c)' => Busy(c) /\ work'[c].version = work[c].version
                 /\ Committing(c)' => Committing(c)
        <3>1. Committing(c)' => Busy(c)' /\ work'[c].phase \notin {"done", "refused"}
            BY DEF Committing, Busy, BusyPhases
        <3>2. Busy(c)' => Busy(c) /\ work'[c].version = work[c].version
            BY <1>8, GitSets DEF Busy
        <3>3. Busy(c) /\ ~Committing(c) => work[c].phase \in {"done", "refused"}
            BY DEF Committing, Busy, BusyPhases
        <3>4. work[c].phase \in {"done", "refused"} => work'[c] = work[c]
            BY <1>8 DEF Git, Clone, Push, PushStale, Pushed, Do, TypeOK
        <3> QED
            BY <3>1, <3>2, <3>3, <3>4
    <2>3. CallersCommit'
        <3>1. ASSUME NEW c \in Callers
              PROVE  /\ Busy(c)' => work'[c].version # NoFile
                     /\ Committing(c)' => work'[c].version \in {requested'} \cup rivals'
            <4>1. Committing(c)' => Busy(c)'
                BY DEF Committing, Busy, BusyPhases
            <4> QED
                BY <1>1, <2>1, <2>2, <4>1 DEF CallersCommit
        <3> QED
            BY <1>1, <2>1, <3>1 DEF CallersCommit
    <2>4. work[w].version \in Candidates
        <3>1. Busy(w) /\ Committing(w)
            BY <1>8, GitSets DEF Git, Clone, Push, PushStale, Committing
        <3>2. CASE w \in Callers
            BY <1>1, <3>1, <3>2 DEF CallersCommit, Candidates
        <3>3. CASE w \in Instances
            BY <3>1, <3>3 DEF ItemsStand, Stands, ItemStands, Retryable, Candidates
        <3> QED
            BY <3>2, <3>3 DEF Workers
    <2>5. CASE file' = work[w].version
        BY <2>1, <2>3, <2>4, <2>5 DEF Accounted
    <2>6. CASE file' # work[w].version
        <3>1. file' = file /\ \A v \in Workers : work'[v].phase = "done" => work[v].phase = "done"
            BY <1>8, <2>6, GitSets
        <3>2. CASE file \in Candidates
            BY <2>1, <2>3, <3>1, <3>2 DEF Accounted
        <3>3. CASE OwedByCaller
            <4>1. OwedByCaller'
                BY <1>8, <2>1, <3>1, <3>3, GitSets DEF OwedByCaller, Busy
            <4> QED
                BY <2>3, <4>1 DEF Accounted
        <3>4. CASE OwedByJob
            <4>1. \A i \in Instances : work'[i].phase = "done" =>
                     work[i].phase = "done" /\ work'[i].item = work[i].item
                BY <1>8, <3>1, GitSets DEF Busy, BusyPhases
            <4>2. OwedByJob'
                BY <2>1, <3>4, <4>1 DEF OwedByJob
            <4> QED
                BY <2>3, <4>2 DEF Accounted
        <3> QED
            BY <1>1, <3>2, <3>3, <3>4 DEF Accounted
    <2> QED
        BY <2>5, <2>6
<1>9. ASSUME NEW w \in Workers PROVE ~Crash(w)
    BY <1>2 DEF Crash, Extra, Fault
<1>10. ASSUME NEW i \in Instances, Tick(i) \/ Claim(i) \/ Settle(i)
       PROVE  Accounted' /\ CallersCommit'
    <2>1. UNCHANGED <<file, requested, rivals, exists>>
        BY <1>10 DEF Tick, Claim, Settle, requestVars
    <2>2. \E task : /\ Do(i, task) /\ task.phase # "done"
        <3>1. Tick(i) => \E task : Do(i, task) /\ task.phase # "done"
            BY DEF Tick
        <3>2. Claim(i) => \E task : Do(i, task) /\ task.phase # "done"
            BY ClaimCases, ClaimShape, RestShape DEF ItemStands
        <3>3. Settle(i) => \E task : Do(i, task) /\ task.phase # "done"
            BY SettleCases, RestShape
        <3> QED
            BY <1>10, <3>1, <3>2, <3>3
    <2>3. /\ \A v \in Workers \ {i} : work'[v] = work[v]
          /\ work'[i].phase # "done"
        BY <2>2, DoSets
    <2>4. ASSUME NEW j \in DOMAIN jobs, jobs[j].status # "completed", jobs'[j].status = "completed"
          PROVE  work[i].phase = "done" /\ work[i].item.job = j
        <3>1. ~Tick(i)
            BY <2>4 DEF Tick
        <3>2. ~Claim(i)
            <4>1. SUFFICES ASSUME Claim(i) PROVE FALSE
                OBVIOUS
            <4>2. PICK item \in work[i].batch :
                     /\ item \in Item /\ item.job \in DOMAIN jobs
                     /\ jobs' = jobs \/ jobs' = [jobs EXCEPT ![item.job] = ClaimedRow(item)]
                BY <4>1, ClaimCases DEF ItemStands
            <4>3. ClaimedRow(item) \in Job /\ ClaimedRow(item).status = jobs[item.job].status
                BY <4>2, ClaimShape
            <4> QED
                BY <2>4, <4>2, <4>3, JobSets
        <3>3. CASE Settle(i)
            <4> DEFINE k == work[i].item.job
            <4>1. /\ work[i].phase \in {"done", "refused"} /\ k \in DOMAIN jobs
                  /\ SettledRow(i) \in Job
                  /\ jobs' = jobs \/ jobs' = [jobs EXCEPT ![k] = SettledRow(i)]
                BY <3>3, SettleCases
            <4>2. k = j /\ jobs'[j] = SettledRow(i)
                BY <2>4, <4>1, JobSets
            <4>3. CASE work[i].phase = "refused"
                <5>1. jobs[k] \in Job
                    BY <4>1, JobShape
                <5>2. SettledRow(i).status \in {"failed", jobs[k].status}
                    BY <4>3, <5>1 DEF SettledRow, Job
                <5> QED
                    BY <2>4, <4>2, <5>2
            <4> QED
                BY <4>1, <4>2, <4>3
        <3> QED
            BY <1>10, <3>1, <3>2, <3>3
    <2>5. \A c \in Callers : work'[c] = work[c]
        BY <2>3
    <2>6. \A v \in Instances : work'[v].phase = "done" => work'[v] = work[v]
        BY <2>3
    <2>7. \A j \in DOMAIN jobs :
             jobs[j].status # "completed" =>
                 \/ jobs'[j].status # "completed"
                 \/ \E v \in Instances : work[v].phase = "done" /\ work[v].item.job = j
        BY <2>4
    <2> QED
        BY <1>1, <2>1, <2>5, <2>6, <2>7, AccountedFrame
<1>11. CASE \/ \E k \in DOMAIN jobs : AskRetry(k) \/ RetryJob(k) \/ BecomesDue(k)
            \/ RetryAllFailed \/ Handover \/ Unlink
    <2>1. UNCHANGED <<file, requested, rivals, exists, work>>
        BY <1>11 DEF AskRetry, RetryJob, BecomesDue, RetryAllFailed, Handover, Unlink, requestVars
    <2>2. \A j \in DOMAIN jobs : jobs[j].status # "completed" => jobs'[j].status # "completed"
        <3>1. \A k \in DOMAIN jobs :
                 /\ Retried(k).status = "pending"
                 /\ [jobs[k] EXCEPT !.retry = "due"].status = jobs[k].status
            BY JobShape DEF Retried, Job
        <3>2. \/ UNCHANGED jobs
              \/ \E k \in DOMAIN jobs : \/ jobs' = [jobs EXCEPT ![k] = Retried(k)]
                                        \/ jobs' = [jobs EXCEPT ![k] = [jobs[k] EXCEPT !.retry = "due"]]
              \/ jobs' = [k \in DOMAIN jobs |->
                             IF jobs[k].status = "failed" THEN Retried(k) ELSE jobs[k]]
            BY <1>11 DEF AskRetry, RetryJob, BecomesDue, RetryAllFailed, Handover, Unlink
        <3> QED
            BY <3>1, <3>2
    <2> QED
        BY <1>1, <2>1, <2>2, AccountedFrame
<1> QED
    BY <1>3, <1>4, <1>5, <1>6, <1>7, <1>8, <1>9, <1>10, <1>11 DEF Next

-----------------------------------------------------------------------------
LEMMA InitInv == Init => Inv
<1> SUFFICES ASSUME Init PROVE Inv
    OBVIOUS
<1>1. Idle \in Work /\ <<>> \in Seq(Job) /\ DOMAIN jobs = {}
    BY DEF Init, Work
<1>2. TypeOK
    BY <1>1, GitSyncAssumption DEF Init, TypeOK, NoFile
<1>3. \A w \in Workers : work[w] = Idle /\ ~Busy(w)
    BY DEF Init, Busy, Idle, BusyPhases
<1>4. CallersWork /\ ItemsStand
    BY <1>3, CallersAreNoInstances DEF CallersWork, ItemsStand, Stands
<1>5. Scheduled /\ Owed
    BY <1>1, <1>3, CallersAreNoInstances 
       DEF Init, Scheduled, Owed, Accounted, Candidates, CallersCommit, Busy, Committing, Idle, BusyPhases
<1> QED
    BY <1>2, <1>4, <1>5 DEF Inv

LEMMA Invariance == Spec => []Inv
<1>1. Inv /\ [Next]_vars => Inv'
    BY TasksStep, ScheduledStep, OwedStep DEF Inv, Tasks
<1> QED
    BY <1>1, InitInv, PTL DEF Spec

\* A pending job is being retried or has a time at which it will be, for any
\* number of processes that poll, handovers and retries by users, as long as
\* no query fails and no process dies (git-sync-retry.ts).
THEOREM JobsAreScheduledHolds == Spec => []JobsAreScheduled
<1>1. Inv => JobsAreScheduled
    BY DEF Inv, Scheduled, JobsAreScheduled
<1> QED
    BY <1>1, Invariance, PTL

\* When all is done and every job is completed, the repository holds the
\* version whose commit was begun last, or one whose commit was under way then,
\* or one that had to be retried, whatever was refused and whoever pushed in
\* between (deploy-agent.ts, git-sync.ts); rollbacks and deployFromVersion,
\* which commit nothing, may have deployed yet another version.
THEOREM RepositoryFollowsHolds == Spec => []RepositoryFollows
<1>1. Inv => RepositoryFollows
    BY CallersAreNoInstances
       DEF Inv, Owed, Accounted, Candidates, OwedByCaller, OwedByJob, Retryable, RepositoryFollows, Idle, BusyPhases
<1> QED
    BY <1>1, Invariance, PTL

==================================================================================
