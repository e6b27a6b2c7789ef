------------------------------- MODULE GitSync -------------------------------
(***************************************************************************)
(* Keeping the file of a pipeline in the Git repository of its environment *)
(* (src/server/services/git-sync.ts, git-sync-retry.ts, the Git steps of   *)
(* deploy-agent.ts and of the deletion of a pipeline in pipeline-crud.ts,  *)
(* src/server/routers/git-sync.ts).                                        *)
(*                                                                         *)
(* deployAgent commits the YAML of the version it made; what fails becomes *)
(* a job that the leader's poll loop retries.  A commit clones the branch, *)
(* writes the file and pushes; the push is refused when somebody pushed in *)
(* between.  Nothing serialises the deployments of a pipeline, and the     *)
(* other ways to deploy (a rollback, deployFromVersion, which rollouts and *)
(* proposed changes use too) commit nothing.  Versions are numbered;       *)
(* NoFile is the file's absence.                                           *)
(*                                                                         *)
(* What may go wrong is chosen at the start, from FaultCases: "handover"   *)
(* (another process becomes leader, perhaps during a tick), "user" (a      *)
(* failed job is retried by hand), "unlink" (the environment loses its     *)
(* repository settings), "delete" (the pipeline is deleted), "db" (a query *)
(* fails) and "crash".  The remote may always refuse.                      *)
(***************************************************************************)
EXTENDS Naturals, Sequences, FiniteSets

CONSTANTS
    Instances,    \* server processes, each with its poll loop
    Callers,      \* requests that deploy or delete
    MaxAttempts,  \* GitSyncJob.maxAttempts
    Delays,       \* length of RETRY_DELAYS_MS
    FaultCases,
    MaxVersion,   \* bound on the versions deployed
    MaxExtras     \* bound on handovers, requests of users and crashes together

ASSUME GitSyncAssumption ==
    /\ IsFiniteSet(Instances) /\ Instances # {} /\ Callers \cap Instances = {}
    /\ MaxAttempts \in Nat \ {0} /\ Delays \in Nat /\ MaxAttempts <= Delays
    /\ MaxVersion \in Nat \ {0} /\ MaxExtras \in Nat
    /\ FaultCases \subseteq SUBSET {"handover", "user", "unlink", "delete", "db", "crash"}

VARIABLES
    file,       \* content of the pipeline's file on the branch
    versions,   \* number of the latest version
    requested,  \* the version whose commit was begun last
    rivals,     \* versions whose commits were under way when that one began
    exists,     \* the row of the pipeline
    linked,     \* the environment has a repository and a token
    jobs,       \* the rows of GitSyncJob in the order of their creation
    work,       \* what each caller and the tick of each process are doing
    leader,
    asked,      \* failed jobs a user is about to retry
    faults, extras

requestVars == <<versions, requested, rivals, exists, linked, leader>>
vars == <<file, requestVars, jobs, work, asked, faults, extras>>

NoFile == 0
Versions == 1 .. MaxVersion
Workers == Instances \cup Callers

Job == [version: Versions, attempts: Nat, retry: {"never", "later", "due"},
        status: {"pending", "completed", "failed", "gone"}]

\* What the query returned of a job and its environment.
Item == [job: Nat \ {0}, version: Versions, attempts: Nat, linked: BOOLEAN]

Idle == [phase |-> "idle"]
NoItem == [job |-> 0]

Work ==
    {Idle}
      \cup [phase: {"tick"}, batch: SUBSET Item]
      \cup [phase: {"clone", "stale", "push", "done", "refused"},
            version: Versions \cup {NoFile}, batch: SUBSET Item, item: Item \cup {NoItem}]

TypeOK ==
    /\ {file, versions, requested} \subseteq Versions \cup {NoFile}
    /\ rivals \subseteq Versions \cup {NoFile}
    /\ {exists, linked} \subseteq BOOLEAN
    /\ jobs \in Seq(Job)
    /\ work \in [Workers -> Work]
    /\ leader \in Instances
    /\ asked \subseteq DOMAIN jobs
    /\ faults \in FaultCases /\ extras \in 0 .. MaxExtras

Init ==
    /\ file = NoFile /\ versions = 0 /\ requested = NoFile /\ rivals = {}
    /\ exists = TRUE /\ linked = TRUE
    /\ jobs = <<>>
    /\ work = [w \in Workers |-> Idle]
    /\ leader \in Instances
    /\ asked = {}
    /\ faults \in FaultCases /\ extras = 0

-----------------------------------------------------------------------------
Fault(f) == f \in faults

Extra(f) == Fault(f) /\ extras < MaxExtras /\ extras' = extras + 1

Do(w, job) == work' = [work EXCEPT ![w] = job]

\* Mutant of Backoff: the schedule is indexed from one.
BackoffShifted(attempts) == IF attempts + 1 < Delays THEN "later" ELSE "never"

\* getNextRetryAt: a delay for the attempts 0 .. Delays - 1.
Backoff(attempts) == IF attempts < Delays THEN "later" ELSE "never"

-----------------------------------------------------------------------------
(***************************************************************************)
(* gitSyncCommitPipeline and gitSyncDeletePipeline, run by any worker.     *)
(***************************************************************************)
Phase(w, phase) == [work[w] EXCEPT !.phase = phase]

\* Nothing to commit is a success, and so is a file that is not there.
Clone(w) ==
    /\ work[w].phase = "clone"
    /\ \/ Do(w, Phase(w, IF file = work[w].version THEN "done" ELSE "push"))
       \/ Do(w, Phase(w, "refused"))
    /\ UNCHANGED <<file, requestVars, jobs, asked, faults, extras>>

\* The clones of all others are behind the branch now.
Pushed(w, phase) ==
    work' = [v \in Workers |->
               IF v = w THEN Phase(w, phase)
               ELSE IF work[v].phase = "push" THEN Phase(v, "stale") ELSE work[v]]

\* The push may succeed and still be reported as failed.
Push(w) ==
    /\ work[w].phase = "push"
    /\ \/ /\ file' = work[w].version
          /\ \E phase \in {"done", "refused"} : Pushed(w, phase)
       \/ /\ UNCHANGED file
          /\ Do(w, Phase(w, "refused"))
    /\ UNCHANGED <<requestVars, jobs, asked, faults, extras>>

PushStale(w) ==
    /\ work[w].phase = "stale"
    /\ Do(w, Phase(w, "refused"))
    /\ UNCHANGED <<file, requestVars, jobs, asked, faults, extras>>

Git(w) == Clone(w) \/ Push(w) \/ PushStale(w)

-----------------------------------------------------------------------------
(***************************************************************************)
(* Deploying a version and deleting the pipeline.                          *)
(***************************************************************************)
Begin(c, phase, version) ==
    Do(c, [phase |-> phase, version |-> version, batch |-> {}, item |-> NoItem])

Committing(w) == work[w].phase \in {"clone", "stale", "push"}

\* deployAgent, once the version is inserted: its commit is under way from here on.
Deploy(c) ==
    /\ exists /\ linked /\ work[c] = Idle
    /\ versions < MaxVersion
    /\ versions' = versions + 1
    /\ requested' = versions + 1
    /\ rivals' = {work[d].version : d \in {e \in Callers : Committing(e)}}
    /\ Begin(c, "clone", versions + 1)
    /\ UNCHANGED <<file, exists, linked, leader, jobs, asked, faults, extras>>

\* rollback and deployFromVersion make a version of another one; and without
\* a repository deployAgent commits nothing either.
DeployUncommitted ==
    /\ exists /\ (versions > 0 \/ ~linked)
    /\ versions < MaxVersion
    /\ versions' = versions + 1
    /\ UNCHANGED <<file, requested, rivals, exists, linked, leader, jobs, work, asked, faults, extras>>

Delete(c) ==
    /\ Extra("delete")
    /\ exists /\ work[c] = Idle
    /\ Begin(c, IF linked THEN "clone" ELSE "done", NoFile)
    /\ UNCHANGED <<file, requestVars, jobs, asked, faults>>

NewJob(version) ==
    [version |-> version, attempts |-> 1, retry |-> Backoff(0), status |-> "pending"]

\* Mutant of Enqueue: a failed commit is not made a job.
EnqueueNothing(version) == UNCHANGED jobs

\* createGitSyncJob
Enqueue(version) == jobs' = Append(jobs, NewJob(version))

\* A job that cannot be inserted, as when the pipeline is gone, is only logged.
Deployed(c) ==
    /\ work[c].phase \in {"done", "refused"} /\ work[c].version # NoFile
    /\ \/ /\ work[c].phase = "refused" /\ exists
          /\ Enqueue(work[c].version)
       \/ /\ work[c].phase = "done" \/ ~exists \/ Fault("db")
          /\ UNCHANGED jobs
    /\ Do(c, Idle)
    /\ UNCHANGED <<file, requestVars, asked, faults, extras>>

\* The file's deletion may have failed; the row goes, and its jobs with it.
Deleted(c) ==
    /\ work[c].phase \in {"done", "refused"} /\ work[c].version = NoFile
    /\ exists' = FALSE
    /\ jobs' = [j \in DOMAIN jobs |-> [jobs[j] EXCEPT !.status = "gone"]]
    /\ Do(c, Idle)
    /\ UNCHANGED <<file, versions, requested, rivals, linked, leader, asked, faults, extras>>

-----------------------------------------------------------------------------
(***************************************************************************)
(* GitSyncRetryService: a process runs one tick at a time, but one that    *)
(* loses the lead finishes its tick.                                       *)
(***************************************************************************)
Due(j) == jobs[j].status = "pending" /\ jobs[j].retry = "due"

ItemOf(j) ==
    [job |-> j, version |-> jobs[j].version, attempts |-> jobs[j].attempts, linked |-> linked]

Tick(i) ==
    /\ leader = i /\ work[i] = Idle
    /\ \E j \in DOMAIN jobs : Due(j)
    /\ Do(i, [phase |-> "tick", batch |-> {ItemOf(j) : j \in {k \in DOMAIN jobs : Due(k)}}])
    /\ UNCHANGED <<file, requestVars, jobs, asked, faults, extras>>

Rest(batch) == IF batch = {} THEN Idle ELSE [phase |-> "tick", batch |-> batch]

\* An update of a row that is gone throws.
Update(j, row) == jobs[j].status # "gone" /\ jobs' = [jobs EXCEPT ![j] = row]

\* Mutant of Claimed: the attempt is not counted.
ClaimedUncounted(item) ==
    Update(item.job, [jobs[item.job] EXCEPT !.retry = "never"])

Claimed(item) ==
    Update(item.job, [jobs[item.job] EXCEPT !.attempts = item.attempts + 1, !.retry = "never"])

Claim(i) ==
    /\ work[i].phase = "tick"
    /\ \E item \in work[i].batch :
          LET rest == work[i].batch \ {item} IN
          \/ /\ Claimed(item)
             /\ Do(i, [phase |-> IF item.linked THEN "clone" ELSE "refused",
                       version |-> item.version, batch |-> rest,
                       item |-> [item EXCEPT !.attempts = @ + 1]])
          \/ /\ Fault("db") \/ jobs[item.job].status = "gone"
             /\ UNCHANGED jobs /\ Do(i, Rest(rest))
          \/ /\ Fault("db") /\ Claimed(item) /\ Do(i, Rest(rest))
    /\ UNCHANGED <<file, requestVars, asked, faults, extras>>

\* Out of attempts, or nowhere to commit to.
Exhausted(item) == item.attempts >= MaxAttempts \/ ~item.linked

Settled(i) ==
    LET item == work[i].item
        job  == jobs[item.job]
    IN  Update(item.job,
          IF work[i].phase = "done" THEN [job EXCEPT !.status = "completed"]
          ELSE IF Exhausted(item)   THEN [job EXCEPT !.status = "failed"]
          ELSE [job EXCEPT !.retry = Backoff(item.attempts)])

Settle(i) ==
    /\ i \in Instances /\ work[i].phase \in {"done", "refused"}
    /\ \/ Settled(i)
       \/ /\ Fault("db") \/ jobs[work[i].item.job].status = "gone"
          /\ UNCHANGED jobs
    /\ Do(i, Rest(work[i].batch))
    /\ UNCHANGED <<file, requestVars, asked, faults, extras>>

-----------------------------------------------------------------------------
Retried(j) == [jobs[j] EXCEPT !.status = "pending", !.retry = "due", !.attempts = 0]

\* retryAllFailed, one statement; retryJob reads the status first.
RetryAllFailed ==
    /\ Extra("user")
    /\ jobs' = [j \in DOMAIN jobs |-> IF jobs[j].status = "failed" THEN Retried(j) ELSE jobs[j]]
    /\ UNCHANGED <<file, requestVars, work, asked, faults>>

AskRetry(j) ==
    /\ Extra("user")
    /\ jobs[j].status = "failed" /\ j \notin asked
    /\ asked' = asked \cup {j}
    /\ UNCHANGED <<file, requestVars, jobs, work, faults>>

RetryJob(j) ==
    /\ j \in asked
    /\ asked' = asked \ {j}
    /\ jobs' = IF jobs[j].status = "gone" THEN jobs ELSE [jobs EXCEPT ![j] = Retried(j)]
    /\ UNCHANGED <<file, requestVars, work, faults, extras>>

-----------------------------------------------------------------------------
BecomesDue(j) ==
    /\ jobs[j].status = "pending" /\ jobs[j].retry = "later"
    /\ jobs' = [jobs EXCEPT ![j].retry = "due"]
    /\ UNCHANGED <<file, requestVars, work, asked, faults, extras>>

Handover ==
    /\ Extra("handover")
    /\ leader' \in Instances \ {leader}
    /\ UNCHANGED <<file, versions, requested, rivals, exists, linked, jobs, work, asked, faults>>

Unlink ==
    /\ Extra("unlink") /\ linked
    /\ linked' = FALSE
    /\ UNCHANGED <<file, versions, requested, rivals, exists, leader, jobs, work, asked, faults>>

Crash(w) ==
    /\ Extra("crash")
    /\ Do(w, Idle)
    /\ UNCHANGED <<file, requestVars, jobs, asked, faults>>

Next ==
    \/ \E c \in Callers : Deploy(c) \/ Delete(c) \/ Deployed(c) \/ Deleted(c)
    \/ DeployUncommitted
    \/ \E w \in Workers : Git(w) \/ Crash(w)
    \/ \E i \in Instances : Tick(i) \/ Claim(i) \/ Settle(i)
    \/ \E j \in DOMAIN jobs : AskRetry(j) \/ RetryJob(j) \/ BecomesDue(j)
    \/ RetryAllFailed \/ Handover \/ Unlink

Spec == Init /\ [][Next]_vars

(***************************************************************************)
(* The leader's timer fires again and again, Git commands end, requests    *)
(* are finished and time passes.                                           *)
(***************************************************************************)
Fairness ==
    /\ \A c \in Callers : WF_vars(Deployed(c) \/ Deleted(c))
    /\ \A w \in Workers : WF_vars(Git(w))
    /\ \A i \in Instances : WF_vars(Tick(i)) /\ WF_vars(Claim(i) \/ Settle(i))
    /\ WF_vars(\E j \in DOMAIN jobs : BecomesDue(j) \/ RetryJob(j))

FairSpec == Spec /\ Fairness

-----------------------------------------------------------------------------
InHand(j) ==
    \E i \in Instances : work[i].phase \notin {"idle", "tick"} /\ work[i].item.job = j

\* Types; and when no query fails and no process dies, a pending job is
\* being retried or has a time at which it will be, whoever else retried it
\* meanwhile: a job without either could not even be retried by a user.
JobsAreScheduled ==
    /\ TypeOK
    /\ faults \cap {"db", "crash"} = {} =>
         \A j \in DOMAIN jobs :
            jobs[j].status = "pending" => InHand(j) \/ jobs[j].retry # "never"

\* When nothing is under way and every job is completed, the file holds the
\* version whose commit was begun last, or an older one whose commit was still
\* under way at that moment, or one that had to be retried: a deployAgent's
\* version is missing from the repository only for a trace of one of these.
\* (Nothing serialises deployments, and a retry does not ask what was deployed
\* since: deploy-agent.ts:211-272, git-sync-retry.ts:166-203.  The version that
\* is deployed may be yet another one, by a rollback or deployFromVersion.)
RepositoryFollows ==
    /\ faults \cap {"db", "crash", "delete"} = {}
    /\ \A w \in Workers : work[w] = Idle
    /\ \A j \in DOMAIN jobs : jobs[j].status = "completed"
    => file \in {requested} \cup rivals \cup {jobs[j].version : j \in DOMAIN jobs}

\* Every job ends, by a commit or by a failure users are told of.
JobsEnd ==
    \A j \in 1 .. MaxVersion :
        /\ faults \cap {"db", "crash"} = {}
        /\ j \in DOMAIN jobs /\ jobs[j].status = "pending"
        ~> j \in DOMAIN jobs /\ jobs[j].status # "pending"

=============================================================================
