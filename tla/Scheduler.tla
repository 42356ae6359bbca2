------------------------------ MODULE Scheduler ------------------------------
(***************************************************************************)
(* The background tasks of Krill: TaskQueue (src/daemon/mq.rs), Scheduler  *)
(* (scheduler.rs), and what the CA manager and the repository manager      *)
(* leave to them (ca/manager.rs, pubd/manager.rs).                         *)
(*                                                                         *)
(* The scheduler runs one task at a time.  Requests to the API run beside  *)
(* it.  The queue is only in memory.  The times of tasks are abstracted:   *)
(* any task in the queue can be next.                                      *)
(*                                                                         *)
(* Of a CA the model has whether it exists, its repository and its parent, *)
(* whether CaObjects has objects for it, and how these compare with what   *)
(* the repository has.                                                     *)
(***************************************************************************)
CONSTANTS
    CA,   \* handles of CAs
    None

VARIABLES
    exists,      \* the CAs that there are
    configured,  \* those with a repository
    parented,    \* those with a parent
    target,      \* handles for which CaObjects has a repository
    content,     \* those for which it has objects
    leftover,    \* those of them that are of a CA that was deleted
    repo,        \* for each handle, what its repository has of these
    staged,      \* has the repository server changes that RRDP has not?
    queue,       \* TaskQueue: the tasks in it
    running,     \* the task that is running
    deleting,    \* for each handle, the next step of delete_ca
    quiet,       \* history: handles with changes for which no task is planned
    born,        \* history: CAs made since the last start
    unnoticed,   \* history: was there a restart with changes for RRDP?
    raced,       \* history: CAs made anew during delete_ca or a SyncRepo
    uncleaned    \* history: handles that delete_ca has not cleaned, or for which
                 \* objects were published after that

caVars == <<exists, configured, parented>>
objVars == <<target, content, leftover>>
repoVars == <<objVars, repo, staged>>
history == <<quiet, born, unnoticed, raced, uncleaned>>
vars == <<caVars, repoVars, queue, running, deleting, history>>

-----------------------------------------------------------------------------
(* Tasks *)

SyncRepo(ca) == [kind |-> "sync_repo", ca |-> ca]
SyncParent(ca) == [kind |-> "sync_parent", ca |-> ca]
SuspendChildren(ca) == [kind |-> "suspend", ca |-> ca]
StartTasks == [kind |-> "start", ca |-> None]
Republish == [kind |-> "republish", ca |-> None]
Renew == [kind |-> "renew", ca |-> None]
RrdpUpdate == [kind |-> "rrdp", ca |-> None]

TasksFor(ca) == {SyncRepo(ca), SyncParent(ca), SuspendChildren(ca)}
Task == (UNION {TasksFor(ca) : ca \in CA}) \cup {StartTasks, Republish, Renew, RrdpUpdate}

\* A task that is running: how far it is, and what it has read.
Running == [task : Task, step : {"start", "send"}, fresh : BOOLEAN, some : BOOLEAN,
            listed : SUBSET CA]

ASSUME SchedulerAssumption ==
    None \notin CA \cup Running \cup {"clean", "drop", "tasks"}

Queued(t) == t \in queue
IsRunning(t) == running # None /\ running.task = t

\* TaskQueue::schedule: a task that is there is not there twice.
Schedule(ts) == queue \cup ts

-----------------------------------------------------------------------------
(* Changes of the objects of CAs *)

\* CAs with objects of their own.
Own == (content \ leftover) \cap exists

InSync(ca) == repo[ca] = IF ca \in content THEN "current" ELSE "none"

\* The repository has what it had, which is no longer current.
Stale(cas) == [ca \in CA |-> IF ca \in cas /\ repo[ca] = "current" THEN "stale" ELSE repo[ca]]

\* The elements that a synchronisation has read are no longer current.
Reread(cas) ==
    IF running # None /\ running.task.kind = "sync_repo" /\ running.task.ca \in cas
    THEN [task |-> running.task, step |-> running.step, fresh |-> FALSE, some |-> running.some,
          listed |-> running.listed]
    ELSE running

-----------------------------------------------------------------------------
(* Requests to the API *)

InitCa(ca) ==
    /\ ca \notin exists
    /\ exists' = exists \cup {ca} /\ born' = born \cup {ca}
    /\ raced' = IF deleting[ca] # None \/ IsRunning(SyncRepo(ca))
               THEN raced \cup {ca} ELSE raced
    /\ quiet' = IF InSync(ca) THEN quiet ELSE quiet \cup {ca}
    /\ UNCHANGED <<configured, parented, repoVars, queue, running, deleting, unnoticed, uncleaned>>

AddParent(ca) ==
    /\ ca \in exists /\ ca \notin parented
    /\ parented' = parented \cup {ca}
    /\ queue' = IF ca \in configured THEN Schedule({SyncParent(ca)}) ELSE queue
    /\ UNCHANGED <<exists, configured, repoVars, running, deleting, history>>

UpdateRepo(ca) ==
    /\ ca \in exists /\ ca \notin configured
    /\ configured' = configured \cup {ca} /\ target' = target \cup {ca}
    /\ queue' = IF ca \in parented THEN Schedule({SyncParent(ca)}) ELSE queue
    /\ UNCHANGED <<exists, parented, content, leftover, repo, staged, running, deleting, history>>

\* The resource classes under the parent go.
RemoveParent(ca) ==
    /\ ca \in exists /\ ca \in parented
    /\ parented' = parented \ {ca}
    /\ content' = content \ ({ca} \ leftover) /\ repo' = Stale({ca} \ leftover)
    /\ running' = Reread({ca} \ leftover)
    /\ queue' = (queue \ {SyncParent(ca)}) \cup {SyncRepo(ca)}
    /\ UNCHANGED <<exists, configured, target, leftover, staged, deleting, history>>

\* A command that changes objects.
ChangeObjects(ca) ==
    /\ ca \in exists /\ ca \in Own
    /\ repo' = Stale({ca}) /\ running' = Reread({ca})
    /\ queue' = Schedule({SyncRepo(ca)})
    /\ UNCHANGED <<caVars, objVars, staged, deleting, history>>

\* A command that does not, at a time when the manifest is about to be re-issued:
\* CaObjects re-issues it, and TaskQueue has no task for it.
ReissueQuietly(ca) ==
    /\ ca \in exists /\ ca \in content
    /\ repo' = Stale({ca}) /\ running' = Reread({ca})
    /\ quiet' = quiet \cup {ca}
    /\ UNCHANGED <<caVars, objVars, staged, queue, deleting, born, unnoticed, raced, uncleaned>>

\* cas_schedule_repo_sync, cas_schedule_refresh_single, cas_schedule_suspend_all
ScheduleSync(ca) ==
    /\ ca \in exists
    /\ \E t \in {SyncRepo(ca), SuspendChildren(ca)}
                \cup (IF ca \in parented THEN {SyncParent(ca)} ELSE {}) : queue' = Schedule({t})
    /\ UNCHANGED <<caVars, repoVars, running, deleting, history>>

\* delete_ca: clean the repository, best effort; drop the CA; remove its tasks.
\* CaObjects stays as it is.
\*
\* Mutant: the repository is not cleaned.
DeleteStartUnclean(ca) ==
    /\ ca \in exists /\ deleting[ca] = None
    /\ deleting' = [deleting EXCEPT ![ca] = "drop"]
    /\ UNCHANGED <<caVars, repoVars, queue, running, history>>

DeleteStart(ca) ==
    /\ ca \in exists /\ deleting[ca] = None
    /\ deleting' = [deleting EXCEPT ![ca] = IF ca \in target THEN "clean" ELSE "drop"]
    /\ UNCHANGED <<caVars, repoVars, queue, running, history>>

DeleteClean(ca) ==
    /\ deleting[ca] = "clean"
    /\ deleting' = [deleting EXCEPT ![ca] = "drop"]
    /\ \/ /\ repo' = [repo EXCEPT ![ca] = "none"]
          /\ staged' = (staged \/ repo[ca] # "none")
          /\ queue' = Schedule(IF repo[ca] # "none" THEN {RrdpUpdate} ELSE {})
          /\ uncleaned' = uncleaned \ {ca}
          /\ quiet' = quiet \cup (content \cap {ca})
       \/ /\ uncleaned' = uncleaned \cup {ca}
          /\ UNCHANGED <<repo, staged, queue, quiet>>
    /\ UNCHANGED <<caVars, objVars, running, born, unnoticed, raced>>

DeleteDrop(ca) ==
    /\ deleting[ca] = "drop"
    /\ exists' = exists \ {ca} /\ configured' = configured \ {ca} /\ parented' = parented \ {ca}
    /\ deleting' = [deleting EXCEPT ![ca] = "tasks"]
    /\ leftover' = leftover \cup (content \cap {ca})
    /\ UNCHANGED <<target, content, repo, staged, queue, running, history>>

DeleteTasks(ca) ==
    /\ deleting[ca] = "tasks"
    /\ queue' = queue \ TasksFor(ca)
    /\ deleting' = [deleting EXCEPT ![ca] = None]
    /\ UNCHANGED <<caVars, repoVars, running, history>>

-----------------------------------------------------------------------------
(* Running tasks *)

\* StartTasks has listed the CAs, and SyncRepo not yet its elements.
Pop(t) ==
    /\ running = None /\ Queued(t)
    /\ queue' = queue \ {t}
    /\ running' = [task |-> t, step |-> "start", fresh |-> TRUE, some |-> FALSE,
                   listed |-> IF t = StartTasks THEN exists ELSE {}]
    /\ UNCHANGED <<caVars, repoVars, deleting, history>>

Finish(ts) == running' = None /\ queue' = Schedule(ts)

\* What is in memory is lost.
Restart ==
    /\ queue' = {StartTasks}
    /\ running' = None
    /\ deleting' = [ca \in CA |-> None]
    /\ born' = {}
    /\ unnoticed' = (unnoticed \/ staged)
    /\ raced' = {}
    /\ uncleaned' = uncleaned \cup {ca \in CA : deleting[ca] # None}
    /\ UNCHANGED <<caVars, repoVars, quiet>>

\* queue_start_tasks: with too many CAs there is no SyncRepo for them.  A CA that
\* is gone since it was listed stops the server.
QueueStartTasks ==
    /\ IsRunning(StartTasks)
    /\ \/ /\ running.listed \subseteq exists
          /\ \E many \in BOOLEAN :
                LET parents == {SyncParent(ca) : ca \in running.listed \cap parented}
                    repos   == IF many THEN {} ELSE {SyncRepo(ca) : ca \in running.listed}
                    suspend == {SuspendChildren(ca) : ca \in running.listed}
                IN  /\ Finish(parents \cup repos \cup suspend \cup {Republish, Renew})
                    /\ quiet' = quiet \cup {ca \in running.listed :
                                              ~InSync(ca) /\ SyncRepo(ca) \notin queue'}
          /\ UNCHANGED <<caVars, repoVars, deleting, born, unnoticed, raced, uncleaned>>
       \/ /\ ~(running.listed \subseteq exists)
          /\ Restart

\* cas_repo_sync_single: the elements of CaObjects are read,
ReadElements(ca) ==
    /\ IsRunning(SyncRepo(ca)) /\ running.step = "start"
    /\ running' = [task |-> SyncRepo(ca), step |-> "send", fresh |-> TRUE, some |-> ca \in content,
                   listed |-> running.listed]
    /\ UNCHANGED <<caVars, repoVars, queue, deleting, history>>

Sending(ca) == IsRunning(SyncRepo(ca)) /\ running.step = "send"

\* What the repository gets.
Sent == IF ~running.some THEN "none" ELSE IF running.fresh THEN "current" ELSE "stale"

\* and, unless the repository has them, sent.  With no repository there is nothing to do.
Publish(ca) ==
    /\ Sending(ca) /\ ca \in exists
    /\ \/ /\ ca \in target
          /\ \/ /\ Sent # repo[ca] \/ Sent = "stale"
                /\ repo' = [repo EXCEPT ![ca] = Sent]
                /\ staged' = TRUE /\ Finish({RrdpUpdate})
             \/ /\ Sent = repo[ca]
                /\ Finish({}) /\ UNCHANGED <<repo, staged>>
          /\ quiet' = IF running.fresh THEN quiet \ {ca} ELSE quiet
          /\ uncleaned' = IF deleting[ca] # None THEN uncleaned \cup {ca} ELSE uncleaned
       \/ /\ ca \notin target
          /\ Finish({})
          /\ UNCHANGED <<repo, staged, quiet, uncleaned>>
    /\ UNCHANGED <<caVars, objVars, deleting, born, unnoticed, raced>>

\* Mutant: a publication that failed is not tried again.
PublishFailsForGood(ca) ==
    /\ Sending(ca)
    /\ Finish({})
    /\ UNCHANGED <<caVars, repoVars, deleting, history>>

\* The repository cannot be reached, or the CA is not there.
PublishFails(ca) ==
    /\ Sending(ca)
    /\ Finish({SyncRepo(ca)})
    /\ UNCHANGED <<caVars, repoVars, deleting, history>>

\* Mutant: the next time is planned only after a success.
SyncedParentOnce(ca) ==
    /\ IsRunning(SyncParent(ca))
    /\ \/ /\ ca \in parented /\ ca \in configured /\ ca \notin leftover
          /\ content' = content \cup {ca} /\ repo' = Stale({ca})
          /\ Finish({SyncRepo(ca), SyncParent(ca)})
       \/ /\ Finish({})
          /\ UNCHANGED <<content, repo>>
    /\ UNCHANGED <<caVars, target, leftover, staged, deleting, history>>

\* ca_sync_parent, which can change objects, and the next time for it.
SyncedParent(ca) ==
    /\ IsRunning(SyncParent(ca))
    /\ \/ /\ ca \in parented /\ ca \in configured /\ ca \notin leftover
          /\ content' = content \cup {ca} /\ repo' = Stale({ca})
          /\ Finish({SyncRepo(ca), SyncParent(ca)})
       \/ /\ Finish({SyncParent(ca)})
          /\ UNCHANGED <<content, repo>>
    /\ UNCHANGED <<caVars, target, leftover, staged, deleting, history>>

SuspendedChildren(ca) ==
    /\ IsRunning(SuspendChildren(ca))
    /\ \/ /\ ca \in Own
          /\ repo' = Stale({ca})
          /\ Finish({SyncRepo(ca), SuspendChildren(ca)})
       \/ /\ Finish({SuspendChildren(ca)})
          /\ UNCHANGED repo
    /\ UNCHANGED <<caVars, objVars, staged, deleting, history>>

\* Mutant: what is re-issued is not published.
RepublishedUnplanned(cas) ==
    /\ IsRunning(Republish) /\ cas \subseteq content
    /\ repo' = Stale(cas)
    /\ Finish({Republish})
    /\ quiet' = quiet \cup cas
    /\ UNCHANGED <<caVars, objVars, staged, deleting, born, unnoticed, raced, uncleaned>>

\* republish_if_needed re-issues manifests for some handles in CaObjects.
Republished(cas) ==
    /\ IsRunning(Republish) /\ cas \subseteq content
    /\ repo' = Stale(cas)
    /\ Finish({SyncRepo(ca) : ca \in cas} \cup {Republish})
    /\ UNCHANGED <<caVars, objVars, staged, deleting, history>>

\* renew_objects_if_needed renews objects of some CAs.
Renewed(cas) ==
    /\ IsRunning(Renew) /\ cas \subseteq Own
    /\ repo' = Stale(cas)
    /\ Finish({SyncRepo(ca) : ca \in cas} \cup {Renew})
    /\ UNCHANGED <<caVars, objVars, staged, deleting, history>>

\* Mutant: an update that is to be done later is not planned.
UpdatedRrdpNotLater ==
    /\ IsRunning(RrdpUpdate)
    /\ \/ /\ Finish({}) /\ UNCHANGED <<staged, unnoticed>>
       \/ /\ staged
          /\ staged' = FALSE /\ unnoticed' = FALSE
          /\ Finish({}) \/ Finish({RrdpUpdate})
    /\ UNCHANGED <<caVars, objVars, repo, deleting, quiet, born, raced, uncleaned>>

\* update_rrdp_if_needed: nothing to do; later, or failed before the changes were
\* taken; done; or failed after that, and tried again when there is nothing to do.
UpdatedRrdp ==
    /\ IsRunning(RrdpUpdate)
    /\ \/ /\ ~staged
          /\ Finish({}) /\ UNCHANGED <<staged, unnoticed>>
       \/ /\ staged
          /\ Finish({RrdpUpdate}) /\ UNCHANGED <<staged, unnoticed>>
       \/ /\ staged
          /\ staged' = FALSE /\ unnoticed' = FALSE
          /\ Finish({}) \/ Finish({RrdpUpdate})
    /\ UNCHANGED <<caVars, objVars, repo, deleting, quiet, born, raced, uncleaned>>

-----------------------------------------------------------------------------
Init ==
    /\ exists \in SUBSET CA /\ configured = exists /\ parented = exists
    /\ target = exists /\ content = exists /\ leftover = {}
    /\ repo = [ca \in CA |-> IF ca \in exists THEN "current" ELSE "none"]
    /\ staged = FALSE
    /\ queue = {StartTasks}
    /\ running = None
    /\ deleting = [ca \in CA |-> None]
    /\ quiet = {} /\ born = {} /\ unnoticed = FALSE /\ raced = {} /\ uncleaned = {}

Operator(ca) ==
    \/ InitCa(ca) \/ AddParent(ca) \/ UpdateRepo(ca) \/ RemoveParent(ca)
    \/ ChangeObjects(ca) \/ ReissueQuietly(ca) \/ ScheduleSync(ca) \/ DeleteStart(ca)

Delete(ca) == DeleteClean(ca) \/ DeleteDrop(ca) \/ DeleteTasks(ca)

Run(ca) ==
    ReadElements(ca) \/ Publish(ca) \/ PublishFails(ca) \/ SyncedParent(ca) \/ SuspendedChildren(ca)

RunGlobal ==
    \/ QueueStartTasks \/ UpdatedRrdp
    \/ \E cas \in SUBSET CA : Republished(cas) \/ Renewed(cas)

Next ==
    \/ \E ca \in CA : Operator(ca) \/ Delete(ca) \/ Run(ca)
    \/ \E t \in Task : Pop(t)
    \/ RunGlobal \/ Restart

Spec == Init /\ [][Next]_vars

\* No task runs for ever, delete_ca ends, and every task in the queue becomes due
\* and gets its turn, since those that are planned later come after it.  (As states
\* that recur, where WF would say the same.)  A repository that is tried again and
\* again is reached now and then, and a manifest that is looked at again and again is
\* re-issued before it expires.
Fairness ==
    /\ []<>(running = None)
    /\ \A t \in Task : []<>(~Queued(t) \/ IsRunning(t))
    /\ \A ca \in CA :
        /\ []<>(deleting[ca] = None)
        /\ []<>(Sending(ca) /\ ca \in exists) => []<><<Publish(ca)>>_vars
        /\ []<>(IsRunning(Republish) /\ ca \in content) =>
              []<><<\E cas \in SUBSET CA : ca \in cas /\ Republished(cas)>>_vars

FairSpec == Spec /\ Fairness

-----------------------------------------------------------------------------
(* Properties *)

\* Type correctness: a CA that is not there has no repository and no parent, and
\* CaObjects has objects only for a handle for which it has a repository.
TypeOK ==
    /\ exists \subseteq CA /\ configured \subseteq exists /\ parented \subseteq exists
    /\ leftover \subseteq content /\ content \subseteq target /\ target \subseteq CA
    /\ repo \in [CA -> {"none", "stale", "current"}]
    /\ queue \subseteq Task
    /\ running \in Running \cup {None}
    /\ staged \in BOOLEAN /\ unnoticed \in BOOLEAN
    /\ deleting \in [CA -> {"clean", "drop", "tasks", None}]

Starting == Queued(StartTasks) \/ IsRunning(StartTasks)

\* No change of a CA's objects is forgotten: while its repository differs from
\* CaObjects, a SyncRepo that will read the current objects is queued or runs, or
\* the start tasks are still to come.  Exempt are changes for which the code plans
\* nothing (quiet), and a CA made anew while its predecessor was deleted (raced).
PublicationPlanned ==
    \A ca \in exists : ~InSync(ca) =>
        \/ Queued(SyncRepo(ca))
        \/ IsRunning(SyncRepo(ca)) /\ running.fresh
        \/ Starting \/ ca \in quiet \/ ca \in raced

\* A task that is to recur always has a next time ("it will keep being re-scheduled
\* when it's done", scheduler.rs): Republish and Renew, the contact of each CA with
\* its parent, and the check for inactive children, whatever the outcome of a run
\* and whatever requests or restarts come between.  The last is only planned for
\* CAs that were there at the start.
RecurringPlanned ==
    LET Planned(t) == Queued(t) \/ IsRunning(t) \/ Starting
    IN  /\ Planned(Republish) /\ Planned(Renew)
        /\ \A ca \in (configured \cap parented) \ raced : Planned(SyncParent(ca))
        /\ \A ca \in exists \ (born \cup raced) : Planned(SuspendChildren(ca))

\* Changes that the repository server accepted get to RRDP: an update is queued or
\* runs as long as there are any.  Exempt are those found at a restart, for which
\* nothing is planned until the next publication.
RrdpPlanned == staged => Queued(RrdpUpdate) \/ IsRunning(RrdpUpdate) \/ unnoticed

\* Nothing is left in the repository of a CA that was deleted, unless delete_ca
\* failed to clean it, was interrupted, or was overtaken by a publication.
DeletedIsClean == \A ca \in CA \ exists : repo[ca] = "none" \/ ca \in uncleaned

\* From some time on there are no requests and no restarts.
Settles == <>[][~Restart /\ \A ca \in CA : ~Operator(ca)]_vars

\* The repository of every CA gets to its current objects, again and again, once
\* requests and restarts end; also after a change for which nothing was planned,
\* since the manifest is re-issued in time.  Exempt is a CA with no objects left
\* for which nothing was planned: no manifest of it is re-issued.
PublishedEventually ==
    Settles => \A ca \in CA :
        []<>(InSync(ca) \/ ca \notin exists \/ ca \in (quiet \cup raced) \ content)
=============================================================================
