--------------------------- MODULE SchedulerProofs ---------------------------
(***************************************************************************)
(* For any number of CAs: the four invariants of Scheduler.                *)
(***************************************************************************)
EXTENDS Scheduler, TLAPS

\* A CA with a repository has it in CaObjects, and no other repository has objects.
TargetsKnown ==
    /\ configured \subseteq target
    /\ \A ca \in CA : repo[ca] # "none" => ca \in target

TypeInv == TypeOK /\ TargetsKnown

\* When delete_ca is about to remove the tasks of a CA, it is gone, or was made anew since.
TasksOfGone ==
    \A ca \in CA : deleting[ca] = "tasks" => ca \notin exists \/ ca \in raced

\* StartTasks has listed all CAs that are not new.  For the others, what there is to do is planned already.
ListedOrPlanned ==
    IsRunning(StartTasks) =>
        /\ exists \ born \subseteq running.listed
        /\ \A ca \in exists \ running.listed :
              /\ InSync(ca) \/ Queued(SyncRepo(ca)) \/ ca \in quiet \/ ca \in raced
              /\ ca \in configured \cap parented => Queued(SyncParent(ca)) \/ ca \in raced

\* A SyncRepo that has read the current objects knows whether there are any; for one that
\* has not, there is another one to come.
ReadIsCurrent ==
    \A ca \in CA : IsRunning(SyncRepo(ca)) =>
        /\ running.step = "send" /\ running.fresh => running.some = (ca \in content)
        /\ running.fresh \/ Queued(SyncRepo(ca)) \/ Starting \/ ca \notin exists \/ ca \in quiet \/ ca \in raced

\* Before delete_ca drops a CA, its repository is clean, or it never will be.
CleanBeforeDrop ==
    \A ca \in CA : deleting[ca] = "drop" => repo[ca] = "none" \/ ca \in uncleaned

PlanInv == TasksOfGone /\ ListedOrPlanned /\ ReadIsCurrent /\ PublicationPlanned /\ RecurringPlanned
CleanInv == CleanBeforeDrop /\ DeletedIsClean

-----------------------------------------------------------------------------
(* Tasks *)

\* Tasks are tasks.
LEMMA TaskTypes ==
    /\ \A ca \in CA : SyncRepo(ca) \in Task /\ SyncParent(ca) \in Task /\ SuspendChildren(ca) \in Task
    /\ StartTasks \in Task /\ Republish \in Task /\ Renew \in Task /\ RrdpUpdate \in Task
  <1>1. ASSUME NEW ca \in CA
        PROVE  SyncRepo(ca) \in Task /\ SyncParent(ca) \in Task /\ SuspendChildren(ca) \in Task
    <2>1. TasksFor(ca) \subseteq Task
      BY DEF Task
    <2> QED
      BY <2>1 DEF TasksFor
  <1>2. StartTasks \in Task /\ Republish \in Task /\ Renew \in Task /\ RrdpUpdate \in Task
    BY DEF Task
  <1> QED
    BY <1>1, <1>2

\* SyncRepo is known by its kind and CA.
LEMMA SyncRepoTask ==
    /\ \A ca : SyncRepo(ca).kind = "sync_repo" /\ SyncRepo(ca).ca = ca
    /\ \A t \in Task : t.kind = "sync_repo" => t = SyncRepo(t.ca)
  <1>1. \A ca : SyncRepo(ca).kind = "sync_repo" /\ SyncRepo(ca).ca = ca
    BY DEF SyncRepo
  <1>2. \A t \in Task : t.kind = "sync_repo" => t = SyncRepo(t.ca)
    BY DEF Task, TasksFor, SyncRepo, SyncParent, SuspendChildren, StartTasks, Republish, Renew, RrdpUpdate
  <1> QED
    BY <1>1, <1>2

\* Different tasks are different.
LEMMA TasksDiffer ==
    /\ \A ca, cb : /\ SyncRepo(ca) = SyncRepo(cb) => ca = cb
                   /\ SyncParent(ca) = SyncParent(cb) => ca = cb
                   /\ SuspendChildren(ca) = SuspendChildren(cb) => ca = cb
                   /\ SyncRepo(ca) # SyncParent(cb) /\ SyncRepo(ca) # SuspendChildren(cb)
                   /\ SyncParent(ca) # SuspendChildren(cb)
    /\ \A ca : /\ SyncRepo(ca) # StartTasks /\ SyncRepo(ca) # Republish
               /\ SyncRepo(ca) # Renew /\ SyncRepo(ca) # RrdpUpdate
               /\ SyncParent(ca) # StartTasks /\ SyncParent(ca) # Republish
               /\ SyncParent(ca) # Renew /\ SyncParent(ca) # RrdpUpdate
               /\ SuspendChildren(ca) # StartTasks /\ SuspendChildren(ca) # Republish
               /\ SuspendChildren(ca) # Renew /\ SuspendChildren(ca) # RrdpUpdate
    /\ StartTasks # Republish /\ StartTasks # Renew /\ StartTasks # RrdpUpdate
    /\ Republish # Renew /\ Republish # RrdpUpdate /\ Renew # RrdpUpdate
  <1>1. \A ca : /\ SyncRepo(ca).kind = "sync_repo" /\ SyncRepo(ca).ca = ca
                /\ SyncParent(ca).kind = "sync_parent" /\ SyncParent(ca).ca = ca
                /\ SuspendChildren(ca).kind = "suspend" /\ SuspendChildren(ca).ca = ca
    BY DEF SyncRepo, SyncParent, SuspendChildren
  <1>2. /\ StartTasks.kind = "start" /\ Republish.kind = "republish"
        /\ Renew.kind = "renew" /\ RrdpUpdate.kind = "rrdp"
    BY DEF StartTasks, Republish, Renew, RrdpUpdate
  <1>3. \A ca, cb : /\ SyncRepo(ca) = SyncRepo(cb) => ca = cb
                    /\ SyncParent(ca) = SyncParent(cb) => ca = cb
                    /\ SuspendChildren(ca) = SuspendChildren(cb) => ca = cb
                    /\ SyncRepo(ca) # SyncParent(cb) /\ SyncRepo(ca) # SuspendChildren(cb)
                    /\ SyncParent(ca) # SuspendChildren(cb)
    BY <1>1
  <1>4. \A ca : /\ SyncRepo(ca) # StartTasks /\ SyncRepo(ca) # Republish
                /\ SyncRepo(ca) # Renew /\ SyncRepo(ca) # RrdpUpdate
                /\ SyncParent(ca) # StartTasks /\ SyncParent(ca) # Republish
                /\ SyncParent(ca) # Renew /\ SyncParent(ca) # RrdpUpdate
                /\ SuspendChildren(ca) # StartTasks /\ SuspendChildren(ca) # Republish
                /\ SuspendChildren(ca) # Renew /\ SuspendChildren(ca) # RrdpUpdate
    BY <1>1, <1>2
  <1>5. /\ StartTasks # Republish /\ StartTasks # Renew /\ StartTasks # RrdpUpdate
        /\ Republish # Renew /\ Republish # RrdpUpdate /\ Renew # RrdpUpdate
    BY <1>2
  <1> QED
    BY <1>3, <1>4, <1>5

\* A change of objects only makes what was read of them out of date.
LEMMA RereadFacts ==
    ASSUME TypeOK, NEW cas
    PROVE  /\ Reread(cas) \in Running \cup {None}
           /\ Reread(cas) = None <=> running = None
           /\ running # None =>
                 /\ Reread(cas).task = running.task /\ Reread(cas).step = running.step
                 /\ Reread(cas).some = running.some /\ Reread(cas).listed = running.listed
                 /\ Reread(cas).fresh <=> running.fresh /\ \A ca \in cas : running.task # SyncRepo(ca)
  <1>1. CASE running = None
    BY <1>1 DEF Reread
  <1>2. CASE running # None
    <2>1. running \in Running
      BY <1>2 DEF TypeOK
    <2>2. CASE running.task.kind = "sync_repo" /\ running.task.ca \in cas
      <3>1. Reread(cas) = [task |-> running.task, step |-> running.step, fresh |-> FALSE, some |-> running.some,
                           listed |-> running.listed]
        BY <1>2, <2>2 DEF Reread
      <3>2. /\ Reread(cas) \in Running /\ Reread(cas).fresh = FALSE
            /\ Reread(cas).task = running.task /\ Reread(cas).step = running.step
            /\ Reread(cas).some = running.some /\ Reread(cas).listed = running.listed
        BY <2>1, <3>1 DEF Running
      <3>3. running.task = SyncRepo(running.task.ca)
        BY <2>1, <2>2, SyncRepoTask DEF Running
      <3> QED
        BY <1>2, <2>2, <3>2, <3>3, SchedulerAssumption
    <2>3. CASE ~(running.task.kind = "sync_repo" /\ running.task.ca \in cas)
      <3>1. Reread(cas) = running
        BY <1>2, <2>3 DEF Reread
      <3>2. \A ca \in cas : running.task # SyncRepo(ca)
        BY <2>3, SyncRepoTask
      <3> QED
        BY <1>2, <2>1, <3>1, <3>2
    <2> QED
      BY <2>2, <2>3
  <1> QED
    BY <1>1, <1>2

\* The task that is taken from the queue runs.
LEMMA PopFacts ==
    ASSUME TypeOK, NEW t \in Task, Pop(t)
    PROVE  /\ running = None /\ t \in queue /\ queue' = queue \ {t}
           /\ running' # None /\ running'.task = t /\ running'.fresh /\ running'.step = "start"
           /\ t = StartTasks => running'.listed = exists
  <1>1. /\ running = None /\ t \in queue /\ queue' = queue \ {t}
        /\ running' = [task |-> t, step |-> "start", fresh |-> TRUE, some |-> FALSE,
                       listed |-> IF t = StartTasks THEN exists ELSE {}]
    BY DEF Pop, Queued
  <1>2. running' \in Running
    BY <1>1 DEF Running, TypeOK
  <1>3. running' # None
    BY <1>2, SchedulerAssumption
  <1> QED
    BY <1>1, <1>3

\* The start tasks restart Krill, or plan all that is to be done for the CAs that were listed.
LEMMA StartTasksFacts ==
    ASSUME TypeOK, QueueStartTasks
    PROVE  \/ Restart
           \/ /\ running # None /\ running.task = StartTasks
              /\ running' = None /\ queue \subseteq queue'
              /\ Republish \in queue' /\ Renew \in queue'
              /\ \A ca \in running.listed : /\ SuspendChildren(ca) \in queue'
                                            /\ ca \in parented => SyncParent(ca) \in queue'
                                            /\ InSync(ca) \/ SyncRepo(ca) \in queue' \/ ca \in quiet'
              /\ quiet \subseteq quiet'
              /\ UNCHANGED <<caVars, repoVars, deleting, born, unnoticed, raced, uncleaned>>
  <1>1. CASE ~(running.listed \subseteq exists)
    BY <1>1 DEF QueueStartTasks
  <1>2. CASE running.listed \subseteq exists
    <2> DEFINE parents == {SyncParent(ca) : ca \in running.listed \cap parented}
               repos(many) == IF many THEN {} ELSE {SyncRepo(ca) : ca \in running.listed}
               suspend == {SuspendChildren(ca) : ca \in running.listed}
    <2>1. PICK many \in BOOLEAN :
              /\ running' = None
              /\ queue' = queue \cup (parents \cup repos(many) \cup suspend \cup {Republish, Renew})
              /\ quiet' = quiet \cup {ca \in running.listed : ~InSync(ca) /\ SyncRepo(ca) \notin queue'}
      BY <1>2 DEF QueueStartTasks, Finish, Schedule
    <2>2. \A ca \in running.listed : InSync(ca) \/ SyncRepo(ca) \in queue' \/ ca \in quiet'
      BY <2>1
    <2>3. \A ca \in running.listed : /\ SuspendChildren(ca) \in queue'
                                     /\ ca \in parented => SyncParent(ca) \in queue'
      BY <2>1
    <2>4. queue \subseteq queue' /\ Republish \in queue' /\ Renew \in queue' /\ quiet \subseteq quiet'
      BY <2>1
    <2>5. /\ running # None /\ running.task = StartTasks
          /\ UNCHANGED <<caVars, repoVars, deleting, born, unnoticed, raced, uncleaned>> \/ Restart
      BY <1>2, Zenon DEF QueueStartTasks, IsRunning
    <2> HIDE DEF parents, repos, suspend
    <2> QED
      BY <2>1, <2>2, <2>3, <2>4, <2>5
  <1> QED
    BY <1>1, <1>2

\* Reading the elements leaves a task that waits to send them.
LEMMA ReadRunning ==
    ASSUME NEW ca \in CA, TypeOK, ReadElements(ca)
    PROVE  /\ running' \in Running /\ running' # None
           /\ running'.fresh /\ running'.task = SyncRepo(ca) /\ running'.some = (ca \in content)
           /\ running # None /\ running.task = SyncRepo(ca)
  <1>1. /\ running # None /\ running.task = SyncRepo(ca)
        /\ running' = [task |-> SyncRepo(ca), step |-> "send", fresh |-> TRUE, some |-> ca \in content,
                       listed |-> running.listed]
    BY DEF ReadElements, IsRunning
  <1>2. SyncRepo(ca) \in Task /\ running.listed \in SUBSET CA
    BY <1>1, TaskTypes DEF TypeOK, Running
  <1>3. running' \in Running
    BY <1>1, <1>2 DEF Running
  <1>4. running' # None
    BY <1>3, SchedulerAssumption
  <1> QED
    BY <1>1, <1>3, <1>4

\* Every step keeps the types.
LEMMA TypeStep ==
    TypeInv /\ [Next]_vars => TypeInv'
  <1> SUFFICES ASSUME TypeInv, [Next]_vars PROVE TypeInv'
    OBVIOUS
  <1> USE DEF caVars, repoVars, objVars, history
  <1> USE DEF TypeInv, TypeOK, TargetsKnown
  <1>1. ASSUME NEW ca \in CA, InitCa(ca) PROVE TypeInv'
    BY <1>1 DEF InitCa
  <1>2. ASSUME NEW ca \in CA, AddParent(ca) PROVE TypeInv'
    BY <1>2, TaskTypes DEF AddParent, Schedule
  <1>3. ASSUME NEW ca \in CA, UpdateRepo(ca) PROVE TypeInv'
    BY <1>3, TaskTypes DEF UpdateRepo, Schedule
  <1>4. ASSUME NEW ca \in CA, RemoveParent(ca) PROVE TypeInv'
    BY <1>4, RereadFacts, TaskTypes DEF RemoveParent, Stale
  <1>5. ASSUME NEW ca \in CA, ChangeObjects(ca) PROVE TypeInv'
    BY <1>5, RereadFacts, TaskTypes DEF ChangeObjects, Schedule, Stale, Own
  <1>6. ASSUME NEW ca \in CA, ReissueQuietly(ca) PROVE TypeInv'
    BY <1>6, RereadFacts, TaskTypes DEF ReissueQuietly, Stale
  <1>7. ASSUME NEW ca \in CA, ScheduleSync(ca) PROVE TypeInv'
    BY <1>7, TaskTypes DEF ScheduleSync, Schedule
  <1>8. ASSUME NEW ca \in CA, DeleteStart(ca) PROVE TypeInv'
    BY <1>8 DEF DeleteStart
  <1>9. ASSUME NEW ca \in CA, DeleteClean(ca) PROVE TypeInv'
    BY <1>9, TaskTypes, Zenon DEF DeleteClean, Schedule
  <1>10. ASSUME NEW ca \in CA, DeleteDrop(ca) PROVE TypeInv'
    BY <1>10 DEF DeleteDrop
  <1>11. ASSUME NEW ca \in CA, DeleteTasks(ca) PROVE TypeInv'
    BY <1>11 DEF DeleteTasks
  <1>12. ASSUME NEW ca \in CA, ReadElements(ca) PROVE TypeInv'
    BY <1>12, TaskTypes DEF ReadElements, Running, IsRunning
  <1>13. ASSUME NEW ca \in CA, Publish(ca) PROVE TypeInv'
    BY <1>13, TaskTypes, Zenon DEF Publish, Sending, Finish, Schedule, Sent
  <1>14. ASSUME NEW ca \in CA, PublishFails(ca) PROVE TypeInv'
    BY <1>14, TaskTypes DEF PublishFails, Sending, Finish, Schedule
  <1>15. ASSUME NEW ca \in CA, SyncedParent(ca) PROVE TypeInv'
    BY <1>15, TaskTypes DEF SyncedParent, Finish, Schedule, Stale
  <1>16. ASSUME NEW ca \in CA, SuspendedChildren(ca) PROVE TypeInv'
    BY <1>16, TaskTypes DEF SuspendedChildren, Finish, Schedule, Stale
  <1>17. ASSUME NEW t \in Task, Pop(t) PROVE TypeInv'
    BY <1>17, TaskTypes DEF Pop, Queued, Running
  <1>18. ASSUME QueueStartTasks PROVE TypeInv'
    BY <1>18, TaskTypes DEF QueueStartTasks, IsRunning, Restart, Finish, Schedule, Running
  <1>19. ASSUME UpdatedRrdp PROVE TypeInv'
    BY <1>19, TaskTypes, Zenon DEF UpdatedRrdp, Finish, Schedule
  <1>20. ASSUME NEW cas \in SUBSET CA, Republished(cas) PROVE TypeInv'
    BY <1>20, TaskTypes DEF Republished, Finish, Schedule, Stale
  <1>21. ASSUME NEW cas \in SUBSET CA, Renewed(cas) PROVE TypeInv'
    BY <1>21, TaskTypes DEF Renewed, Finish, Schedule, Stale
  <1>22. ASSUME Restart PROVE TypeInv'
    BY <1>22, TaskTypes DEF Restart
  <1>23. ASSUME UNCHANGED vars PROVE TypeInv'
    BY <1>23, Zenon DEF vars, caVars, repoVars, objVars, history
  <1> QED
    BY <1>1, <1>2, <1>3, <1>4, <1>5, <1>6, <1>7, <1>8, <1>9, <1>10, <1>11, <1>12,
       <1>13, <1>14, <1>15, <1>16, <1>17, <1>18, <1>19, <1>20, <1>21, <1>22, <1>23, Zenon
       DEF Next, Operator, Delete, Run, RunGlobal

\* An RRDP update stays planned.
LEMMA RrdpStep ==
    TypeInv /\ RrdpPlanned /\ [Next]_vars => RrdpPlanned'
  <1> SUFFICES ASSUME TypeInv, RrdpPlanned, [Next]_vars PROVE RrdpPlanned'
    OBVIOUS
  <1> USE DEF caVars, repoVars, objVars, history
  <1> USE DEF TypeInv, RrdpPlanned, Queued, IsRunning
  <1>1. ASSUME NEW ca \in CA, InitCa(ca) PROVE RrdpPlanned'
    BY <1>1 DEF InitCa
  <1>2. ASSUME NEW ca \in CA, AddParent(ca) PROVE RrdpPlanned'
    BY <1>2 DEF AddParent, Schedule
  <1>3. ASSUME NEW ca \in CA, UpdateRepo(ca) PROVE RrdpPlanned'
    BY <1>3 DEF UpdateRepo, Schedule
  <1>4. ASSUME NEW ca \in CA, RemoveParent(ca) PROVE RrdpPlanned'
    BY <1>4, RereadFacts, TasksDiffer DEF RemoveParent
  <1>5. ASSUME NEW ca \in CA, ChangeObjects(ca) PROVE RrdpPlanned'
    BY <1>5, RereadFacts, TasksDiffer DEF ChangeObjects, Schedule
  <1>6. ASSUME NEW ca \in CA, ReissueQuietly(ca) PROVE RrdpPlanned'
    BY <1>6, RereadFacts, TasksDiffer DEF ReissueQuietly
  <1>7. ASSUME NEW ca \in CA, ScheduleSync(ca) PROVE RrdpPlanned'
    BY <1>7 DEF ScheduleSync, Schedule
  <1>8. ASSUME NEW ca \in CA, DeleteStart(ca) PROVE RrdpPlanned'
    BY <1>8 DEF DeleteStart
  <1>9. ASSUME NEW ca \in CA, DeleteClean(ca) PROVE RrdpPlanned'
    BY <1>9, Zenon DEF DeleteClean, Schedule
  <1>10. ASSUME NEW ca \in CA, DeleteDrop(ca) PROVE RrdpPlanned'
    BY <1>10 DEF DeleteDrop
  <1>11. ASSUME NEW ca \in CA, DeleteTasks(ca) PROVE RrdpPlanned'
    BY <1>11, TasksDiffer DEF DeleteTasks, TasksFor
  <1>12. ASSUME NEW ca \in CA, ReadElements(ca) PROVE RrdpPlanned'
    BY <1>12, TasksDiffer DEF ReadElements
  <1>13. ASSUME NEW ca \in CA, Publish(ca) PROVE RrdpPlanned'
    BY <1>13, TasksDiffer, Zenon DEF Publish, Sending, Finish, Schedule, Sent
  <1>14. ASSUME NEW ca \in CA, PublishFails(ca) PROVE RrdpPlanned'
    BY <1>14 DEF PublishFails, Sending, Finish, Schedule
  <1>15. ASSUME NEW ca \in CA, SyncedParent(ca) PROVE RrdpPlanned'
    BY <1>15 DEF SyncedParent, Finish, Schedule, Stale
  <1>16. ASSUME NEW ca \in CA, SuspendedChildren(ca) PROVE RrdpPlanned'
    BY <1>16 DEF SuspendedChildren, Finish, Schedule, Stale
  <1>17. ASSUME NEW t \in Task, Pop(t) PROVE RrdpPlanned'
    BY <1>17, TasksDiffer, PopFacts DEF Pop
  <1>18. ASSUME QueueStartTasks PROVE RrdpPlanned'
    BY <1>18, TasksDiffer, StartTasksFacts, Zenon DEF Restart
  <1>19. ASSUME UpdatedRrdp PROVE RrdpPlanned'
    BY <1>19, Zenon DEF UpdatedRrdp, Finish, Schedule
  <1>20. ASSUME NEW cas \in SUBSET CA, Republished(cas) PROVE RrdpPlanned'
    BY <1>20 DEF Republished, Finish, Schedule, Stale
  <1>21. ASSUME NEW cas \in SUBSET CA, Renewed(cas) PROVE RrdpPlanned'
    BY <1>21 DEF Renewed, Finish, Schedule, Stale
  <1>22. ASSUME Restart PROVE RrdpPlanned'
    BY <1>22, Zenon DEF Restart
  <1>23. ASSUME UNCHANGED vars PROVE RrdpPlanned'
    BY <1>23, Zenon DEF vars, caVars, repoVars, objVars, history
  <1> QED
    BY <1>1, <1>2, <1>3, <1>4, <1>5, <1>6, <1>7, <1>8, <1>9, <1>10, <1>11, <1>12,
       <1>13, <1>14, <1>15, <1>16, <1>17, <1>18, <1>19, <1>20, <1>21, <1>22, <1>23, Zenon
       DEF Next, Operator, Delete, Run, RunGlobal

\* What is left in the repository of a CA is accounted for when it is dropped.
LEMMA CleanStep ==
    TypeInv /\ CleanInv /\ [Next]_vars => CleanInv'
  <1> SUFFICES ASSUME TypeInv, CleanInv, [Next]_vars PROVE CleanInv'
    OBVIOUS
  <1> USE DEF caVars, repoVars, objVars, history
  <1> USE DEF TypeInv, TypeOK, CleanInv, CleanBeforeDrop, DeletedIsClean
  <1>1. ASSUME NEW ca \in CA, InitCa(ca) PROVE CleanInv'
    BY <1>1 DEF InitCa
  <1>2. ASSUME NEW ca \in CA, AddParent(ca) PROVE CleanInv'
    BY <1>2 DEF AddParent, Schedule
  <1>3. ASSUME NEW ca \in CA, UpdateRepo(ca) PROVE CleanInv'
    BY <1>3 DEF UpdateRepo, Schedule
  <1>4. ASSUME NEW ca \in CA, RemoveParent(ca) PROVE CleanInv'
    BY <1>4 DEF RemoveParent, Stale
  <1>5. ASSUME NEW ca \in CA, ChangeObjects(ca) PROVE CleanInv'
    BY <1>5 DEF ChangeObjects, Schedule, Stale
  <1>6. ASSUME NEW ca \in CA, ReissueQuietly(ca) PROVE CleanInv'
    BY <1>6 DEF ReissueQuietly, Stale
  <1>7. ASSUME NEW ca \in CA, ScheduleSync(ca) PROVE CleanInv'
    BY <1>7 DEF ScheduleSync, Schedule
  <1>8. ASSUME NEW ca \in CA, DeleteStart(ca) PROVE CleanInv'
    BY <1>8, SchedulerAssumption DEF DeleteStart, TargetsKnown
  <1>9. ASSUME NEW ca \in CA, DeleteClean(ca) PROVE CleanInv'
    BY <1>9 DEF DeleteClean, Schedule
  <1>10. ASSUME NEW ca \in CA, DeleteDrop(ca) PROVE CleanInv'
    BY <1>10 DEF DeleteDrop
  <1>11. ASSUME NEW ca \in CA, DeleteTasks(ca) PROVE CleanInv'
    BY <1>11, SchedulerAssumption DEF DeleteTasks
  <1>12. ASSUME NEW ca \in CA, ReadElements(ca) PROVE CleanInv'
    BY <1>12 DEF ReadElements
  <1>13. ASSUME NEW ca \in CA, Publish(ca) PROVE CleanInv'
    BY <1>13, SchedulerAssumption DEF Publish, Sending, Finish, Schedule, Sent
  <1>14. ASSUME NEW ca \in CA, PublishFails(ca) PROVE CleanInv'
    BY <1>14 DEF PublishFails, Sending, Finish, Schedule
  <1>15. ASSUME NEW ca \in CA, SyncedParent(ca) PROVE CleanInv'
    BY <1>15 DEF SyncedParent, Finish, Schedule, Stale
  <1>16. ASSUME NEW ca \in CA, SuspendedChildren(ca) PROVE CleanInv'
    BY <1>16 DEF SuspendedChildren, Finish, Schedule, Stale
  <1>17. ASSUME NEW t \in Task, Pop(t) PROVE CleanInv'
    BY <1>17 DEF Pop, Queued
  <1>18. ASSUME QueueStartTasks PROVE CleanInv'
    BY <1>18, SchedulerAssumption DEF QueueStartTasks, Restart, Finish
  <1>19. ASSUME UpdatedRrdp PROVE CleanInv'
    BY <1>19 DEF UpdatedRrdp, Finish, Schedule
  <1>20. ASSUME NEW cas \in SUBSET CA, Republished(cas) PROVE CleanInv'
    BY <1>20 DEF Republished, Finish, Schedule, Stale
  <1>21. ASSUME NEW cas \in SUBSET CA, Renewed(cas) PROVE CleanInv'
    BY <1>21 DEF Renewed, Finish, Schedule, Stale
  <1>22. ASSUME Restart PROVE CleanInv'
    BY <1>22 DEF Restart
  <1>23. ASSUME UNCHANGED vars PROVE CleanInv'
    BY <1>23, Zenon DEF vars, caVars, repoVars, objVars, history
  <1> QED
    BY <1>1, <1>2, <1>3, <1>4, <1>5, <1>6, <1>7, <1>8, <1>9, <1>10, <1>11, <1>12,
       <1>13, <1>14, <1>15, <1>16, <1>17, <1>18, <1>19, <1>20, <1>21, <1>22, <1>23, Zenon
       DEF Next, Operator, Delete, Run, RunGlobal

\* A CA that is made anew during delete_ca is told from the one that is deleted.
LEMMA GoneStep ==
    TypeInv /\ TasksOfGone /\ [Next]_vars => TasksOfGone'
  <1> SUFFICES ASSUME TypeInv, TasksOfGone, [Next]_vars PROVE TasksOfGone'
    OBVIOUS
  <1> USE DEF caVars, repoVars, objVars, history
  <1> USE DEF TypeInv, TypeOK, TasksOfGone
  <1>1. ASSUME NEW ca \in CA, InitCa(ca) PROVE TasksOfGone'
    BY <1>1, SchedulerAssumption DEF InitCa
  <1>2. ASSUME NEW ca \in CA, AddParent(ca) PROVE TasksOfGone'
    BY <1>2 DEF AddParent, Schedule
  <1>3. ASSUME NEW ca \in CA, UpdateRepo(ca) PROVE TasksOfGone'
    BY <1>3 DEF UpdateRepo, Schedule
  <1>4. ASSUME NEW ca \in CA, RemoveParent(ca) PROVE TasksOfGone'
    BY <1>4 DEF RemoveParent, Stale
  <1>5. ASSUME NEW ca \in CA, ChangeObjects(ca) PROVE TasksOfGone'
    BY <1>5 DEF ChangeObjects, Schedule, Stale
  <1>6. ASSUME NEW ca \in CA, ReissueQuietly(ca) PROVE TasksOfGone'
    BY <1>6 DEF ReissueQuietly, Stale
  <1>7. ASSUME NEW ca \in CA, ScheduleSync(ca) PROVE TasksOfGone'
    BY <1>7 DEF ScheduleSync, Schedule
  <1>8. ASSUME NEW ca \in CA, DeleteStart(ca) PROVE TasksOfGone'
    BY <1>8 DEF DeleteStart
  <1>9. ASSUME NEW ca \in CA, DeleteClean(ca) PROVE TasksOfGone'
    BY <1>9 DEF DeleteClean, Schedule
  <1>10. ASSUME NEW ca \in CA, DeleteDrop(ca) PROVE TasksOfGone'
    BY <1>10 DEF DeleteDrop
  <1>11. ASSUME NEW ca \in CA, DeleteTasks(ca) PROVE TasksOfGone'
    BY <1>11 DEF DeleteTasks
  <1>12. ASSUME NEW ca \in CA, ReadElements(ca) PROVE TasksOfGone'
    BY <1>12 DEF ReadElements
  <1>13. ASSUME NEW ca \in CA, Publish(ca) PROVE TasksOfGone'
    BY <1>13 DEF Publish, Sending, Finish, Schedule, Sent
  <1>14. ASSUME NEW ca \in CA, PublishFails(ca) PROVE TasksOfGone'
    BY <1>14 DEF PublishFails, Sending, Finish, Schedule
  <1>15. ASSUME NEW ca \in CA, SyncedParent(ca) PROVE TasksOfGone'
    BY <1>15 DEF SyncedParent, Finish, Schedule, Stale
  <1>16. ASSUME NEW ca \in CA, SuspendedChildren(ca) PROVE TasksOfGone'
    BY <1>16 DEF SuspendedChildren, Finish, Schedule, Stale
  <1>17. ASSUME NEW t \in Task, Pop(t) PROVE TasksOfGone'
    BY <1>17 DEF Pop, Queued
  <1>18. ASSUME QueueStartTasks PROVE TasksOfGone'
    BY <1>18, SchedulerAssumption DEF QueueStartTasks, Restart, Finish
  <1>19. ASSUME UpdatedRrdp PROVE TasksOfGone'
    BY <1>19 DEF UpdatedRrdp, Finish, Schedule
  <1>20. ASSUME NEW cas \in SUBSET CA, Republished(cas) PROVE TasksOfGone'
    BY <1>20 DEF Republished, Finish, Schedule, Stale
  <1>21. ASSUME NEW cas \in SUBSET CA, Renewed(cas) PROVE TasksOfGone'
    BY <1>21 DEF Renewed, Finish, Schedule, Stale
  <1>22. ASSUME Restart PROVE TasksOfGone'
    BY <1>22, SchedulerAssumption DEF Restart
  <1>23. ASSUME UNCHANGED vars PROVE TasksOfGone'
    BY <1>23, Zenon DEF vars, caVars, repoVars, objVars, history
  <1> QED
    BY <1>1, <1>2, <1>3, <1>4, <1>5, <1>6, <1>7, <1>8, <1>9, <1>10, <1>11, <1>12,
       <1>13, <1>14, <1>15, <1>16, <1>17, <1>18, <1>19, <1>20, <1>21, <1>22, <1>23, Zenon
       DEF Next, Operator, Delete, Run, RunGlobal

\* Tasks that recur stay planned.
LEMMA RecurringStep ==
    TypeInv /\ TasksOfGone /\ ListedOrPlanned /\ RecurringPlanned /\ [Next]_vars => RecurringPlanned'
  <1> SUFFICES ASSUME TypeInv, TasksOfGone, ListedOrPlanned, RecurringPlanned, [Next]_vars PROVE RecurringPlanned'
    OBVIOUS
  <1> USE DEF caVars, repoVars, objVars, history
  <1> USE DEF TypeInv, RecurringPlanned, Queued, IsRunning, Starting
  <1>1. ASSUME NEW ca \in CA, InitCa(ca) PROVE RecurringPlanned'
    BY <1>1 DEF InitCa
  <1>2. ASSUME NEW ca \in CA, AddParent(ca) PROVE RecurringPlanned'
    BY <1>2 DEF AddParent, Schedule
  <1>3. ASSUME NEW ca \in CA, UpdateRepo(ca) PROVE RecurringPlanned'
    BY <1>3, Zenon DEF UpdateRepo, Schedule
  <1>4. ASSUME NEW ca \in CA, RemoveParent(ca) PROVE RecurringPlanned'
    BY <1>4, RereadFacts, TasksDiffer DEF RemoveParent
  <1>5. ASSUME NEW ca \in CA, ChangeObjects(ca) PROVE RecurringPlanned'
    BY <1>5, RereadFacts, Zenon DEF ChangeObjects, Schedule
  <1>6. ASSUME NEW ca \in CA, ReissueQuietly(ca) PROVE RecurringPlanned'
    BY <1>6, RereadFacts DEF ReissueQuietly
  <1>7. ASSUME NEW ca \in CA, ScheduleSync(ca) PROVE RecurringPlanned'
    BY <1>7 DEF ScheduleSync, Schedule
  <1>8. ASSUME NEW ca \in CA, DeleteStart(ca) PROVE RecurringPlanned'
    BY <1>8 DEF DeleteStart
  <1>9. ASSUME NEW ca \in CA, DeleteClean(ca) PROVE RecurringPlanned'
    BY <1>9 DEF DeleteClean, Schedule
  <1>10. ASSUME NEW ca \in CA, DeleteDrop(ca) PROVE RecurringPlanned'
    BY <1>10, Zenon DEF DeleteDrop
  <1>11. ASSUME NEW ca \in CA, DeleteTasks(ca) PROVE RecurringPlanned'
    BY <1>11, TasksDiffer DEF DeleteTasks, TasksFor, TasksOfGone, TypeOK
  <1>12. ASSUME NEW ca \in CA, ReadElements(ca) PROVE RecurringPlanned'
    BY <1>12, TasksDiffer, Zenon DEF ReadElements
  <1>13. ASSUME NEW ca \in CA, Publish(ca) PROVE RecurringPlanned'
    BY <1>13, TasksDiffer DEF Publish, Sending, Finish, Schedule, Sent
  <1>14. ASSUME NEW ca \in CA, PublishFails(ca) PROVE RecurringPlanned'
    BY <1>14 DEF PublishFails, Sending, Finish, Schedule
  <1>15. ASSUME NEW ca \in CA, SyncedParent(ca) PROVE RecurringPlanned'
    BY <1>15 DEF SyncedParent, Finish, Schedule, Stale
  <1>16. ASSUME NEW ca \in CA, SuspendedChildren(ca) PROVE RecurringPlanned'
    BY <1>16 DEF SuspendedChildren, Finish, Schedule, Stale
  <1>17. ASSUME NEW t \in Task, Pop(t) PROVE RecurringPlanned'
    BY <1>17, TasksDiffer, PopFacts, Zenon DEF Pop
  <1>18. ASSUME QueueStartTasks PROVE RecurringPlanned'
    BY <1>18, TasksDiffer, StartTasksFacts DEF Restart, ListedOrPlanned, TypeOK
  <1>19. ASSUME UpdatedRrdp PROVE RecurringPlanned'
    BY <1>19, TasksDiffer DEF UpdatedRrdp, Finish, Schedule
  <1>20. ASSUME NEW cas \in SUBSET CA, Republished(cas) PROVE RecurringPlanned'
    BY <1>20 DEF Republished, Finish, Schedule, Stale
  <1>21. ASSUME NEW cas \in SUBSET CA, Renewed(cas) PROVE RecurringPlanned'
    BY <1>21 DEF Renewed, Finish, Schedule, Stale
  <1>22. ASSUME Restart PROVE RecurringPlanned'
    BY <1>22 DEF Restart
  <1>23. ASSUME UNCHANGED vars PROVE RecurringPlanned'
    BY <1>23, Zenon DEF vars, caVars, repoVars, objVars, history
  <1> QED
    BY <1>1, <1>2, <1>3, <1>4, <1>5, <1>6, <1>7, <1>8, <1>9, <1>10, <1>11, <1>12,
       <1>13, <1>14, <1>15, <1>16, <1>17, <1>18, <1>19, <1>20, <1>21, <1>22, <1>23, Zenon
       DEF Next, Operator, Delete, Run, RunGlobal

\* What StartTasks has not listed is planned otherwise.
LEMMA ListedStep ==
    TypeInv /\ TasksOfGone /\ ListedOrPlanned /\ [Next]_vars => ListedOrPlanned'
  <1> SUFFICES ASSUME TypeInv, TasksOfGone, ListedOrPlanned, [Next]_vars PROVE ListedOrPlanned'
    OBVIOUS
  <1> USE DEF caVars, repoVars, objVars, history
  <1> USE DEF TypeInv, Queued, IsRunning, Starting, InSync
  <1>1. ASSUME NEW ca \in CA, InitCa(ca) PROVE ListedOrPlanned'
    BY <1>1, Zenon DEF InitCa, ListedOrPlanned, TypeOK
  <1>2. ASSUME NEW ca \in CA, AddParent(ca) PROVE ListedOrPlanned'
    BY <1>2 DEF AddParent, Schedule, ListedOrPlanned
  <1>3. ASSUME NEW ca \in CA, UpdateRepo(ca) PROVE ListedOrPlanned'
    BY <1>3, Zenon DEF UpdateRepo, Schedule, ListedOrPlanned
  <1>4. ASSUME NEW ca \in CA, RemoveParent(ca) PROVE ListedOrPlanned'
    BY <1>4, RereadFacts, TasksDiffer DEF RemoveParent, Stale, ListedOrPlanned, TypeOK
  <1>5. ASSUME NEW ca \in CA, ChangeObjects(ca) PROVE ListedOrPlanned'
    BY <1>5, RereadFacts, Zenon DEF ChangeObjects, Schedule, Stale, Own, ListedOrPlanned, TypeOK
  <1>6. ASSUME NEW ca \in CA, ReissueQuietly(ca) PROVE ListedOrPlanned'
    BY <1>6, RereadFacts DEF ReissueQuietly, Stale, ListedOrPlanned, TypeOK
  <1>7. ASSUME NEW ca \in CA, ScheduleSync(ca) PROVE ListedOrPlanned'
    BY <1>7, Zenon DEF ScheduleSync, Schedule, ListedOrPlanned
  <1>8. ASSUME NEW ca \in CA, DeleteStart(ca) PROVE ListedOrPlanned'
    BY <1>8, Zenon DEF DeleteStart, ListedOrPlanned
  <1>9. ASSUME NEW ca \in CA, DeleteClean(ca) PROVE ListedOrPlanned'
    BY <1>9, Zenon DEF DeleteClean, Schedule, ListedOrPlanned, TypeOK
  <1>10. ASSUME NEW ca \in CA, DeleteDrop(ca) PROVE ListedOrPlanned'
    BY <1>10, Zenon DEF DeleteDrop, ListedOrPlanned
  <1>11. ASSUME NEW ca \in CA, DeleteTasks(ca) PROVE ListedOrPlanned'
    BY <1>11, TasksDiffer DEF DeleteTasks, TasksFor, TasksOfGone, ListedOrPlanned
  <1>12. ASSUME NEW ca \in CA, ReadElements(ca) PROVE ListedOrPlanned'
    BY <1>12 DEF ReadElements, ListedOrPlanned
  <1>13. ASSUME NEW ca \in CA, Publish(ca) PROVE ListedOrPlanned'
    BY <1>13 DEF Publish, Sending, Finish, Schedule, Sent, TargetsKnown, ReadIsCurrent, ListedOrPlanned
  <1>14. ASSUME NEW ca \in CA, PublishFails(ca) PROVE ListedOrPlanned'
    BY <1>14 DEF PublishFails, Sending, Finish, Schedule, ListedOrPlanned
  <1>15. ASSUME NEW ca \in CA, SyncedParent(ca) PROVE ListedOrPlanned'
    BY <1>15 DEF SyncedParent, Finish, Schedule, Stale, ListedOrPlanned
  <1>16. ASSUME NEW ca \in CA, SuspendedChildren(ca) PROVE ListedOrPlanned'
    BY <1>16 DEF SuspendedChildren, Finish, Schedule, Stale, ListedOrPlanned
  <1>17. ASSUME NEW t \in Task, Pop(t) PROVE ListedOrPlanned'
    BY <1>17, PopFacts DEF Pop, Queued, ListedOrPlanned
  <1>18. ASSUME QueueStartTasks PROVE ListedOrPlanned'
    BY <1>18, StartTasksFacts DEF Restart, ListedOrPlanned
  <1>19. ASSUME UpdatedRrdp PROVE ListedOrPlanned'
    BY <1>19 DEF UpdatedRrdp, Finish, Schedule, ListedOrPlanned
  <1>20. ASSUME NEW cas \in SUBSET CA, Republished(cas) PROVE ListedOrPlanned'
    BY <1>20 DEF Republished, Finish, Schedule, Stale, ListedOrPlanned
  <1>21. ASSUME NEW cas \in SUBSET CA, Renewed(cas) PROVE ListedOrPlanned'
    BY <1>21 DEF Renewed, Finish, Schedule, Stale, ListedOrPlanned
  <1>22. ASSUME Restart PROVE ListedOrPlanned'
    BY <1>22 DEF Restart, ListedOrPlanned
  <1>23. ASSUME UNCHANGED vars PROVE ListedOrPlanned'
    BY <1>23, Zenon DEF vars, ListedOrPlanned
  <1> QED
    BY <1>1, <1>2, <1>3, <1>4, <1>5, <1>6, <1>7, <1>8, <1>9, <1>10, <1>11, <1>12,
       <1>13, <1>14, <1>15, <1>16, <1>17, <1>18, <1>19, <1>20, <1>21, <1>22, <1>23, Zenon
       DEF Next, Operator, Delete, Run, RunGlobal

\* What was read is current, or is to be read again.
LEMMA ReadStep ==
    TypeInv /\ TasksOfGone /\ ReadIsCurrent /\ [Next]_vars => ReadIsCurrent'
  <1> SUFFICES ASSUME TypeInv, TasksOfGone, ReadIsCurrent, [Next]_vars PROVE ReadIsCurrent'
    OBVIOUS
  <1> USE DEF caVars, repoVars, objVars, history
  <1> USE DEF TypeInv, Queued, IsRunning, Starting, InSync
  <1>1. ASSUME NEW ca \in CA, InitCa(ca) PROVE ReadIsCurrent'
    BY <1>1 DEF InitCa, ReadIsCurrent
  <1>2. ASSUME NEW ca \in CA, AddParent(ca) PROVE ReadIsCurrent'
    BY <1>2 DEF AddParent, Schedule, ReadIsCurrent
  <1>3. ASSUME NEW ca \in CA, UpdateRepo(ca) PROVE ReadIsCurrent'
    BY <1>3 DEF UpdateRepo, Schedule, ReadIsCurrent
  <1>4. ASSUME NEW ca \in CA, RemoveParent(ca) PROVE ReadIsCurrent'
    <2> DEFINE gone == {ca} \ leftover
    <2>1. running' = Reread(gone) /\ queue' = (queue \ {SyncParent(ca)}) \cup {SyncRepo(ca)}
      BY <1>4 DEF RemoveParent
    <2>2. /\ content' = content \ gone
          /\ UNCHANGED <<exists, quiet, raced>>
      BY <1>4 DEF RemoveParent
    <2>3. SUFFICES ASSUME NEW c \in CA, running' # None, running'.task = SyncRepo(c)
                   PROVE  /\ running'.step = "send" /\ running'.fresh => running'.some = (c \in content')
                          /\ \/ running'.fresh \/ SyncRepo(c) \in queue' \/ Starting'
                             \/ c \notin exists' \/ c \in quiet' \/ c \in raced'
      BY DEF ReadIsCurrent
    <2>4. /\ running # None /\ running.task = SyncRepo(c)
          /\ running'.step = running.step /\ running'.some = running.some
          /\ running'.fresh <=> running.fresh /\ \A d \in gone : running.task # SyncRepo(d)
      BY <2>1, <2>3, RereadFacts
    <2>5. CASE c = ca
      <3>1. SyncRepo(c) \in queue'
        BY <2>1, <2>5
      <3>2. running'.fresh => ca \in leftover
        BY <2>4, <2>5
      <3>3. ca \in leftover => content' = content
        BY <2>2
      <3> QED
        BY <2>4, <3>1, <3>2, <3>3 DEF ReadIsCurrent
    <2>6. CASE c # ca
      <3>1. (c \in content') <=> (c \in content)
        BY <2>2, <2>6, Zenon
      <3>2. running'.fresh <=> running.fresh
        BY <2>4, <2>6, TasksDiffer
      <3>3. \A t \in Task : t # SyncParent(ca) => (t \in queue => t \in queue')
        BY <2>1, Zenon
      <3>4. (SyncRepo(c) \in queue => SyncRepo(c) \in queue') /\ (Starting => Starting')
        BY <2>1, <2>4, <3>3, TasksDiffer
      <3>5. running.step = "send" /\ running.fresh => running.some = (c \in content)
        BY <2>4 DEF ReadIsCurrent
      <3>6. \/ running.fresh \/ SyncRepo(c) \in queue \/ Starting
            \/ c \notin exists \/ c \in quiet \/ c \in raced
        BY <2>4 DEF ReadIsCurrent
      <3>7. running'.step = "send" /\ running'.fresh => running'.some = (c \in content')
        BY <2>4, <3>1, <3>2, <3>5
      <3> HIDE DEF Starting
      <3> QED
        BY <2>2, <3>2, <3>4, <3>6, <3>7
    <2> QED
      BY <2>5, <2>6
  <1>5. ASSUME NEW ca \in CA, ChangeObjects(ca) PROVE ReadIsCurrent'
    BY <1>5, RereadFacts DEF ChangeObjects, Schedule, Stale, Own, ReadIsCurrent
  <1>6. ASSUME NEW ca \in CA, ReissueQuietly(ca) PROVE ReadIsCurrent'
    <2>1. /\ running' = Reread({ca}) /\ queue' = queue /\ content' = content /\ exists' = exists
          /\ raced' = raced /\ quiet' = quiet \cup {ca}
      BY <1>6 DEF ReissueQuietly
    <2>2. running' = None <=> running = None
      BY <2>1, RereadFacts
    <2>3. running # None =>
              /\ running'.task = running.task /\ running'.step = running.step /\ running'.some = running.some
              /\ running'.fresh <=> running.fresh /\ running.task # SyncRepo(ca)
      BY <2>1, RereadFacts
    <2>4. SUFFICES ASSUME NEW c \in CA, running' # None, running'.task = SyncRepo(c)
                   PROVE  /\ running'.step = "send" /\ running'.fresh => running'.some = (c \in content')
                          /\ \/ running'.fresh \/ SyncRepo(c) \in queue' \/ Starting'
                             \/ c \notin exists' \/ c \in quiet' \/ c \in raced'
      BY DEF ReadIsCurrent
    <2>5. running # None /\ running.task = SyncRepo(c)
      BY <2>2, <2>3, <2>4
    <2>6. running.step = "send" /\ running.fresh => running.some = (c \in content)
      BY <2>5 DEF ReadIsCurrent
    <2>7. \/ running.fresh \/ SyncRepo(c) \in queue \/ Starting
          \/ c \notin exists \/ c \in quiet \/ c \in raced
      BY <2>5 DEF ReadIsCurrent
    <2>8. Starting => Starting'
      BY <2>1, <2>2, <2>3
    <2>9. running'.step = "send" /\ running'.fresh => running'.some = (c \in content')
      BY <2>1, <2>3, <2>5, <2>6
    <2>10. ~running'.fresh => ~running.fresh \/ c = ca
      BY <2>3, <2>5, TasksDiffer
    <2> HIDE DEF Starting
    <2> QED
      BY <2>1, <2>7, <2>8, <2>9, <2>10
  <1>7. ASSUME NEW ca \in CA, ScheduleSync(ca) PROVE ReadIsCurrent'
    BY <1>7 DEF ScheduleSync, Schedule, ReadIsCurrent
  <1>8. ASSUME NEW ca \in CA, DeleteStart(ca) PROVE ReadIsCurrent'
    BY <1>8 DEF DeleteStart, ReadIsCurrent
  <1>9. ASSUME NEW ca \in CA, DeleteClean(ca) PROVE ReadIsCurrent'
    BY <1>9 DEF DeleteClean, Schedule, ReadIsCurrent
  <1>10. ASSUME NEW ca \in CA, DeleteDrop(ca) PROVE ReadIsCurrent'
    BY <1>10, Zenon DEF DeleteDrop, ReadIsCurrent
  <1>11. ASSUME NEW ca \in CA, DeleteTasks(ca) PROVE ReadIsCurrent'
    BY <1>11, TasksDiffer, Zenon DEF DeleteTasks, TasksFor, TasksOfGone, ReadIsCurrent
  <1>12. ASSUME NEW ca \in CA, ReadElements(ca) PROVE ReadIsCurrent'
    BY <1>12, TasksDiffer, Zenon DEF ReadElements, ReadIsCurrent
  <1>13. ASSUME NEW ca \in CA, Publish(ca) PROVE ReadIsCurrent'
    BY <1>13 DEF Publish, Sending, Finish, Schedule, Sent, TargetsKnown, ReadIsCurrent, ReadIsCurrent
  <1>14. ASSUME NEW ca \in CA, PublishFails(ca) PROVE ReadIsCurrent'
    BY <1>14 DEF PublishFails, Sending, Finish, Schedule, ReadIsCurrent
  <1>15. ASSUME NEW ca \in CA, SyncedParent(ca) PROVE ReadIsCurrent'
    BY <1>15 DEF SyncedParent, Finish, Schedule, Stale, ReadIsCurrent
  <1>16. ASSUME NEW ca \in CA, SuspendedChildren(ca) PROVE ReadIsCurrent'
    BY <1>16, Zenon DEF SuspendedChildren, Finish, Schedule, Stale, ReadIsCurrent
  <1>17. ASSUME NEW t \in Task, Pop(t) PROVE ReadIsCurrent'
    BY <1>17, PopFacts DEF Pop, Queued, ReadIsCurrent
  <1>18. ASSUME QueueStartTasks PROVE ReadIsCurrent'
    BY <1>18, StartTasksFacts DEF Restart, ListedOrPlanned, ReadIsCurrent
  <1>19. ASSUME UpdatedRrdp PROVE ReadIsCurrent'
    BY <1>19 DEF UpdatedRrdp, Finish, Schedule, ReadIsCurrent
  <1>20. ASSUME NEW cas \in SUBSET CA, Republished(cas) PROVE ReadIsCurrent'
    BY <1>20 DEF Republished, Finish, Schedule, Stale, ReadIsCurrent
  <1>21. ASSUME NEW cas \in SUBSET CA, Renewed(cas) PROVE ReadIsCurrent'
    BY <1>21 DEF Renewed, Finish, Schedule, Stale, ReadIsCurrent
  <1>22. ASSUME Restart PROVE ReadIsCurrent'
    BY <1>22 DEF Restart, ReadIsCurrent
  <1>23. ASSUME UNCHANGED vars PROVE ReadIsCurrent'
    BY <1>23, Zenon DEF vars, ReadIsCurrent
  <1> QED
    BY <1>1, <1>2, <1>3, <1>4, <1>5, <1>6, <1>7, <1>8, <1>9, <1>10, <1>11, <1>12,
       <1>13, <1>14, <1>15, <1>16, <1>17, <1>18, <1>19, <1>20, <1>21, <1>22, <1>23, Zenon
       DEF Next, Operator, Delete, Run, RunGlobal

\* Every change is planned to be published.
LEMMA PublicationStep ==
    TypeInv /\ TasksOfGone /\ ListedOrPlanned /\ ReadIsCurrent /\ PublicationPlanned /\ [Next]_vars => PublicationPlanned'
  <1> SUFFICES ASSUME TypeInv, TasksOfGone, ListedOrPlanned, ReadIsCurrent, PublicationPlanned, [Next]_vars PROVE PublicationPlanned'
    BY Zenon
  <1> USE DEF caVars, repoVars, objVars, history
  <1> USE DEF TypeInv, Queued, IsRunning, Starting, InSync
  <1>1. ASSUME NEW ca \in CA, InitCa(ca) PROVE PublicationPlanned'
    BY <1>1 DEF InitCa, PublicationPlanned
  <1>2. ASSUME NEW ca \in CA, AddParent(ca) PROVE PublicationPlanned'
    BY <1>2 DEF AddParent, Schedule, PublicationPlanned
  <1>3. ASSUME NEW ca \in CA, UpdateRepo(ca) PROVE PublicationPlanned'
    BY <1>3 DEF UpdateRepo, Schedule, PublicationPlanned
  <1>4. ASSUME NEW ca \in CA, RemoveParent(ca) PROVE PublicationPlanned'
    <2> DEFINE gone == {ca} \ leftover
    <2>1. running' = Reread(gone) /\ queue' = (queue \ {SyncParent(ca)}) \cup {SyncRepo(ca)}
      BY <1>4 DEF RemoveParent
    <2>2. content' = content \ gone /\ repo' = Stale(gone) /\ UNCHANGED <<exists, quiet, raced>>
      BY <1>4, Zenon DEF RemoveParent
    <2>3. SUFFICES ASSUME NEW c \in exists, ~InSync(c)', c # ca
                   PROVE  \/ SyncRepo(c) \in queue' \/ (IsRunning(SyncRepo(c))' /\ running'.fresh)
                          \/ Starting' \/ c \in quiet' \/ c \in raced'
      BY <2>1, <2>2 DEF PublicationPlanned
    <2>4. ~InSync(c)
      BY <2>2, <2>3 DEF Stale, TypeOK
    <2>5. /\ SyncRepo(c) \in queue => SyncRepo(c) \in queue'
          /\ StartTasks \in queue => StartTasks \in queue'
      BY <2>1, TasksDiffer
    <2>6. running # None => running' # None /\ running'.task = running.task
      BY <2>1, RereadFacts
    <2>7. running # None /\ running.task = SyncRepo(c) /\ running.fresh => running'.fresh
      <3>1. \A d \in gone : SyncRepo(c) # SyncRepo(d)
        BY <2>3, TasksDiffer
      <3> QED
        BY <2>1, <3>1, RereadFacts
    <2>8. IsRunning(SyncRepo(c)) /\ running.fresh => IsRunning(SyncRepo(c))' /\ running'.fresh
      BY <2>6, <2>7
    <2>9. Starting => Starting'
      BY <2>5, <2>6
    <2> HIDE DEF InSync, Starting, IsRunning
    <2>10. \/ SyncRepo(c) \in queue \/ (IsRunning(SyncRepo(c)) /\ running.fresh)
           \/ Starting \/ c \in quiet \/ c \in raced
      BY <2>3, <2>4, Zenon DEF PublicationPlanned
    <2> QED
      BY <2>2, <2>5, <2>8, <2>9, <2>10
  <1>5. ASSUME NEW ca \in CA, ChangeObjects(ca) PROVE PublicationPlanned'
    BY <1>5, RereadFacts DEF ChangeObjects, Schedule, Stale, Own, PublicationPlanned, TypeOK
  <1>6. ASSUME NEW ca \in CA, ReissueQuietly(ca) PROVE PublicationPlanned'
    <2>1. /\ running' = Reread({ca}) /\ queue' = queue /\ content' = content /\ exists' = exists
          /\ raced' = raced /\ quiet' = quiet \cup {ca}
      BY <1>6 DEF ReissueQuietly
    <2>2. running' = None <=> running = None
      BY <2>1, RereadFacts
    <2>3. running # None =>
              /\ running'.task = running.task /\ running'.step = running.step /\ running'.some = running.some
              /\ running'.fresh <=> running.fresh /\ running.task # SyncRepo(ca)
      BY <2>1, RereadFacts
    <2>4. repo' = Stale({ca})
      BY <1>6 DEF ReissueQuietly
    <2>5. \A c \in CA \ {ca} : InSync(c)' <=> InSync(c)
      BY <2>1, <2>4 DEF Stale
    <2>6. \A c \in CA \ {ca} : SyncRepo(ca) # SyncRepo(c)
      BY TasksDiffer
    <2>7. exists \subseteq CA
      BY Zenon DEF TypeOK
    <2> HIDE DEF InSync
    <2> QED
      BY <2>1, <2>2, <2>3, <2>5, <2>6, <2>7 DEF PublicationPlanned
  <1>7. ASSUME NEW ca \in CA, ScheduleSync(ca) PROVE PublicationPlanned'
    BY <1>7, Zenon DEF ScheduleSync, Schedule, PublicationPlanned
  <1>8. ASSUME NEW ca \in CA, DeleteStart(ca) PROVE PublicationPlanned'
    BY <1>8, Zenon DEF DeleteStart, PublicationPlanned
  <1>9. ASSUME NEW ca \in CA, DeleteClean(ca) PROVE PublicationPlanned'
    BY <1>9, Zenon DEF DeleteClean, Schedule, PublicationPlanned, TypeOK
  <1>10. ASSUME NEW ca \in CA, DeleteDrop(ca) PROVE PublicationPlanned'
    BY <1>10, Zenon DEF DeleteDrop, PublicationPlanned
  <1>11. ASSUME NEW ca \in CA, DeleteTasks(ca) PROVE PublicationPlanned'
    BY <1>11, TasksDiffer DEF DeleteTasks, TasksFor, TasksOfGone, PublicationPlanned
  <1>12. ASSUME NEW ca \in CA, ReadElements(ca) PROVE PublicationPlanned'
    <2>1. /\ running'.fresh /\ running'.task = SyncRepo(ca) /\ running' # None
          /\ running # None /\ running.task = SyncRepo(ca)
      BY <1>12, ReadRunning
    <2>2. UNCHANGED <<exists, content, repo, queue, quiet, raced>>
      BY <1>12 DEF ReadElements
    <2> QED
      BY <2>1, <2>2, TasksDiffer DEF PublicationPlanned
  <1>13. ASSUME NEW ca \in CA, Publish(ca) PROVE PublicationPlanned'
    <2>1. /\ running # None /\ running.task = SyncRepo(ca) /\ running.step = "send" /\ ca \in exists
          /\ running' = None /\ queue \subseteq queue'
          /\ UNCHANGED <<exists, content, raced>>
      BY <1>13 DEF Publish, Sending, Finish, Schedule
    <2>2. \A c \in CA \ {ca} : repo'[c] = repo[c] /\ (c \in quiet => c \in quiet')
      BY <1>13, Zenon DEF Publish, TypeOK
    <2>3. \A c \in exists \ {ca} : ~InSync(c)' =>
              SyncRepo(c) \in queue' \/ Starting' \/ c \in quiet' \/ c \in raced'
      BY <2>1, <2>2, TasksDiffer DEF PublicationPlanned, TypeOK
    <2>4. CASE ca \notin target
      <3>1. repo' = repo /\ repo[ca] = "none" /\ ca \notin content
        BY <1>13, <2>4, Zenon DEF Publish, TypeOK, TargetsKnown
      <3> QED
        BY <2>1, <2>3, <3>1 DEF PublicationPlanned
    <2>5. CASE ca \in target /\ running.fresh
      <3>1. repo'[ca] = Sent
        BY <1>13, <2>5 DEF Publish, TypeOK
      <3>2. running.some = (ca \in content)
        BY <2>1, <2>5 DEF ReadIsCurrent
      <3>3. Sent = IF ca \in content THEN "current" ELSE "none"
        BY <2>5, <3>2, Zenon DEF Sent
      <3>4. InSync(ca)'
        BY <2>1, <3>1, <3>3, Zenon
      <3> QED
        BY <2>3, <2>1, <3>4 DEF PublicationPlanned
    <2>6. CASE ca \in target /\ ~running.fresh
      <3>1. SyncRepo(ca) \in queue \/ Starting \/ ca \in quiet \/ ca \in raced
        BY <2>1, <2>6 DEF ReadIsCurrent, TypeOK
      <3>2. ca \in quiet => ca \in quiet'
        BY <1>13, <2>6 DEF Publish
      <3>3. SyncRepo(ca) \in queue' \/ Starting' \/ ca \in quiet' \/ ca \in raced'
        BY <2>1, <3>1, <3>2, TasksDiffer
      <3> QED
        BY <2>1, <2>3, <3>3 DEF PublicationPlanned
    <2> QED
      BY <2>4, <2>5, <2>6, Zenon
  <1>14. ASSUME NEW ca \in CA, PublishFails(ca) PROVE PublicationPlanned'
    BY <1>14, Zenon DEF PublishFails, Sending, Finish, Schedule, PublicationPlanned
  <1>15. ASSUME NEW ca \in CA, SyncedParent(ca) PROVE PublicationPlanned'
    BY <1>15, Zenon DEF SyncedParent, Finish, Schedule, Stale, PublicationPlanned, TypeOK
  <1>16. ASSUME NEW ca \in CA, SuspendedChildren(ca) PROVE PublicationPlanned'
    BY <1>16, Zenon DEF SuspendedChildren, Finish, Schedule, Stale, PublicationPlanned, TypeOK
  <1>17. ASSUME NEW t \in Task, Pop(t) PROVE PublicationPlanned'
    BY <1>17, PopFacts, Zenon DEF Pop, Queued, PublicationPlanned
  <1>18. ASSUME QueueStartTasks PROVE PublicationPlanned'
    BY <1>18, StartTasksFacts, Zenon DEF Restart, ListedOrPlanned, PublicationPlanned
  <1>19. ASSUME UpdatedRrdp PROVE PublicationPlanned'
    BY <1>19, TasksDiffer, Zenon DEF UpdatedRrdp, Finish, Schedule, PublicationPlanned
  <1>20. ASSUME NEW cas \in SUBSET CA, Republished(cas) PROVE PublicationPlanned'
    BY <1>20, Zenon DEF Republished, Finish, Schedule, Stale, PublicationPlanned, TypeOK
  <1>21. ASSUME NEW cas \in SUBSET CA, Renewed(cas) PROVE PublicationPlanned'
    BY <1>21 DEF Renewed, Finish, Schedule, Stale, PublicationPlanned, TypeOK
  <1>22. ASSUME Restart PROVE PublicationPlanned'
    BY <1>22, Zenon DEF Restart, PublicationPlanned
  <1>23. ASSUME UNCHANGED vars PROVE PublicationPlanned'
    BY <1>23, Zenon DEF vars, PublicationPlanned
  <1> QED
    BY <1>1, <1>2, <1>3, <1>4, <1>5, <1>6, <1>7, <1>8, <1>9, <1>10, <1>11, <1>12,
       <1>13, <1>14, <1>15, <1>16, <1>17, <1>18, <1>19, <1>20, <1>21, <1>22, <1>23, Zenon
       DEF Next, Operator, Delete, Run, RunGlobal

-----------------------------------------------------------------------------
(* The invariants *)

IInv == TypeInv /\ RrdpPlanned /\ CleanInv /\ PlanInv

\* It holds when Krill is started.
LEMMA InitIInv ==
    Init => IInv
  <1> SUFFICES ASSUME Init PROVE IInv
    OBVIOUS
  <1>1. running = None /\ StartTasks \in queue
    BY DEF Init
  <1>2. TypeInv
    BY TaskTypes, Zenon DEF Init, TypeInv, TypeOK, TargetsKnown
  <1>3. RrdpPlanned
    BY DEF Init, RrdpPlanned
  <1>4. CleanInv
    BY SchedulerAssumption DEF Init, CleanInv, CleanBeforeDrop, DeletedIsClean
  <1>5. TasksOfGone
    BY SchedulerAssumption, Zenon DEF Init, TasksOfGone
  <1>6. ListedOrPlanned /\ ReadIsCurrent /\ PublicationPlanned /\ RecurringPlanned
    BY <1>1 DEF ListedOrPlanned, ReadIsCurrent, PublicationPlanned, RecurringPlanned, IsRunning, Starting, Queued
  <1> QED
    BY <1>2, <1>3, <1>4, <1>5, <1>6 DEF IInv, PlanInv

\* It is kept by every step of the API, of delete_ca, of the scheduler, and by restarts.
THEOREM InductiveInvariant ==
    Spec => []IInv
  <1>1. IInv /\ [Next]_vars => IInv'
    BY TypeStep, RrdpStep, CleanStep, GoneStep, ListedStep, ReadStep, PublicationStep, RecurringStep
       DEF IInv, PlanInv
  <1> QED
    BY <1>1, InitIInv, PTL DEF Spec

\* A change of the objects of any CA has its publication planned, whatever requests, deletions of
\* CAs and restarts come between (TaskQueue, cas_repo_sync_single, queue_start_tasks).
THEOREM PublicationCorrect ==
    Spec => []PublicationPlanned
  <1>1. IInv => PublicationPlanned
    BY DEF IInv, PlanInv
  <1> QED
    BY <1>1, InductiveInvariant, PTL

\* Every task that is to recur has a next time, for every CA (process_task in scheduler.rs).
THEOREM RecurringCorrect ==
    Spec => []RecurringPlanned
  <1>1. IInv => RecurringPlanned
    BY DEF IInv, PlanInv
  <1> QED
    BY <1>1, InductiveInvariant, PTL

\* Changes that the repository server has accepted have an RRDP update planned (update_rrdp_if_needed).
THEOREM RrdpCorrect ==
    Spec => []RrdpPlanned
  <1>1. IInv => RrdpPlanned
    BY DEF IInv
  <1> QED
    BY <1>1, InductiveInvariant, PTL

\* A CA that was deleted leaves nothing in its repository, but in the cases that are named (delete_ca).
THEOREM DeletionCorrect ==
    Spec => []DeletedIsClean
  <1>1. IInv => DeletedIsClean
    BY DEF IInv, CleanInv
  <1> QED
    BY <1>1, InductiveInvariant, PTL
=============================================================================
