----------------------------- MODULE Schedules -----------------------------
(* Backup schedules: the schedule and target tables of                       *)
(* backend/internal/backupstore/store.go, the requests of                    *)
(* backend/internal/api/backup.go that change them, and the cron entries the *)
(* runner installs for them (runner.go: Start, addSchedule, Reload).  A      *)
(* handler's store call and the Reload after it are one step.                *)
EXTENDS Integers, FiniteSets

CONSTANTS
    TargetIds,    \* identifiers of targets ("default", "t_...")
    Default,      \* the target that is always there
    ScheduleIds,  \* identifiers of schedules ("s_...")
    Nil,          \* no schedule with this identifier
    MaxChanges    \* bound: changes of the tables over a behaviour

Schedule == [target : TargetIds, enabled : BOOLEAN]

VARIABLES
    targets,    \* target identifier -> is it enabled; its domain: the targets
    schedules,  \* Store.schedules
    disk,       \* schedules.json
    entries,    \* the schedules with a cron entry
    fired,      \* schedules whose entry has fired
    ran,        \* schedules a job was recorded for
    changes

vars == <<targets, schedules, disk, entries, fired, ran, changes>>

EnabledIn(table) == {s \in ScheduleIds : table[s] # Nil /\ table[s].enabled}

Init ==
    /\ targets = [t \in {Default} |-> TRUE]
    /\ schedules = [s \in ScheduleIds |-> Nil] /\ disk = schedules
    /\ entries = {} /\ fired = {} /\ ran = {} /\ changes = 0

Change == changes < MaxChanges /\ changes' = changes + 1

\* CreateSchedule for an existing target; a failed save takes it back.
CreateSchedule(s, t) ==
    /\ schedules[s] = Nil /\ t \in DOMAIN targets
    /\ schedules' = [schedules EXCEPT ![s] = [target |-> t, enabled |-> TRUE]]
    /\ disk' = schedules'
    /\ entries' = EnabledIn(schedules')
    /\ Change
    /\ UNCHANGED <<targets, fired, ran>>

\* UpdateSchedule changes the table before it saves: when the save fails the
\* change stays in memory, and the request returns without Reload.
UpdateSchedule(s, t, enabled, saved) ==
    /\ schedules[s] # Nil /\ t \in DOMAIN targets
    /\ schedules' = [schedules EXCEPT ![s] = [target |-> t, enabled |-> enabled]]
    /\ disk' = IF saved THEN schedules' ELSE disk
    /\ entries' = IF saved THEN EnabledIn(schedules') ELSE entries
    /\ Change
    /\ UNCHANGED <<targets, fired, ran>>

\* DeleteSchedule: likewise.
DeleteSchedule(s, saved) ==
    /\ schedules[s] # Nil
    /\ schedules' = [schedules EXCEPT ![s] = Nil]
    /\ disk' = IF saved THEN schedules' ELSE disk
    /\ entries' = IF saved THEN EnabledIn(schedules') ELSE entries
    /\ Change
    /\ UNCHANGED <<targets, fired, ran>>

CreateTarget(t) ==
    /\ t \notin DOMAIN targets
    /\ targets' = [u \in DOMAIN targets \cup {t} |-> u = t \/ targets[u]]
    /\ Change
    /\ UNCHANGED <<schedules, disk, entries, fired, ran>>

\* UpdateTarget and DeleteTarget leave the schedules that name the target.
SetTarget(t, enabled) ==
    /\ t \in DOMAIN targets
    /\ targets' = [targets EXCEPT ![t] = enabled]
    /\ Change
    /\ UNCHANGED <<schedules, disk, entries, fired, ran>>

DeleteTarget(t) ==
    /\ t \in DOMAIN targets /\ t # Default
    /\ targets' = [u \in DOMAIN targets \ {t} |-> targets[u]]
    /\ Change
    /\ UNCHANGED <<schedules, disk, entries, fired, ran>>

\* RunOnce: no job for a target that is missing or disabled.
RunOnce(target, schedule) ==
    ran' = IF target \in DOMAIN targets /\ targets[target]
           THEN ran \cup {schedule} ELSE ran

\* addSchedule: what the cron entry of schedule s does when it fires; the
\* closure has the schedule's identifier only and passes it for the target's too.
Fire(s) ==
    /\ s \in entries
    /\ RunOnce(s, s)
    /\ fired' = fired \cup {s}
    /\ UNCHANGED <<targets, schedules, disk, entries, changes>>

\* A restart loads the file and Start installs the enabled schedules.
Restart ==
    /\ schedules' = disk
    /\ entries' = EnabledIn(disk)
    /\ UNCHANGED <<targets, disk, fired, ran, changes>>

Next ==
    \/ \E s \in ScheduleIds, t \in TargetIds : CreateSchedule(s, t)
    \/ \E s \in ScheduleIds, t \in TargetIds, e, b \in BOOLEAN : UpdateSchedule(s, t, e, b)
    \/ \E s \in ScheduleIds, b \in BOOLEAN : DeleteSchedule(s, b)
    \/ \E t \in TargetIds, e \in BOOLEAN : SetTarget(t, e)
    \/ \E t \in TargetIds : CreateTarget(t) \/ DeleteTarget(t)
    \/ \E s \in ScheduleIds : Fire(s)
    \/ Restart

\* Fairness: the hour of an installed entry comes.
FairSpec == Init /\ [][Next]_vars /\ \A s \in ScheduleIds : WF_vars(Fire(s))

\* The schedule is enabled, installed, and so is its target.
Due(s) ==
    /\ s \in entries /\ schedules[s] # Nil /\ schedules[s].enabled
    /\ schedules[s].target \in DOMAIN targets /\ targets[schedules[s].target]

\* runner.go says that "Start installs cron entries for every enabled schedule":
\* an enabled schedule of an enabled target gets a backup job sooner or later.
EnabledScheduleRuns == \A s \in ScheduleIds : []<>~Due(s) \/ <>(s \in ran)
=============================================================================
