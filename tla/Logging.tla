------------------------------ MODULE Logging ------------------------------
(***************************************************************************)
(* nest::base FileLog, FileMgr, Logger, Task and TaskMgr, and the main     *)
(* loop: log files that any thread writes to and that the main thread      *)
(* rotates.                                                                *)
(*                                                                         *)
(* A FileLog is a descriptor opened with O_APPEND; a line is one write().  *)
(* The main thread calls TaskMgr::OnWork again and again; a task that is   *)
(* due and calls FileMgr::OnCheck compares the local time with the time it *)
(* saw before, field by field, and rotates the logs whose field changed:   *)
(* rename the file, open a new one under the old name, dup2 it onto the    *)
(* descriptor the writers use.                                             *)
(*                                                                         *)
(* A file is a set of lines, dir the directory: <<p>> names the current    *)
(* file of path p, <<p, q>> the one rotated for period q.  Files outlive   *)
(* the process, which may crash between any two steps and start again.     *)
(* Time is local time in minutes; the clock the tasks are timed with is    *)
(* another one, and appears as tasks becoming due.  Local time is taken    *)
(* never to go back: when it does, names repeat and rename overwrites.     *)
(***************************************************************************)
EXTENDS Integers, Sequences, FiniteSets

CONSTANTS
    Paths,          \* paths of log files
    MainLog,        \* the path in the configuration
    RotateType,     \* what SetRotate gave the log of each path
    Check,          \* the task that calls FileMgr::OnCheck
    OtherTasks,     \* tasks that other code adds and deletes
    MinutesPerHour, HoursPerDay, DaysPerMonth,
    MaxNow,         \* bound: the last minute
    MaxLogs,        \* bound: FileLogs one process opens
    MaxLines,       \* bound: different lines written
    MaxCrashes      \* bound: crashes

Tasks == OtherTasks \cup {Check}

ASSUME PathsAssumption ==
    /\ MainLog \in Paths
    /\ RotateType \in [Paths -> {"none", "minute", "hour", "day"}]
    /\ Check \notin OtherTasks

ASSUME BoundsAssumption ==
    /\ {MinutesPerHour, HoursPerDay, DaysPerMonth} \subseteq Nat \ {0, 1}
    /\ {MaxNow, MaxLogs, MaxLines, MaxCrashes} \subseteq Nat

VARIABLES
    now,        \* the local time
    dir,        \* the directory: which file has a name
    files,      \* what the files hold
    fileLogs,   \* the FileLogs of this process: path and open file
    logs,       \* logs_: the FileLog of a path, 0 if there is none
    last,       \* lastYear_ ... lastMinute_, -1 before the first check
    tasks,      \* TaskMgr's tasks_
    due,        \* due[t]: t's when_ has passed
    pc,         \* where the main thread is
    pending,    \* due tasks OnWork has not come to
    seen,       \* the time OnCheck has read
    todo,       \* FileLogs OnCheck has not come to
    file,       \* the FileLog in Rotate, 0 if there is none
    since,      \* history: the time of the first check, -1 before it
    missed,     \* history: paths whose file a check should have rotated,
                \* and did not look at
    crashes,    \* history: number of crashes
    written     \* history: lines written

fileVars == <<dir, files>>
managerVars == <<fileLogs, logs, last, since, missed>>
taskVars == <<tasks, due, pending>>
mainVars == <<pc, seen, todo, file>>
vars == <<fileVars, managerVars, taskVars, mainVars, now, crashes,
          written>>

(* The period a time belongs to, as the rotated file's name writes it. *)
Period(p, t) ==
    CASE RotateType[p] = "none"   -> 0
      [] RotateType[p] = "minute" -> t
      [] RotateType[p] = "hour"   -> t \div MinutesPerHour
      [] RotateType[p] = "day"    -> t \div (MinutesPerHour * HoursPerDay)

(* The one field of the time that OnCheck compares. *)
Field(type, t) ==
    CASE type = "none"   -> 0
      [] type = "minute" -> t % MinutesPerHour
      [] type = "hour"   -> (t \div MinutesPerHour) % HoursPerDay
      [] type = "day"    ->
            (t \div (MinutesPerHour * HoursPerDay)) % DaysPerMonth

Lines == [log : Paths, at : 0..MaxNow]

Pc == {"down", "idle", "work", "lock", "rotate", "reopen", "dup2", "ran"}

(* There is a file under the path itself. *)
Current(p) == <<p>> \in DOMAIN dir

(* mtx_ is held while OnCheck rotates, lock_ while OnWork runs. *)
LogsLocked == pc \in {"rotate", "reopen", "dup2"}
TasksLocked == pc \notin {"down", "idle"}

TypeOK ==
    /\ now \in 0..MaxNow /\ last \in -1..MaxNow /\ seen \in 0..MaxNow
    /\ since \in -1..MaxNow
    /\ files \in Seq(SUBSET Lines)
    /\ \A n \in DOMAIN dir : dir[n] \in DOMAIN files
    /\ fileLogs \in Seq([path : Paths, fd : DOMAIN files])
    /\ logs \in [Paths -> 0..Len(fileLogs)]
    /\ tasks \subseteq Tasks /\ due \in [Tasks -> BOOLEAN]
    /\ pc \in Pc
    /\ todo \subseteq DOMAIN fileLogs /\ file \in 0..Len(fileLogs)
    /\ missed \subseteq Paths
    /\ crashes \in 0..MaxCrashes /\ written \subseteq Lines

Init ==
    /\ now = 0
    /\ dir = <<>> /\ files = <<>>
    /\ fileLogs = <<>> /\ logs = [p \in Paths |-> 0]
    /\ last = -1 /\ since = -1 /\ missed = {}
    /\ tasks = {} /\ due = [t \in Tasks |-> FALSE] /\ pending = {}
    /\ pc = "down" /\ seen = 0 /\ todo = {} /\ file = 0
    /\ crashes = 0 /\ written = {}

----------------------------------------------------------------------------
(* Files and logs.                                                         *)

(* open(O_CREAT) of path p: what dir and files become. *)
OpenFile(p) ==
    IF Current(p)
    THEN UNCHANGED fileVars
    ELSE /\ files' = Append(files, {})
         /\ dir' = [n \in DOMAIN dir \cup {<<p>>} |->
                       IF n = <<p>> THEN Len(files) + 1 ELSE dir[n]]

(* GetFileLog finds no FileLog of p and opens one. *)
OpenLog(p) ==
    /\ OpenFile(p)
    /\ fileLogs' = Append(fileLogs, [path |-> p, fd |-> dir'[<<p>>]])
    /\ logs' = [logs EXCEPT ![p] = Len(fileLogs) + 1]

(* GetFileLog in some thread; a log that is there is simply returned. *)
GetFileLog(p) ==
    /\ pc # "down" /\ ~LogsLocked
    /\ logs[p] = 0
    /\ Len(fileLogs) < MaxLogs
    /\ OpenLog(p)
    /\ UNCHANGED <<last, since, missed, taskVars, mainVars, now,
                   crashes, written>>

(* RemoveFileLog erases whatever is registered under the log's path; the   *)
(* descriptor stays open and the log's owners go on writing to it.         *)
RemoveFileLog(l) ==
    /\ ~LogsLocked
    /\ logs' = [logs EXCEPT ![fileLogs[l].path] = 0]
    /\ UNCHANGED <<fileVars, fileLogs, last, since, missed, taskVars,
                   mainVars, now, crashes, written>>

(* LogStream's destructor, Logger::Write and WriteLog, in any thread: one  *)
(* write() to the log's descriptor.                                        *)
WriteLog(l) ==
    LET line == [log |-> fileLogs[l].path, at |-> now]
    IN  /\ written' = written \cup {line}
        /\ Cardinality(written') <= MaxLines
        /\ files' = [files EXCEPT ![fileLogs[l].fd] = @ \cup {line}]
        /\ UNCHANGED <<dir, managerVars, taskVars, mainVars, now,
                       crashes>>

----------------------------------------------------------------------------
(* Tasks.                                                                  *)

(* Mutant: Add and Del do not lock lock_. *)
Del_Unlocked(t) ==
    /\ pc # "down"
    /\ tasks' = tasks \ {t} /\ due' = [due EXCEPT ![t] = FALSE]
    /\ UNCHANGED <<pending, fileVars, managerVars, mainVars, now,
                   crashes, written>>

(* TaskMgr::Add and Del, from other threads. *)
Add(t) ==
    /\ pc = "idle"
    /\ tasks' = tasks \cup {t}
    /\ UNCHANGED <<due, pending, fileVars, managerVars, mainVars, now,
                   crashes, written>>

Del(t) ==
    /\ pc = "idle"
    /\ tasks' = tasks \ {t} /\ due' = [due EXCEPT ![t] = FALSE]
    /\ UNCHANGED <<pending, fileVars, managerVars, mainVars, now,
                   crashes, written>>

(* A task's when_ passes. *)
Elapse(t) ==
    /\ pc # "down" /\ t \in tasks /\ ~due[t]
    /\ due' = [due EXCEPT ![t] = TRUE]
    /\ UNCHANGED <<tasks, pending, fileVars, managerVars, mainVars, now,
                   crashes, written>>

(* OnWork locks lock_ and reads the clock, which says what is due. *)
OnWork ==
    /\ pc = "idle"
    /\ pending' = {t \in tasks : due[t]}
    /\ pending' # {}
    /\ pc' = "work"
    /\ UNCHANGED <<tasks, due, seen, todo, file, fileVars, managerVars,
                   now, crashes, written>>

(* The callback of t returned: OnWork keeps the task if it was restarted,  *)
(* and erases it if not.                                                   *)
Returned(t, restarted) ==
    /\ pending' = pending \ {t}
    /\ due' = [due EXCEPT ![t] = FALSE]
    /\ tasks' = IF restarted THEN tasks ELSE tasks \ {t}

(* Another task runs, and may restart itself. *)
RunTask(t, restarted) ==
    /\ pc = "work" /\ t \in pending \ {Check}
    /\ Returned(t, restarted)
    /\ UNCHANGED <<mainVars, fileVars, managerVars, now, crashes,
                   written>>

(* All tasks are done: OnWork unlocks lock_ and the main thread sleeps. *)
WorkDone ==
    /\ pc = "work" /\ pending = {}
    /\ pc' = "idle"
    /\ UNCHANGED <<taskVars, seen, todo, file, fileVars, managerVars,
                   now, crashes, written>>

----------------------------------------------------------------------------
(* FileMgr::OnCheck, called by the task Check.                             *)

(* The log types whose field differs between the last time and t. *)
Changes(t) ==
    {type \in {"minute", "hour", "day"} : Field(type, t) # Field(type, last)}

(* OnCheck reads the time; the first one only remembers it. *)
OnCheck ==
    /\ pc = "work" /\ Check \in pending
    /\ IF last = -1
       THEN /\ last' = now /\ since' = now
            /\ seen' = 0 /\ pc' = "ran"
            /\ UNCHANGED missed
       ELSE /\ pc' = IF Changes(now) = {} THEN "ran" ELSE "lock"
            /\ seen' = IF Changes(now) = {} THEN 0 ELSE now
            /\ missed' = missed \cup
                   {p \in Paths : /\ Period(p, now) # Period(p, last)
                                  /\ RotateType[p] \notin Changes(now)}
            /\ UNCHANGED <<last, since>>
    /\ UNCHANGED <<fileLogs, logs, taskVars, todo, file, fileVars, now,
                   crashes, written>>

(* mtx_ is locked; the logs whose type's field has changed are rotated. *)
LockLogs ==
    /\ pc = "lock"
    /\ pc' = "rotate"
    /\ LET changed == {p \in Paths : RotateType[p] \in Changes(seen)}
       IN  /\ todo' = {logs[p] : p \in changed} \ {0}
           /\ missed' = missed \cup
                  {p \in changed : logs[p] = 0 /\ Current(p)}
    /\ UNCHANGED <<seen, file, fileLogs, logs, last, since, taskVars, fileVars,
                   now, crashes, written>>

(* FileSize is 0: nothing to rotate. *)
SkipEmpty(l) ==
    /\ pc = "rotate" /\ l \in todo
    /\ files[fileLogs[l].fd] = {}
    /\ todo' = todo \ {l}
    /\ UNCHANGED <<pc, seen, file, taskVars, fileVars, managerVars, now,
                   crashes, written>>

(* Mutant: the name is made from the new time. *)
RotatedName_New(p) == <<p, Period(p, seen)>>

(* Mutant: a minute log's name leaves out the minute. *)
RotatedName_Hour(p) == <<p, Period(p, last) \div MinutesPerHour>>

(* The new name, made from the time of the check before. *)
RotatedName(p) == <<p, Period(p, last)>>

(* rename() takes the current name away and replaces what had the new one. *)
Renamed(from, to) ==
    [n \in (DOMAIN dir \ {from}) \cup {to} |->
        IF n = to THEN dir[from] ELSE dir[n]]

(* Rotate renames the file; if it is not there, Rotate gives up. *)
Rotate(l) ==
    LET p == fileLogs[l].path
    IN  /\ pc = "rotate" /\ l \in todo
        /\ files[fileLogs[l].fd] # {}
        /\ todo' = todo \ {l}
        /\ IF Current(p)
           THEN dir' = Renamed(<<p>>, RotatedName(p)) /\ pc' = "reopen" /\ file' = l
           ELSE UNCHANGED <<dir, pc, file>>
        /\ UNCHANGED <<files, seen, taskVars, managerVars, now, crashes,
                       written>>

(* ... opens a new file ... *)
Reopen ==
    /\ pc = "reopen"
    /\ OpenFile(fileLogs[file].path)
    /\ pc' = "dup2"
    /\ UNCHANGED <<seen, todo, file, taskVars, managerVars, now,
                   crashes, written>>

(* ... or fails to (no descriptor, no permission), and returns ... *)
ReopenFails ==
    /\ pc = "reopen"
    /\ pc' = "rotate" /\ file' = 0
    /\ UNCHANGED <<seen, todo, taskVars, fileVars, managerVars, now,
                   crashes, written>>

(* Mutant: the new descriptor is closed, and the old one kept. *)
Dup2_Kept ==
    /\ pc = "dup2"
    /\ pc' = "rotate" /\ file' = 0
    /\ UNCHANGED <<fileLogs, logs, last, since, missed, seen, todo,
                   taskVars, fileVars, now, crashes, written>>

(* ... and puts it in the place of the old one, in one system call. *)
Dup2 ==
    /\ pc = "dup2"
    /\ fileLogs' = [fileLogs EXCEPT ![file].fd = dir[<<fileLogs[file].path>>]]
    /\ pc' = "rotate" /\ file' = 0
    /\ UNCHANGED <<logs, last, since, missed, seen, todo, taskVars,
                   fileVars, now, crashes, written>>

(* All logs are done: OnCheck remembers the time and unlocks mtx_. *)
CheckDone ==
    /\ pc = "rotate" /\ todo = {}
    /\ last' = seen
    /\ pc' = "ran" /\ seen' = 0
    /\ UNCHANGED <<fileLogs, logs, since, missed, todo, file, taskVars,
                   fileVars, now, crashes, written>>

(* Mutant: the task is not restarted. *)
Restart_Not ==
    /\ pc = "ran"
    /\ Returned(Check, FALSE)
    /\ pc' = "work"
    /\ UNCHANGED <<seen, todo, file, fileVars, managerVars, now,
                   crashes, written>>

(* The task restarts itself after OnCheck. *)
Restart ==
    /\ pc = "ran"
    /\ Returned(Check, TRUE)
    /\ pc' = "work"
    /\ UNCHANGED <<seen, todo, file, fileVars, managerVars, now,
                   crashes, written>>

----------------------------------------------------------------------------
(* The process and the clock.                                              *)

(* main() opens the log of the configuration and adds the task. *)
Start ==
    /\ pc = "down"
    /\ OpenLog(MainLog)
    /\ tasks' = {Check}
    /\ pc' = "idle"
    /\ UNCHANGED <<last, since, missed, due, pending, seen, todo, file,
                   now, crashes, written>>

(* The process dies; what it has written stays. *)
Crash ==
    /\ pc # "down" /\ crashes < MaxCrashes
    /\ crashes' = crashes + 1
    /\ fileLogs' = <<>> /\ logs' = [p \in Paths |-> 0]
    /\ last' = -1 /\ since' = -1 /\ missed' = {}
    /\ tasks' = {} /\ due' = [t \in Tasks |-> FALSE] /\ pending' = {}
    /\ pc' = "down" /\ seen' = 0 /\ todo' = {} /\ file' = 0
    /\ UNCHANGED <<fileVars, now, written>>

Minute ==
    /\ now < MaxNow
    /\ now' = now + 1
    /\ UNCHANGED <<fileVars, managerVars, taskVars, mainVars,
                   crashes, written>>

----------------------------------------------------------------------------
MainStep ==
    \/ OnWork \/ WorkDone \/ OnCheck \/ LockLogs \/ Reopen \/ ReopenFails
    \/ Dup2 \/ CheckDone \/ Restart
    \/ \E t \in OtherTasks, restarted \in BOOLEAN : RunTask(t, restarted)
    \/ \E l \in todo : SkipEmpty(l) \/ Rotate(l)

Next ==
    \/ MainStep \/ Start \/ Crash \/ Minute
    \/ \E p \in Paths : GetFileLog(p)
    \/ \E l \in DOMAIN fileLogs : RemoveFileLog(l) \/ WriteLog(l)
    \/ \E t \in OtherTasks : Add(t) \/ Del(t)
    \/ \E t \in Tasks : Elapse(t)

(* The main thread goes on, and a second passes.  Nobody has to write, to  *)
(* ask for a log, or to start a process that has crashed.                  *)
Fairness == WF_vars(MainStep) /\ WF_vars(Elapse(Check))

Spec == Init /\ [][Next]_vars /\ Fairness

----------------------------------------------------------------------------
(* Properties.                                                             *)

(* A registered log writes to the file that has its name, but for the time *)
(* between rename and dup2, although any thread opens and removes logs and *)
(* the process may die in the middle of Rotate; after an open that failed  *)
(* there is no such file.                                                  *)
WritesToItsFile ==
    \A p \in Paths :
        logs[p] # 0 /\ Current(p) /\ logs[p] # file =>
            fileLogs[logs[p]].fd = dir[<<p>>]

(* Every line that was written is in a file that still has a name, and the *)
(* name is its log's: no write goes to a descriptor that is being replaced *)
(* and no rename overwrites a rotated file.                                *)
NoLineLost ==
    \A line \in written : \E n \in DOMAIN dir :
        n[1] = line.log /\ line \in files[dir[n]]

(* What OnWork goes through is in tasks_: nobody erases from the set it    *)
(* iterates over.                                                          *)
TasksStable == pending \subseteq tasks

LogInv == TypeOK /\ WritesToItsFile /\ NoLineLost /\ TasksStable

(* A file rotated for a period holds no line of an earlier one: no line is *)
(* filed under a later period than the one it was written in, although     *)
(* lines are written while the check compares, renames and reopens.  Under *)
(* an earlier period it may be: what is written between the change of      *)
(* period and the dup2 of the check that sees it goes to the old file.     *)
(* This is said of lines written since the first check of this process:    *)
(* what it, or a process before it, wrote earlier is filed under the       *)
(* period of that check.                                                   *)
FiledUnderNoLaterPeriod ==
    since # -1 =>
        \A n \in DOMAIN dir : Len(n) = 2 /\ n[1] \notin missed =>
            \A line \in files[dir[n]] :
                line.at >= since => Period(n[1], line.at) >= n[2]

(* The current file of p holds a line of an earlier period. *)
Stale(p) ==
    /\ logs[p] # 0 /\ Current(p) /\ since # -1
    /\ \E line \in files[dir[<<p>>]] :
           line.at >= since /\ Period(p, line.at) < Period(p, now)

(* Such a file is rotated in the end, as long as the process lives and the *)
(* log is registered, but for a change of period that a check misses (it   *)
(* comes exactly an hour, or a day, late).                                 *)
StaleRotated ==
    \A p \in Paths :
        Stale(p) ~> ~Stale(p) \/ p \in missed
============================================================================
