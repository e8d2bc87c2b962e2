--------------------------- MODULE LoggingProofs ---------------------------
(***************************************************************************)
(* Proofs about Logging, for any number of logs, tasks, lines and crashes  *)
(* and any time: each line is in a file that has a name of its log, and    *)
(* files are rotated under the period of their lines.                      *)
(***************************************************************************)
EXTENDS Logging, TLAPS

----------------------------------------------------------------------------
(* The inductive invariant. *)

(* The times that the manager remembers; there are some once the first     *)
(* check is done, and OnCheck compares the last with a later one.          *)
ClockInv ==
    /\ last <= now /\ seen <= now
    /\ since # -1 <=> last # -1
    /\ pc = "lock" \/ LogsLocked => last # -1 /\ last <= seen

(* The names: a current file of a path, and rotated ones for periods that  *)
(* are over.                                                               *)
Names == {<<p>> : p \in Paths} \cup {<<p, q>> : p \in Paths, q \in Nat}

NamesInv ==
    /\ dir = [n \in DOMAIN dir |-> dir[n]] /\ DOMAIN dir \subseteq Names
    /\ \A p \in Paths : \A q \in Nat : <<p, q>> \in DOMAIN dir => q < Period(p, now)

(* No file has the name the next rotation gives, but those this check has  *)
(* given itself.                                                           *)
RenameInv ==
    last # -1 =>
        \A p \in Paths : \A q \in Nat : <<p, q>> \in DOMAIN dir =>
            \/ q < Period(p, last)
            \/ LogsLocked /\ q < Period(p, seen) /\ logs[p] \notin todo

(* A log is registered under its path; what OnCheck goes through is        *)
(* registered.                                                             *)
LogsInv ==
    /\ \A p \in Paths : logs[p] # 0 => fileLogs[logs[p]].path = p
    /\ \A l \in todo \cup {file} : l # 0 => LogsLocked /\ logs[fileLogs[l].path] = l
    /\ file # 0 <=> pc \in {"reopen", "dup2"}
    /\ file \notin todo
    /\ \A l \in todo : RotateType[fileLogs[l].path] \in Changes(seen)
    /\ pc = "reopen" => ~Current(fileLogs[file].path)
    /\ pc = "dup2" => Current(fileLogs[file].path)
    /\ pc = "down" => fileLogs = <<>>

(* Each descriptor is of a file with a name of its log's path. *)
FdInv ==
    \A l \in DOMAIN fileLogs : \E n \in DOMAIN dir :
        n[1] = fileLogs[l].path /\ dir[n] = fileLogs[l].fd

TasksInv == TasksStable /\ (~TasksLocked => pending = {})

(* Nothing was written in the future. *)
LinesInv == \A i \in DOMAIN files : \A line \in files[i] : line.at <= now

(* What no check has missed is in the last period or is to be rotated. *)
MissedInv ==
    pc = "lock" \/ LogsLocked =>
        \A p \in Paths \ missed :
            RotateType[p] \notin Changes(seen) => Period(p, seen) = Period(p, last)

(* A current file has no line of a period before the last check, or before *)
(* this one if OnCheck is done with it.                                    *)
From(p) == IF LogsLocked /\ logs[p] \notin todo THEN Period(p, seen) ELSE Period(p, last)

CurrentInv ==
    since # -1 =>
        \A p \in Paths \ missed : Current(p) =>
            \A line \in files[dir[<<p>>]] :
                line.at >= since => Period(p, line.at) >= From(p)

(* FiledUnderNoLaterPeriod, of names that are pairs. *)
Filed ==
    since # -1 =>
        \A p \in Paths \ missed : \A q \in Nat : <<p, q>> \in DOMAIN dir =>
            \A line \in files[dir[<<p, q>>]] :
                line.at >= since => Period(p, line.at) >= q

IInv ==
    /\ TypeOK /\ ClockInv /\ NamesInv /\ RenameInv /\ LogsInv /\ FdInv
    /\ WritesToItsFile /\ NoLineLost /\ TasksInv /\ LinesInv
    /\ MissedInv /\ CurrentInv /\ Filed

----------------------------------------------------------------------------
(* Times and names. *)

LEMMA Booleans == \A b : b \in BOOLEAN <=> b = TRUE \/ b = FALSE
  OBVIOUS

LEMMA QuotientMonotonic ==
    ASSUME NEW n \in Nat \ {0}, NEW s \in Nat, NEW t \in Nat, s <= t
    PROVE  /\ s \div n \in Nat /\ t \div n \in Nat
           /\ s \div n <= t \div n
<1> DEFINE q == s \div n  p == t \div n  r == s % n  u == t % n
<1>1. q \in Int /\ r \in 0 .. n - 1 /\ s = n * q + r
  OBVIOUS
<1>2. p \in Int /\ u \in 0 .. n - 1 /\ t = n * p + u
  OBVIOUS
<1> HIDE DEF q, p, r, u
<1>3. q >= 0 /\ p >= 0
  BY <1>1, <1>2
<1>4. q <= p
  BY <1>1, <1>2
<1> QED
  BY <1>1, <1>2, <1>3, <1>4 DEF q, p

LEMMA PeriodMonotonic ==
    ASSUME NEW p \in Paths, NEW s \in Nat, NEW t \in Nat, s <= t
    PROVE  Period(p, s) \in Nat /\ Period(p, t) \in Nat /\ Period(p, s) <= Period(p, t)
<1>1. RotateType[p] \in {"none", "minute", "hour", "day"}
  BY PathsAssumption
<1>2. MinutesPerHour \in Nat \ {0} /\ MinutesPerHour * HoursPerDay \in Nat \ {0}
  <2>1. MinutesPerHour \in Nat \ {0} /\ HoursPerDay \in Nat \ {0}
    BY BoundsAssumption
  <2> QED
    BY <2>1
<1>3. CASE RotateType[p] = "none"
  BY <1>3 DEF Period
<1>4. CASE RotateType[p] = "minute"
  BY <1>4 DEF Period
<1>5. CASE RotateType[p] = "hour"
  BY <1>2, <1>5, QuotientMonotonic DEF Period
<1>6. CASE RotateType[p] = "day"
  <2> DEFINE n == MinutesPerHour * HoursPerDay
  <2>1. Period(p, s) = s \div n /\ Period(p, t) = t \div n
    BY <1>6 DEF Period
  <2> HIDE DEF n
  <2> QED
    BY <1>2, <2>1, QuotientMonotonic DEF n
<1> QED
  BY <1>1, <1>3, <1>4, <1>5, <1>6

(* A field of the time that differs belongs to another period. *)
LEMMA FieldOfPeriod ==
    ASSUME NEW p \in Paths, NEW t \in Nat, RotateType[p] \in Changes(t)
    PROVE  Period(p, t) # Period(p, last)
<1>1. RotateType[p] \in {"minute", "hour", "day"}
      /\ Field(RotateType[p], t) # Field(RotateType[p], last)
  BY DEF Changes
<1>2. CASE RotateType[p] = "minute"
  BY <1>1, <1>2 DEF Field, Period
<1>3. CASE RotateType[p] = "hour"
  BY <1>1, <1>3 DEF Field, Period
<1>4. CASE RotateType[p] = "day"
  BY <1>1, <1>4 DEF Field, Period
<1> QED
  BY <1>1, <1>2, <1>3, <1>4

LEMMA NameFacts ==
    /\ \A p : <<p>>[1] = p /\ Len(<<p>>) = 1
    /\ \A p, q : <<p, q>>[1] = p /\ <<p, q>>[2] = q /\ Len(<<p, q>>) = 2
    /\ \A p, r : <<p>> = <<r>> <=> p = r
    /\ \A p, q, r, s : <<p, q>> = <<r, s>> <=> p = r /\ q = s
    /\ \A p, q, r : <<p>> # <<r, q>>
  OBVIOUS

(* The times of a reachable state. *)
LEMMA TimesType ==
    ASSUME IInv
    PROVE  /\ now \in Nat /\ seen \in Nat /\ last \in Int /\ since \in Int
           /\ last # -1 => last \in Nat
           /\ since # -1 => since \in Nat
           /\ MaxNow \in Nat
  BY BoundsAssumption DEF IInv, TypeOK

LEMMA FilesType ==
    ASSUME IInv
    PROVE  /\ DOMAIN files = 1 .. Len(files) /\ Len(files) \in Nat
           /\ \A i \in DOMAIN files : files[i] \subseteq Lines
           /\ \A n \in DOMAIN dir : dir[n] \in DOMAIN files
           /\ DOMAIN fileLogs = 1 .. Len(fileLogs) /\ Len(fileLogs) \in Nat
           /\ \A l \in DOMAIN fileLogs :
                 /\ fileLogs[l] \in [path : Paths, fd : DOMAIN files]
                 /\ fileLogs[l].path \in Paths /\ fileLogs[l].fd \in DOMAIN files
           /\ \A p \in Paths : logs[p] \in 0 .. Len(fileLogs)
           /\ \A p \in Paths : logs[p] # 0 => logs[p] \in DOMAIN fileLogs
           /\ \A i \in DOMAIN files : \A line \in files[i] :
                 line.log \in Paths /\ line.at \in Nat /\ line.at <= now
<1>1. files \in Seq(SUBSET Lines) /\ fileLogs \in Seq([path : Paths, fd : DOMAIN files])
      /\ logs \in [Paths -> 0 .. Len(fileLogs)]
      /\ \A n \in DOMAIN dir : dir[n] \in DOMAIN files
  BY DEF IInv, TypeOK
<1>2. DOMAIN files = 1 .. Len(files) /\ Len(files) \in Nat
      /\ \A i \in DOMAIN files : files[i] \subseteq Lines
  BY <1>1
<1>3. DOMAIN fileLogs = 1 .. Len(fileLogs) /\ Len(fileLogs) \in Nat
      /\ \A l \in DOMAIN fileLogs :
            /\ fileLogs[l] \in [path : Paths, fd : DOMAIN files]
            /\ fileLogs[l].path \in Paths /\ fileLogs[l].fd \in DOMAIN files
  <2> DEFINE logRecords == [path : Paths, fd : DOMAIN files]
  <2>1. fileLogs \in Seq(logRecords)
    BY <1>1
  <2> HIDE DEF logRecords
  <2>2. DOMAIN fileLogs = 1 .. Len(fileLogs) /\ Len(fileLogs) \in Nat
        /\ \A l \in DOMAIN fileLogs : fileLogs[l] \in logRecords
    BY <2>1
  <2> QED
    BY <2>2 DEF logRecords
<1>4. \A i \in DOMAIN files : \A line \in files[i] :
          line.log \in Paths /\ line.at \in Nat /\ line.at <= now
  BY <1>2, BoundsAssumption DEF Lines, IInv, LinesInv
<1> QED
  BY <1>1, <1>2, <1>3, <1>4

----------------------------------------------------------------------------
(* The steps, one after the other. *)

LEMMA InitIInv == Init => IInv
<1> SUFFICES ASSUME Init PROVE IInv
  OBVIOUS
<1>1. TypeOK
  <2>1. files \in Seq(SUBSET Lines) /\ fileLogs \in Seq([path : Paths, fd : DOMAIN files])
    BY DEF Init
  <2>2. DOMAIN dir = {} /\ Len(fileLogs) = 0 /\ due \in [Tasks -> BOOLEAN]
    BY DEF Init
  <2>3. 0 \in 0 .. MaxNow /\ 0 \in -1 .. MaxNow /\ -1 \in -1 .. MaxNow /\ 0 \in 0 .. MaxCrashes
    BY BoundsAssumption
  <2> QED
    BY <2>1, <2>2, <2>3 DEF Init, TypeOK, Pc
<1>2. /\ ClockInv /\ RenameInv /\ FdInv /\ WritesToItsFile /\ NoLineLost
      /\ TasksInv /\ LinesInv /\ MissedInv /\ CurrentInv /\ Filed
  BY DEF Init, ClockInv, RenameInv, FdInv, WritesToItsFile, NoLineLost, TasksInv, TasksStable,
         LinesInv, MissedInv, CurrentInv, Filed, LogsLocked, TasksLocked
<1>3. NamesInv /\ LogsInv
  <2>1. DOMAIN dir = {} /\ dir = [n \in DOMAIN dir |-> dir[n]]
    BY DEF Init
  <2> QED
    BY <2>1 DEF Init, NamesInv, LogsInv, LogsLocked
<1> QED
  BY <1>1, <1>2, <1>3 DEF IInv

(* Steps that have nothing to do with the logs. *)
LEMMA QuietKeeps ==
    ASSUME IInv, UNCHANGED <<fileVars, managerVars, seen, todo, file, now, crashes, written>>,
           pc' = pc \/ {pc, pc'} \subseteq {"idle", "work", "ran"},
           tasks' \subseteq Tasks, due' \in [Tasks -> BOOLEAN], TasksInv'
    PROVE  IInv'
<1>1. /\ pc' \in Pc /\ LogsLocked' = LogsLocked
      /\ \A c \in {"lock", "reopen", "dup2", "down"} : pc' = c <=> pc = c
      /\ pc' \in {"reopen", "dup2"} <=> pc \in {"reopen", "dup2"}
  BY DEF IInv, TypeOK, Pc, LogsLocked
<1>2. TypeOK'
  BY <1>1 DEF IInv, TypeOK, fileVars, managerVars
<1>3. ClockInv' /\ NamesInv'
  BY <1>1 DEF IInv, ClockInv, NamesInv, fileVars, managerVars, Period
<1>4. RenameInv' /\ MissedInv'
  BY <1>1 DEF IInv, RenameInv, MissedInv, fileVars, managerVars, Period, Changes, Field
<1>5. LogsInv'
  BY <1>1 DEF IInv, LogsInv, fileVars, managerVars, Changes, Field, Current
<1>6. FdInv' /\ WritesToItsFile' /\ NoLineLost' /\ LinesInv'
  BY DEF IInv, FdInv, WritesToItsFile, NoLineLost, LinesInv, fileVars, managerVars, Current
<1>7. CurrentInv' /\ Filed'
  BY <1>1 DEF IInv, CurrentInv, Filed, From, fileVars, managerVars, Current, Period
<1> QED
  BY <1>2, <1>3, <1>4, <1>5, <1>6, <1>7 DEF IInv

(* A minute passes: what was over is over. *)
LEMMA MinuteKeeps == ASSUME IInv, Minute PROVE IInv'
<1>1. /\ now' = now + 1 /\ now < MaxNow
      /\ UNCHANGED <<dir, files, fileLogs, logs, last, since, missed, tasks, due, pending,
                     pc, seen, todo, file, crashes, written>>
  BY DEF Minute, fileVars, managerVars, taskVars, mainVars
<1>2. now \in Nat /\ now' \in Nat /\ now <= now' /\ seen \in Nat /\ last \in Int
      /\ now' \in 0 .. MaxNow
  BY <1>1, TimesType
<1>3. \A p \in Paths : Period(p, now) \in Nat /\ Period(p, now') \in Nat
                       /\ Period(p, now) <= Period(p, now')
  BY <1>2, PeriodMonotonic
<1>4. TypeOK'
  BY <1>1, <1>2 DEF IInv, TypeOK
<1>5. ClockInv'
  BY <1>1, <1>2 DEF IInv, ClockInv, LogsLocked
<1>6. NamesInv'
  <2>1. dir' = [n \in DOMAIN dir' |-> dir'[n]] /\ DOMAIN dir' \subseteq Names
    BY <1>1 DEF IInv, NamesInv
  <2>2. ASSUME NEW p \in Paths, NEW q \in Nat, <<p, q>> \in DOMAIN dir'
        PROVE  q < Period(p, now')
    BY <1>1, <1>3, <2>2 DEF IInv, NamesInv
  <2>3. \A p \in Paths : Period(p, now') = Period(p, now)'
    BY DEF Period
  <2> QED
    BY <2>1, <2>2, <2>3 DEF NamesInv
<1>7. RenameInv' /\ MissedInv'
  BY <1>1 DEF IInv, RenameInv, MissedInv, Period, Changes, Field, LogsLocked
<1>8. LogsInv'
  BY <1>1 DEF IInv, LogsInv, Changes, Field, Current, LogsLocked
<1>9. FdInv' /\ WritesToItsFile' /\ NoLineLost' /\ TasksInv'
  BY <1>1 DEF IInv, FdInv, WritesToItsFile, NoLineLost, Current, TasksInv, TasksStable, TasksLocked
<1>10. LinesInv'
  <2> SUFFICES ASSUME NEW i \in DOMAIN files', NEW line \in files'[i]
               PROVE  line.at <= now'
    BY DEF LinesInv
  <2> QED
    BY <1>1, <1>2, FilesType
<1>11. CurrentInv' /\ Filed'
  BY <1>1 DEF IInv, CurrentInv, Filed, From, Current, Period, LogsLocked
<1> QED
  BY <1>4, <1>5, <1>6, <1>7, <1>8, <1>9, <1>10, <1>11 DEF IInv

(* A crash: the files are as they were, and the process is gone. *)
LEMMA CrashKeeps == ASSUME IInv, Crash PROVE IInv'
<1>1. /\ UNCHANGED <<dir, files, now, written>> /\ crashes < MaxCrashes /\ crashes' = crashes + 1
      /\ fileLogs' = <<>> /\ logs' = [p \in Paths |-> 0]
      /\ last' = -1 /\ since' = -1 /\ missed' = {}
      /\ tasks' = {} /\ due' = [t \in Tasks |-> FALSE] /\ pending' = {}
      /\ pc' = "down" /\ seen' = 0 /\ todo' = {} /\ file' = 0
  BY DEF Crash, fileVars
<1>2. TypeOK'
  <2>1. fileLogs' \in Seq([path : Paths, fd : DOMAIN files']) /\ Len(fileLogs') = 0
        /\ due' \in [Tasks -> BOOLEAN]
    BY <1>1
  <2>2. crashes' \in 0 .. MaxCrashes /\ seen' \in 0 .. MaxNow /\ -1 \in -1 .. MaxNow
    BY <1>1, BoundsAssumption DEF IInv, TypeOK
  <2> QED
    BY <1>1, <2>1, <2>2 DEF IInv, TypeOK, Pc
<1>3. ClockInv'
  BY <1>1, TimesType DEF ClockInv, LogsLocked
<1>4. NamesInv' /\ NoLineLost' /\ LinesInv'
  BY <1>1 DEF IInv, NamesInv, NoLineLost, LinesInv, Period
<1>5. LogsInv' /\ FdInv' /\ WritesToItsFile'
  BY <1>1 DEF LogsInv, FdInv, WritesToItsFile, LogsLocked
<1>6. RenameInv' /\ MissedInv' /\ CurrentInv' /\ Filed' /\ TasksInv'
  BY <1>1 DEF RenameInv, MissedInv, CurrentInv, Filed, TasksInv, TasksStable, LogsLocked
<1> QED
  BY <1>2, <1>3, <1>4, <1>5, <1>6 DEF IInv

(* What open does to the names and the files. *)
LEMMA OpenFileFacts ==
    ASSUME IInv, NEW p \in Paths, OpenFile(p)
    PROVE  /\ dir' = [n \in DOMAIN dir' |-> dir'[n]] /\ DOMAIN dir' = DOMAIN dir \cup {<<p>>}
           /\ \A n \in DOMAIN dir : dir'[n] = dir[n]
           /\ files' \in Seq(SUBSET Lines)
           /\ DOMAIN files \subseteq DOMAIN files'
           /\ \A i \in DOMAIN files : files'[i] = files[i]
           /\ \A i \in DOMAIN files' : i \in DOMAIN files \/ files'[i] = {}
           /\ \A n \in DOMAIN dir' : dir'[n] \in DOMAIN files'
           /\ ~Current(p) => files'[dir'[<<p>>]] = {}
           /\ fileLogs \in Seq([path : Paths, fd : DOMAIN files'])
<1>1. files \in Seq(SUBSET Lines) /\ dir = [n \in DOMAIN dir |-> dir[n]]
  BY DEF IInv, TypeOK, NamesInv
<1>2. CASE Current(p)
  <2>1. dir' = dir /\ files' = files
    BY <1>2 DEF OpenFile, fileVars
  <2> QED
    BY <1>1, <1>2, <2>1, FilesType DEF Current, IInv, TypeOK
<1>3. CASE ~Current(p)
  <2>1. files' = Append(files, {})
        /\ dir' = [n \in DOMAIN dir \cup {<<p>>} |-> IF n = <<p>> THEN Len(files) + 1 ELSE dir[n]]
        /\ <<p>> \notin DOMAIN dir
    BY <1>3 DEF OpenFile, Current
  <2>2. /\ files' \in Seq(SUBSET Lines) /\ Len(files') = Len(files) + 1
        /\ DOMAIN files' = 1 .. Len(files) + 1
        /\ \A i \in DOMAIN files : files'[i] = files[i]
        /\ files'[Len(files) + 1] = {}
    <3> DEFINE S == SUBSET Lines
    <3>1. {} \in S /\ files \in Seq(S)
      BY <1>1
    <3> HIDE DEF S
    <3>2. /\ Append(files, {}) \in Seq(S) /\ Len(Append(files, {})) = Len(files) + 1
          /\ DOMAIN Append(files, {}) = 1 .. Len(files) + 1
          /\ \A i \in 1 .. Len(files) : Append(files, {})[i] = files[i]
          /\ Append(files, {})[Len(files) + 1] = {}
      BY <3>1
    <3> QED
      BY <2>1, <3>2, FilesType DEF S
  <2>3. DOMAIN files \subseteq DOMAIN files' /\ Len(files) + 1 \in DOMAIN files'
        /\ \A i \in DOMAIN files' : i \in DOMAIN files \/ files'[i] = {}
    <3>1. DOMAIN files = 1 .. Len(files) /\ Len(files) \in Nat
      BY FilesType
    <3>2. \A k \in Nat : 1 .. k + 1 = (1 .. k) \cup {k + 1}
      OBVIOUS
    <3>3. DOMAIN files' = DOMAIN files \cup {Len(files) + 1}
      BY <2>2, <3>1, <3>2, Zenon
    <3> QED
      BY <2>2, <3>3
  <2>4. /\ dir' = [n \in DOMAIN dir' |-> dir'[n]] /\ DOMAIN dir' = DOMAIN dir \cup {<<p>>}
        /\ \A n \in DOMAIN dir : dir'[n] = dir[n]
        /\ dir'[<<p>>] = Len(files) + 1
    BY <2>1
  <2>5. \A n \in DOMAIN dir' : dir'[n] \in DOMAIN files'
    BY <2>3, <2>4, FilesType
  <2>6. fileLogs \in Seq([path : Paths, fd : DOMAIN files'])
    <3> DEFINE R == [path : Paths, fd : DOMAIN files]  S == [path : Paths, fd : DOMAIN files']
    <3>1. fileLogs \in Seq(R) /\ R \subseteq S
      BY <2>3 DEF IInv, TypeOK
    <3> HIDE DEF R, S
    <3>2. fileLogs \in Seq(S)
      BY <3>1
    <3> QED
      BY <3>2 DEF S
  <2> QED
    BY <2>2, <2>3, <2>4, <2>5, <2>6
<1> QED
  BY <1>2, <1>3

(* Opening a file disturbs no name, no line and no time. *)
LEMMA OpenFileKeeps ==
    ASSUME IInv, NEW p \in Paths, OpenFile(p), UNCHANGED <<now, written>>
    PROVE  NamesInv' /\ NoLineLost' /\ LinesInv'
<1>0. DOMAIN dir' = DOMAIN dir \cup {<<p>>}
  BY OpenFileFacts
<1>1. NamesInv'
  <2>1. DOMAIN dir' \subseteq Names
    <3>1. DOMAIN dir' = DOMAIN dir \cup {<<p>>} /\ DOMAIN dir \subseteq Names
      BY OpenFileFacts DEF IInv, NamesInv
    <3>2. <<p>> \in Names
      BY DEF Names
    <3> QED
      BY <3>1, <3>2
  <2>2. ASSUME NEW r \in Paths, NEW q \in Nat, <<r, q>> \in DOMAIN dir'
        PROVE  q < Period(r, now)'
    <3>1. <<r, q>> \in DOMAIN dir
      BY <1>0, <2>2, NameFacts
    <3> QED
      BY <3>1 DEF IInv, NamesInv, Period
  <2> QED
    BY <2>1, <2>2, OpenFileFacts DEF NamesInv
<1>2. NoLineLost'
  <2> SUFFICES ASSUME NEW line \in written
               PROVE  \E n \in DOMAIN dir' : n[1] = line.log /\ line \in files'[dir'[n]]
    BY DEF NoLineLost
  <2>1. PICK n \in DOMAIN dir : n[1] = line.log /\ line \in files[dir[n]]
    BY DEF IInv, NoLineLost
  <2> QED
    BY <2>1, OpenFileFacts, FilesType
<1>3. LinesInv'
  BY OpenFileFacts DEF IInv, LinesInv
<1> QED
  BY <1>1, <1>2, <1>3

(* Another log is opened, while mtx_ is free. *)
LEMMA OpenLogKeeps ==
    ASSUME IInv, NEW p \in Paths, OpenLog(p), logs[p] = 0, ~LogsLocked,
           UNCHANGED <<last, since, missed, seen, todo, file, now, crashes, written>>,
           (pc' = pc /\ pc # "down") \/ (pc = "down" /\ pc' = "idle"),
           tasks' \subseteq Tasks, due' \in [Tasks -> BOOLEAN], TasksInv'
    PROVE  IInv'
<1> DEFINE k == Len(fileLogs) + 1
<1>1. OpenFile(p) /\ fileLogs' = Append(fileLogs, [path |-> p, fd |-> dir'[<<p>>]])
      /\ logs' = [logs EXCEPT ![p] = k]
  BY DEF OpenLog
<1>2. /\ pc' \in Pc /\ pc' # "down" /\ ~LogsLocked' /\ (pc' = "lock" <=> pc = "lock")
      /\ pc \notin {"reopen", "dup2"} /\ pc' \notin {"reopen", "dup2"}
      /\ todo = {} /\ file = 0 /\ todo' = {} /\ file' = 0
  BY DEF IInv, TypeOK, LogsInv, Pc, LogsLocked
<1>3. /\ k \in Nat /\ k # 0 /\ k \notin DOMAIN fileLogs
      /\ fileLogs' \in Seq([path : Paths, fd : DOMAIN files'])
      /\ Len(fileLogs') = k /\ DOMAIN fileLogs' = DOMAIN fileLogs \cup {k}
      /\ \A l \in DOMAIN fileLogs : fileLogs'[l] = fileLogs[l]
      /\ fileLogs'[k].path = p /\ fileLogs'[k].fd = dir'[<<p>>]
  <2> DEFINE S == [path : Paths, fd : DOMAIN files']  x == [path |-> p, fd |-> dir'[<<p>>]]
  <2>1. x \in S /\ x.path = p /\ x.fd = dir'[<<p>>] /\ fileLogs \in Seq(S)
    BY <1>1, OpenFileFacts
  <2>2. fileLogs' = Append(fileLogs, x)
    BY <1>1
  <2> HIDE DEF S, x
  <2>3. /\ fileLogs' \in Seq(S) /\ Len(fileLogs') = Len(fileLogs) + 1
        /\ DOMAIN fileLogs' = 1 .. Len(fileLogs) + 1
        /\ \A l \in 1 .. Len(fileLogs) : fileLogs'[l] = fileLogs[l]
        /\ fileLogs'[Len(fileLogs) + 1] = x
    BY <2>1, <2>2
  <2>4. DOMAIN fileLogs = 1 .. Len(fileLogs) /\ Len(fileLogs) \in Nat
    BY FilesType
  <2> QED
    BY <2>1, <2>3, <2>4 DEF S
<1>4. /\ logs' \in [Paths -> 0 .. k] /\ logs'[p] = k
      /\ \A r \in Paths \ {p} : logs'[r] = logs[r]
      /\ \A r \in Paths \ {p} : logs[r] # 0 => logs[r] \in DOMAIN fileLogs
  <2>1. logs \in [Paths -> 0 .. Len(fileLogs)] /\ Len(fileLogs) \in Nat
    BY FilesType DEF IInv, TypeOK
  <2> QED
    BY <1>1, <2>1, FilesType
<1> HIDE DEF k
<1>0. DOMAIN dir' = DOMAIN dir \cup {<<p>>} /\ (\A n \in DOMAIN dir : dir'[n] = dir[n])
  BY <1>1, OpenFileFacts
<1>5. TypeOK'
  <2>1. \A n \in DOMAIN dir' : dir'[n] \in DOMAIN files'
    BY <1>1, OpenFileFacts
  <2>2. files' \in Seq(SUBSET Lines)
    BY <1>1, OpenFileFacts
  <2>3. 0 \in 0 .. k
    BY <1>3
  <2> QED
    BY <1>2, <1>3, <1>4, <2>1, <2>2, <2>3 DEF IInv, TypeOK
<1>6. NamesInv' /\ NoLineLost' /\ LinesInv'
  BY <1>1, OpenFileKeeps
<1>7. ClockInv'
  BY <1>2 DEF IInv, ClockInv
<1>8. RenameInv'
  <2> SUFFICES ASSUME last # -1, NEW r \in Paths, NEW q \in Nat, <<r, q>> \in DOMAIN dir'
               PROVE  q < Period(r, last)
    BY DEF RenameInv, Period
  <2>1. <<r, q>> \in DOMAIN dir
    BY <1>0, NameFacts
  <2> QED
    BY <2>1 DEF IInv, RenameInv
<1>9. LogsInv'
  <2>1. ASSUME NEW r \in Paths, logs'[r] # 0 PROVE fileLogs'[logs'[r]].path = r
    BY <1>3, <1>4, <2>1 DEF IInv, LogsInv
  <2> QED
    BY <1>2, <2>1 DEF LogsInv
<1>10. FdInv'
  <2> SUFFICES ASSUME NEW l \in DOMAIN fileLogs'
               PROVE  \E n \in DOMAIN dir' : n[1] = fileLogs'[l].path /\ dir'[n] = fileLogs'[l].fd
    BY DEF FdInv
  <2>1. CASE l = k
    <3>1. <<p>> \in DOMAIN dir' /\ <<p>>[1] = p
      BY <1>0, NameFacts
    <3> QED
      BY <1>3, <2>1, <3>1
  <2>2. CASE l \in DOMAIN fileLogs
    <3>1. PICK n \in DOMAIN dir : n[1] = fileLogs[l].path /\ dir[n] = fileLogs[l].fd
      BY <2>2 DEF IInv, FdInv
    <3>2. n \in DOMAIN dir' /\ dir'[n] = dir[n]
      BY <1>1, OpenFileFacts
    <3> QED
      BY <1>3, <2>2, <3>1, <3>2
  <2> QED
    BY <1>3, <2>1, <2>2
<1>11. WritesToItsFile'
  <2> SUFFICES ASSUME NEW r \in Paths, logs'[r] # 0, <<r>> \in DOMAIN dir'
               PROVE  fileLogs'[logs'[r]].fd = dir'[<<r>>]
    BY DEF WritesToItsFile, Current
  <2>1. CASE r = p
    BY <1>3, <1>4, <2>1
  <2>2. CASE r # p
    <3>1. <<r>> \in DOMAIN dir /\ dir'[<<r>>] = dir[<<r>>]
      BY <1>0, <2>2, NameFacts
    <3> QED
      BY <1>2, <1>3, <1>4, <2>2, <3>1 DEF IInv, WritesToItsFile, Current
  <2> QED
    BY <2>1, <2>2
<1>12. MissedInv'
  BY <1>2 DEF IInv, MissedInv, Changes, Field, Period
<1>13. CurrentInv'
  <2> SUFFICES ASSUME since # -1, NEW r \in Paths \ missed, <<r>> \in DOMAIN dir',
                      NEW line \in files'[dir'[<<r>>]], line.at >= since
               PROVE  Period(r, line.at) >= Period(r, last)
    BY <1>2 DEF CurrentInv, Current, From, Period
  <2>1. CASE <<r>> \in DOMAIN dir
    <3>1. dir'[<<r>>] = dir[<<r>>] /\ files'[dir[<<r>>]] = files[dir[<<r>>]]
      BY <1>1, <2>1, OpenFileFacts, FilesType
    <3> QED
      BY <2>1, <3>1 DEF IInv, CurrentInv, Current, From
  <2>2. CASE <<r>> \notin DOMAIN dir
    <3>1. r = p /\ ~Current(p)
      BY <1>0, <2>2, NameFacts DEF Current
    <3> QED
      BY <1>1, <3>1, OpenFileFacts
  <2> QED
    BY <2>1, <2>2
<1>14. Filed'
  <2> SUFFICES ASSUME since # -1, NEW r \in Paths \ missed, NEW q \in Nat, <<r, q>> \in DOMAIN dir',
                      NEW line \in files'[dir'[<<r, q>>]], line.at >= since
               PROVE  Period(r, line.at) >= q
    BY DEF Filed, Period
  <2>1. <<r, q>> \in DOMAIN dir
    BY <1>0, NameFacts
  <2>2. dir'[<<r, q>>] = dir[<<r, q>>] /\ files'[dir[<<r, q>>]] = files[dir[<<r, q>>]]
    BY <1>1, <2>1, OpenFileFacts, FilesType
  <2> QED
    BY <2>1, <2>2 DEF IInv, Filed
<1> QED
  BY <1>5, <1>6, <1>7, <1>8, <1>9, <1>10, <1>11, <1>12, <1>13, <1>14 DEF IInv

(* A log is taken out of the table; it still has its file. *)
LEMMA RemoveFileLogKeeps ==
    ASSUME IInv, NEW l \in DOMAIN fileLogs, RemoveFileLog(l) PROVE IInv'
<1> DEFINE p == fileLogs[l].path
<1>1. /\ logs' = [logs EXCEPT ![p] = 0] /\ ~LogsLocked
      /\ UNCHANGED <<dir, files, fileLogs, last, since, missed, tasks, due, pending, pc, seen,
                     todo, file, now, crashes, written>>
  BY DEF RemoveFileLog, fileVars, taskVars, mainVars
<1>2. /\ p \in Paths /\ logs' \in [Paths -> 0 .. Len(fileLogs)] /\ logs'[p] = 0
      /\ \A r \in Paths \ {p} : logs'[r] = logs[r]
  <2>1. logs \in [Paths -> 0 .. Len(fileLogs)] /\ Len(fileLogs) \in Nat /\ p \in Paths
    BY FilesType DEF IInv, TypeOK
  <2> QED
    BY <1>1, <2>1
<1>3. todo = {} /\ file = 0 /\ ~LogsLocked' /\ pc \notin {"reopen", "dup2"}
  BY <1>1 DEF IInv, LogsInv, LogsLocked
<1> HIDE DEF p
<1>4. TypeOK' /\ ClockInv' /\ NamesInv'
  BY <1>1, <1>2 DEF IInv, TypeOK, ClockInv, NamesInv, LogsLocked, Period
<1>5. RenameInv' /\ MissedInv'
  BY <1>1 DEF IInv, RenameInv, MissedInv, LogsLocked, Period, Changes, Field
<1>6. LogsInv'
  BY <1>1, <1>2, <1>3 DEF IInv, LogsInv
<1>7. FdInv' /\ WritesToItsFile' /\ NoLineLost' /\ LinesInv' /\ TasksInv'
  BY <1>1, <1>2 DEF IInv, FdInv, WritesToItsFile, NoLineLost, LinesInv, TasksInv, TasksStable,
                    TasksLocked, Current
<1>8. CurrentInv' /\ Filed'
  BY <1>1 DEF IInv, CurrentInv, Filed, From, LogsLocked, Current, Period
<1> QED
  BY <1>4, <1>5, <1>6, <1>7, <1>8 DEF IInv

(* A line is written now, to the file of its log: it is of no period that  *)
(* is over.                                                                *)
LEMMA WriteLogKeeps ==
    ASSUME IInv, NEW l \in DOMAIN fileLogs, WriteLog(l) PROVE IInv'
<1> DEFINE new == [log |-> fileLogs[l].path, at |-> now]
           f == fileLogs[l].fd
<1>1. /\ written' = written \cup {new} /\ files' = [files EXCEPT ![f] = @ \cup {new}]
      /\ UNCHANGED <<dir, fileLogs, logs, last, since, missed, tasks, due, pending, pc, seen,
                     todo, file, now, crashes>>
  BY DEF WriteLog, managerVars, taskVars, mainVars
<1>2. /\ f \in DOMAIN files /\ new \in Lines
      /\ new.log = fileLogs[l].path /\ new.at = now
  <2>1. f \in DOMAIN files /\ fileLogs[l].path \in Paths /\ now \in 0 .. MaxNow
    BY FilesType DEF IInv, TypeOK
  <2> QED
    BY <2>1 DEF Lines
<1> HIDE DEF new, f
<1>3. /\ DOMAIN files' = DOMAIN files
      /\ files'[f] = files[f] \cup {new}
      /\ \A i \in DOMAIN files : i # f => files'[i] = files[i]
  BY <1>1, <1>2, FilesType DEF IInv, TypeOK
<1>4. \A i \in DOMAIN files : \A line \in files'[i] : line \in files[i] \/ line = new
  BY <1>3
<1>5. files' \in Seq(SUBSET Lines)
  <2> DEFINE S == SUBSET Lines  x == files[f] \cup {new}
  <2>1. files \in Seq(S) /\ x \in S /\ files' = [files EXCEPT ![f] = x]
    BY <1>1, <1>2, FilesType DEF IInv, TypeOK
  <2> HIDE DEF S, x
  <2>2. files' \in Seq(S)
    BY <1>2, <2>1
  <2> QED
    BY <2>2 DEF S
<1>6. TypeOK'
  BY <1>1, <1>2, <1>3, <1>5 DEF IInv, TypeOK
<1>7. ClockInv' /\ NamesInv' /\ RenameInv' /\ MissedInv'
  BY <1>1 DEF IInv, ClockInv, NamesInv, RenameInv, MissedInv, LogsLocked, Period, Changes, Field
<1>8. LogsInv' /\ FdInv' /\ WritesToItsFile' /\ TasksInv'
  BY <1>1 DEF IInv, LogsInv, FdInv, WritesToItsFile, TasksInv, TasksStable, TasksLocked,
              LogsLocked, Current, Changes, Field
<1>9. NoLineLost'
  <2> SUFFICES ASSUME NEW line \in written'
               PROVE  \E n \in DOMAIN dir' : n[1] = line.log /\ line \in files'[dir'[n]]
    BY DEF NoLineLost
  <2>1. CASE line = new
    <3>1. PICK n \in DOMAIN dir : n[1] = fileLogs[l].path /\ dir[n] = f
      BY DEF IInv, FdInv, f
    <3> QED
      BY <1>1, <1>2, <1>3, <2>1, <3>1
  <2>2. CASE line \in written
    <3>1. PICK n \in DOMAIN dir : n[1] = line.log /\ line \in files[dir[n]]
      BY <2>2 DEF IInv, NoLineLost
    <3>2. line \in files'[dir[n]]
      BY <1>3, <3>1, FilesType
    <3> QED
      BY <1>1, <3>1, <3>2
  <2> QED
    BY <1>1, <2>1, <2>2
<1>10. LinesInv'
  <2> SUFFICES ASSUME NEW i \in DOMAIN files, NEW line \in files'[i] PROVE line.at <= now
    BY <1>1, <1>3 DEF LinesInv
  <2>1. line \in files[i] \/ line = new
    BY <1>4
  <2> QED
    BY <1>2, <2>1, TimesType DEF IInv, LinesInv
<1>11. CurrentInv'
  <2> SUFFICES ASSUME since # -1, NEW p \in Paths \ missed, <<p>> \in DOMAIN dir,
                      NEW line \in files'[dir[<<p>>]], line.at >= since
               PROVE  Period(p, line.at) >= From(p)
    BY <1>1 DEF CurrentInv, Current, From, Period, LogsLocked
  <2>1. line \in files[dir[<<p>>]] \/ line = new
    BY <1>4, FilesType
  <2>2. CASE line \in files[dir[<<p>>]]
    BY <2>2 DEF IInv, CurrentInv, Current
  <2>3. CASE line = new
    <3>1. last \in Nat /\ seen \in Nat /\ now \in Nat /\ last <= now /\ seen <= now
      BY TimesType DEF IInv, ClockInv
    <3>2. Period(p, last) <= Period(p, now) /\ Period(p, seen) <= Period(p, now)
          /\ Period(p, last) \in Nat /\ Period(p, seen) \in Nat /\ Period(p, now) \in Nat
      BY <3>1, PeriodMonotonic
    <3>3. line.at = now
      BY <1>2, <2>3
    <3> QED
      BY <3>2, <3>3 DEF From
  <2> QED
    BY <2>1, <2>2, <2>3
<1>12. Filed'
  <2> SUFFICES ASSUME since # -1, NEW p \in Paths \ missed, NEW q \in Nat, <<p, q>> \in DOMAIN dir,
                      NEW line \in files'[dir[<<p, q>>]], line.at >= since
               PROVE  Period(p, line.at) >= q
    BY <1>1 DEF Filed, Period
  <2>1. line \in files[dir[<<p, q>>]] \/ line = new
    BY <1>4, FilesType
  <2>2. CASE line \in files[dir[<<p, q>>]]
    BY <2>2 DEF IInv, Filed
  <2>3. CASE line = new
    <3>1. line.at = now
      BY <1>2, <2>3
    <3>2. Period(p, now) \in Nat /\ q < Period(p, now)
      BY TimesType, PeriodMonotonic DEF IInv, NamesInv
    <3> QED
      BY <3>1, <3>2
  <2> QED
    BY <2>1, <2>2, <2>3
<1> QED
  BY <1>6, <1>7, <1>8, <1>9, <1>10, <1>11, <1>12 DEF IInv

(* OnCheck: the first check only remembers the time; a later one goes on   *)
(* if a field has changed.                                                 *)
LEMMA OnCheckKeeps == ASSUME IInv, OnCheck PROVE IInv'
<1>1. /\ pc = "work"
      /\ UNCHANGED <<fileLogs, logs, tasks, due, pending, todo, file, dir, files, now,
                     crashes, written>>
  BY DEF OnCheck, taskVars, fileVars
<1>2. /\ ~LogsLocked /\ todo = {} /\ file = 0 /\ pc # "down"
      /\ now \in Nat /\ now \in 0 .. MaxNow /\ 0 \in 0 .. MaxNow
  BY <1>1, TimesType DEF IInv, TypeOK, LogsInv, LogsLocked
<1>3. pc' \in {"ran", "lock"} /\ ~LogsLocked' /\ TasksLocked' /\ TasksLocked
  BY <1>1 DEF OnCheck, LogsLocked, TasksLocked
<1>4. NamesInv' /\ FdInv' /\ WritesToItsFile' /\ NoLineLost' /\ LinesInv' /\ TasksInv'
  BY <1>1, <1>3 DEF IInv, NamesInv, FdInv, WritesToItsFile, NoLineLost, LinesInv, TasksInv,
                    TasksStable, Current, Period
<1>5. LogsInv'
  BY <1>1, <1>2, <1>3 DEF IInv, LogsInv
<1>6. CASE last = -1
  <2>1. last' = now /\ since' = now /\ seen' = 0 /\ pc' = "ran" /\ missed' = missed
    BY <1>6 DEF OnCheck
  <2>2. TypeOK' /\ ClockInv' /\ MissedInv'
    BY <1>1, <1>2, <1>3, <2>1 DEF IInv, TypeOK, Pc, ClockInv, MissedInv
  <2>3. RenameInv'
    BY <1>1, <2>1 DEF IInv, NamesInv, RenameInv, Period
  <2>4. \A i \in DOMAIN files : \A line \in files[i] : line.at >= now => line.at = now
    BY <1>2, FilesType
  <2>5. \A p \in Paths : Period(p, now) \in Nat
    BY <1>2, PeriodMonotonic
  <2>6. CurrentInv'
    <3> SUFFICES ASSUME NEW p \in Paths, <<p>> \in DOMAIN dir,
                        NEW line \in files[dir[<<p>>]], line.at >= now
                 PROVE  Period(p, line.at) >= Period(p, now)
      BY <1>1, <1>3, <2>1 DEF CurrentInv, Current, From, Period
    <3>1. line.at = now
      BY <2>4, FilesType
    <3> QED
      BY <2>5, <3>1
  <2>7. Filed'
    <3> SUFFICES ASSUME NEW p \in Paths, NEW q \in Nat, <<p, q>> \in DOMAIN dir,
                        NEW line \in files[dir[<<p, q>>]], line.at >= now
                 PROVE  Period(p, line.at) >= q
      BY <1>1, <2>1 DEF Filed, Period
    <3>1. line.at = now
      BY <2>4, FilesType
    <3>2. q < Period(p, now)
      BY DEF IInv, NamesInv
    <3> QED
      BY <2>5, <3>1, <3>2
  <2> QED
    BY <1>4, <1>5, <2>2, <2>3, <2>6, <2>7 DEF IInv
<1>7. CASE last # -1
  <2>1. /\ pc' = IF Changes(now) = {} THEN "ran" ELSE "lock"
        /\ seen' = IF Changes(now) = {} THEN 0 ELSE now
        /\ missed' = missed \cup {p \in Paths : /\ Period(p, now) # Period(p, last)
                                                /\ RotateType[p] \notin Changes(now)}
        /\ last' = last /\ since' = since
    BY <1>7 DEF OnCheck
  <2>2. seen' \in {0, now} /\ missed \subseteq missed' /\ missed' \subseteq Paths
        /\ (pc' = "lock" => seen' = now)
    BY <2>1 DEF IInv, TypeOK
  <2>3. TypeOK'
    BY <1>1, <1>2, <1>3, <2>1, <2>2 DEF IInv, TypeOK, Pc
  <2>4. ClockInv'
    BY <1>1, <1>2, <1>3, <1>7, <2>1, <2>2, TimesType DEF IInv, ClockInv
  <2>5. RenameInv'
    BY <1>1, <1>2, <1>3, <2>1 DEF IInv, RenameInv, Period
  <2>6. MissedInv'
    <3> SUFFICES ASSUME pc' = "lock", NEW p \in Paths \ missed', RotateType[p] \notin Changes(seen)'
                 PROVE  Period(p, seen)' = Period(p, last)'
      BY <1>3 DEF MissedInv
    <3>1. seen' = now
      BY <2>2
    <3>2. Changes(seen)' = Changes(now) /\ Period(p, seen)' = Period(p, now)
          /\ Period(p, last)' = Period(p, last)
      BY <2>1, <3>1 DEF Changes, Field, Period
    <3> QED
      BY <2>1, <3>2
  <2>7. CurrentInv' /\ Filed'
    BY <1>1, <1>2, <1>3, <2>1, <2>2 DEF IInv, CurrentInv, Filed, From, Current, Period
  <2> QED
    BY <1>4, <1>5, <2>3, <2>4, <2>5, <2>6, <2>7 DEF IInv
<1> QED
  BY <1>6, <1>7

(* OnCheck takes mtx_ and finds the logs to rotate.  A path of them that   *)
(* has a file and no log is missed.                                        *)
LEMMA LockLogsKeeps == ASSUME IInv, LockLogs PROVE IInv'
<1> DEFINE changed == {p \in Paths : RotateType[p] \in Changes(seen)}
<1>1. /\ pc = "lock" /\ pc' = "rotate"
      /\ todo' = {logs[p] : p \in changed} \ {0}
      /\ missed' = missed \cup {p \in changed : logs[p] = 0 /\ Current(p)}
      /\ UNCHANGED <<seen, file, fileLogs, logs, last, since, tasks, due, pending, dir, files,
                     now, crashes, written>>
  BY DEF LockLogs, taskVars, fileVars
<1>2. ~LogsLocked /\ LogsLocked' /\ todo = {} /\ file = 0
  BY <1>1 DEF IInv, LogsInv, LogsLocked
<1>3. /\ changed \subseteq Paths
      /\ \A p \in changed : RotateType[p] \in Changes(seen)
      /\ \A p \in Paths \ changed : RotateType[p] \notin Changes(seen)
  OBVIOUS
<1> HIDE DEF changed
<1>4. \A l \in todo' : /\ l \in DOMAIN fileLogs /\ l # 0
                       /\ fileLogs[l].path \in changed /\ logs[fileLogs[l].path] = l
  BY <1>1, <1>3, FilesType DEF IInv, LogsInv
<1>5. missed \subseteq missed' /\ missed' \subseteq Paths
  BY <1>1, <1>3 DEF IInv, TypeOK
<1>6. TypeOK'
  BY <1>1, <1>4, <1>5 DEF IInv, TypeOK, Pc
<1>7. ClockInv' /\ NamesInv'
  BY <1>1, <1>2 DEF IInv, ClockInv, NamesInv, Period
<1>8. RenameInv'
  BY <1>1, <1>2 DEF IInv, RenameInv, Period
<1>9. LogsInv'
  <2>1. \A l \in todo' : RotateType[fileLogs[l].path] \in Changes(seen)
    BY <1>3, <1>4
  <2>2. Changes(seen)' = Changes(seen)
    BY <1>1 DEF Changes, Field
  <2> QED
    BY <1>1, <1>2, <1>4, <2>1, <2>2 DEF IInv, LogsInv
<1>10. FdInv' /\ WritesToItsFile' /\ NoLineLost' /\ LinesInv' /\ TasksInv'
  BY <1>1 DEF IInv, FdInv, WritesToItsFile, NoLineLost, LinesInv, TasksInv, TasksStable,
              TasksLocked, Current
<1>11. MissedInv'
  <2>1. Changes(seen)' = Changes(seen)
    BY <1>1 DEF Changes, Field
  <2> QED
    BY <1>1, <1>5, <2>1 DEF IInv, MissedInv, Period
<1>12. CurrentInv'
  <2> SUFFICES ASSUME since # -1, NEW p \in Paths \ missed', <<p>> \in DOMAIN dir,
                      NEW line \in files[dir[<<p>>]], line.at >= since
               PROVE  Period(p, line.at) >= From(p)'
    BY <1>1 DEF CurrentInv, Current, Period
  <2>1. Period(p, line.at) >= Period(p, last)
    BY <1>2, <1>5 DEF IInv, CurrentInv, From, Current
  <2>2. From(p)' = IF logs[p] \notin todo' THEN Period(p, seen) ELSE Period(p, last)
    BY <1>1, <1>2 DEF From, Period
  <2>3. CASE p \in changed
    <3>1. logs[p] # 0
      BY <1>1, <2>3 DEF Current
    <3>2. logs[p] \in todo'
      BY <1>1, <2>3, <3>1
    <3> QED
      BY <2>1, <2>2, <3>2
  <2>4. CASE p \notin changed
    <3>1. Period(p, seen) = Period(p, last)
      BY <1>1, <1>3, <1>5, <2>4 DEF IInv, MissedInv
    <3> QED
      BY <2>1, <2>2, <3>1
  <2> QED
    BY <2>3, <2>4
<1>13. Filed'
  BY <1>1, <1>5 DEF IInv, Filed, Period
<1> QED
  BY <1>6, <1>7, <1>8, <1>9, <1>10, <1>11, <1>12, <1>13 DEF IInv

(* The facts about a log that is to be rotated. *)
LEMMA TodoFacts ==
    ASSUME IInv, pc = "rotate", NEW l \in todo
    PROVE  /\ LogsLocked /\ file = 0 /\ l \in DOMAIN fileLogs /\ l \in Nat \ {0}
           /\ fileLogs[l].path \in Paths /\ logs[fileLogs[l].path] = l
           /\ \A p \in Paths : p # fileLogs[l].path => logs[p] # l
           /\ last \in Nat /\ seen \in Nat
           /\ Period(fileLogs[l].path, last) \in Nat /\ Period(fileLogs[l].path, seen) \in Nat
           /\ Period(fileLogs[l].path, last) < Period(fileLogs[l].path, seen)
<1>1. /\ LogsLocked /\ file = 0 /\ l \in DOMAIN fileLogs /\ l \in Nat \ {0}
      /\ fileLogs[l].path \in Paths
  BY FilesType DEF IInv, TypeOK, LogsInv, LogsLocked
<1>2. logs[fileLogs[l].path] = l /\ RotateType[fileLogs[l].path] \in Changes(seen)
  BY <1>1 DEF IInv, LogsInv
<1>3. \A p \in Paths : p # fileLogs[l].path => logs[p] # l
  BY <1>1 DEF IInv, LogsInv
<1>4. last \in Nat /\ seen \in Nat /\ last <= seen
  BY <1>1, TimesType DEF IInv, ClockInv
<1> DEFINE p == fileLogs[l].path
<1>5. p \in Paths /\ RotateType[p] \in Changes(seen)
  BY <1>1, <1>2
<1> HIDE DEF p
<1>6. Period(p, last) \in Nat /\ Period(p, seen) \in Nat /\ Period(p, last) <= Period(p, seen)
  BY <1>4, <1>5, PeriodMonotonic
<1>7. Period(p, last) # Period(p, seen)
  BY <1>4, <1>5, FieldOfPeriod
<1>8. Period(p, last) < Period(p, seen)
  BY <1>6, <1>7
<1> QED
  BY <1>1, <1>2, <1>3, <1>4, <1>6, <1>8 DEF p

(* The steps after which l needs no rotation, as its file is empty or has  *)
(* no name.                                                                *)
LEMMA NothingToRotateKeeps ==
    ASSUME IInv, pc = "rotate", NEW l \in todo, todo' = todo \ {l},
           ~Current(fileLogs[l].path) \/ files[fileLogs[l].fd] = {},
           UNCHANGED <<pc, seen, file, taskVars, fileVars, managerVars, now, crashes, written>>
    PROVE  IInv'
<1> DEFINE r == fileLogs[l].path
<1>1. UNCHANGED <<pc, seen, file, tasks, due, pending, dir, files, fileLogs, logs, last, since,
                  missed, now, crashes, written>>
  BY DEF taskVars, fileVars, managerVars
<1>2. /\ LogsLocked /\ LogsLocked' /\ file = 0 /\ l # 0 /\ r \in Paths /\ logs[r] = l
      /\ \A p \in Paths : p # r => logs[p] # l
  BY <1>1, TodoFacts DEF LogsLocked
<1>3. TypeOK' /\ ClockInv' /\ NamesInv'
  BY <1>1, <1>2 DEF IInv, TypeOK, ClockInv, NamesInv, Period
<1>4. RenameInv' /\ MissedInv'
  BY <1>1, <1>2 DEF IInv, RenameInv, MissedInv, Period, Changes, Field
<1>5. LogsInv'
  <2>1. Changes(seen)' = Changes(seen)
    BY <1>1 DEF Changes, Field
  <2> QED
    BY <1>1, <1>2, <2>1 DEF IInv, LogsInv, Current
<1>6. FdInv' /\ WritesToItsFile' /\ NoLineLost' /\ LinesInv' /\ TasksInv' /\ Filed'
  BY <1>1 DEF IInv, FdInv, WritesToItsFile, NoLineLost, LinesInv, TasksInv, TasksStable,
              TasksLocked, Current, Filed, Period
<1>7. CurrentInv'
  <2> SUFFICES ASSUME since # -1, NEW p \in Paths \ missed, <<p>> \in DOMAIN dir,
                      NEW line \in files[dir[<<p>>]], line.at >= since
               PROVE  Period(p, line.at) >= From(p)'
    BY <1>1 DEF CurrentInv, Current, Period
  <2>1. Period(p, line.at) >= From(p)
    BY DEF IInv, CurrentInv, Current
  <2>2. CASE p = r
    <3>1. fileLogs[l].fd = dir[<<p>>]
      BY <1>2, <2>2 DEF IInv, WritesToItsFile, Current
    <3>2. files[fileLogs[l].fd] # {} /\ Current(fileLogs[l].path)
      BY <2>2, <3>1 DEF Current
    <3> QED
      BY <3>2
  <2>3. CASE p # r
    <3>1. logs[p] \in todo' <=> logs[p] \in todo
      BY <1>2, <2>3
    <3>2. From(p)' = From(p)
      BY <1>1, <1>2, <3>1 DEF From, Period
    <3> QED
      BY <2>1, <3>2
  <2> QED
    BY <2>2, <2>3
<1> QED
  BY <1>3, <1>4, <1>5, <1>6, <1>7 DEF IInv

(* The file gets the name of the period it was written in, which no file   *)
(* had.                                                                    *)
LEMMA RenameKeeps ==
    ASSUME IInv, NEW l \in todo, Rotate(l), Current(fileLogs[l].path) PROVE IInv'
<1> DEFINE r == fileLogs[l].path  from == <<r>>  to == <<r, Period(r, last)>>
<1>1. /\ pc = "rotate" /\ pc' = "reopen" /\ file' = l /\ todo' = todo \ {l}
      /\ dir' = [n \in (DOMAIN dir \ {from}) \cup {to} |-> IF n = to THEN dir[from] ELSE dir[n]]
      /\ UNCHANGED <<files, fileLogs, logs, last, since, missed, tasks, due, pending, seen, now,
                     crashes, written>>
  BY DEF Rotate, Renamed, RotatedName, taskVars, managerVars
<1>2. /\ LogsLocked /\ LogsLocked' /\ file = 0 /\ l # 0 /\ l \in DOMAIN fileLogs
      /\ r \in Paths /\ logs[r] = l
      /\ \A p \in Paths : p # r => logs[p] # l
      /\ last \in Nat /\ seen \in Nat /\ Period(r, last) \in Nat /\ Period(r, seen) \in Nat
      /\ Period(r, last) < Period(r, seen)
  BY <1>1, TodoFacts DEF LogsLocked
<1>3. /\ from \in DOMAIN dir /\ from # to /\ from[1] = r /\ to[1] = r
      /\ \A p \in Paths : <<p>> # to /\ (<<p>> = from <=> p = r)
      /\ \A p \in Paths : \A q \in Nat :
            <<p, q>> # from /\ (<<p, q>> = to <=> p = r /\ q = Period(r, last))
  BY NameFacts DEF Current
<1>4. to \notin DOMAIN dir
  BY <1>1, <1>2 DEF IInv, RenameInv
<1> HIDE DEF from, to
<1>5. /\ dir' = [n \in DOMAIN dir' |-> dir'[n]]
      /\ DOMAIN dir' = (DOMAIN dir \ {from}) \cup {to}
      /\ dir'[to] = dir[from]
      /\ \A n \in DOMAIN dir \ {from} : dir'[n] = dir[n]
  BY <1>1, <1>4
<1>6. \A p \in Paths : <<p>> \in DOMAIN dir' =>
          p # r /\ <<p>> \in DOMAIN dir /\ dir'[<<p>>] = dir[<<p>>]
  BY <1>3, <1>5
<1>7. \A p \in Paths : \A q \in Nat : <<p, q>> \in DOMAIN dir' =>
          \/ <<p, q>> \in DOMAIN dir /\ dir'[<<p, q>>] = dir[<<p, q>>]
          \/ p = r /\ q = Period(r, last) /\ dir'[<<p, q>>] = dir[from]
  BY <1>3, <1>5
<1>8. \A n \in DOMAIN dir : \E m \in DOMAIN dir' : m[1] = n[1] /\ dir'[m] = dir[n]
  BY <1>3, <1>5
<1>9. TypeOK'
  <2>1. \A n \in DOMAIN dir' : dir'[n] \in DOMAIN files'
    BY <1>1, <1>3, <1>5, FilesType
  <2>2. l \in 0 .. Len(fileLogs)
    BY <1>2, FilesType
  <2> QED
    BY <1>1, <2>1, <2>2 DEF IInv, TypeOK, Pc
<1>10. ClockInv'
  BY <1>1, <1>2 DEF IInv, ClockInv
<1>11. \A p \in Paths : /\ Period(p, now)' = Period(p, now) /\ Period(p, last)' = Period(p, last)
                        /\ Period(p, seen)' = Period(p, seen)
  BY <1>1 DEF Period
<1>12. NamesInv'
  <2>1. to \in Names
    BY <1>2 DEF Names, to
  <2>2. Period(r, seen) <= Period(r, now) /\ Period(r, now) \in Nat
    BY <1>2, TimesType, PeriodMonotonic DEF IInv, ClockInv
  <2>3. ASSUME NEW p \in Paths, NEW q \in Nat, <<p, q>> \in DOMAIN dir' PROVE q < Period(p, now)
    BY <1>2, <1>7, <2>2, <2>3 DEF IInv, NamesInv
  <2> QED
    BY <1>5, <1>11, <2>1, <2>3 DEF IInv, NamesInv
<1>13. RenameInv'
  <2> SUFFICES ASSUME NEW p \in Paths, NEW q \in Nat, <<p, q>> \in DOMAIN dir'
               PROVE  q < Period(p, last) \/ (q < Period(p, seen) /\ logs[p] \notin todo')
    BY <1>1, <1>2, <1>11 DEF RenameInv
  <2>1. CASE <<p, q>> \in DOMAIN dir
    <3>1. q < Period(p, last) \/ (q < Period(p, seen) /\ logs[p] \notin todo)
      BY <1>2, <2>1 DEF IInv, RenameInv
    <3> QED
      BY <1>1, <3>1
  <2>2. CASE p = r /\ q = Period(r, last)
    BY <1>1, <1>2, <2>2
  <2> QED
    BY <1>7, <2>1, <2>2
<1>14. LogsInv'
  <2>1. Changes(seen)' = Changes(seen)
    BY <1>1 DEF Changes, Field
  <2>2. ~Current(r)'
    <3>1. <<r>> \notin DOMAIN dir'
      BY <1>2, <1>6
    <3> QED
      BY <1>1, <3>1 DEF Current
  <2>3. fileLogs'[file'].path = r
    BY <1>1
  <2>4. ~Current(fileLogs[file].path)'
    BY <1>1, <2>2, <2>3
  <2>5. \A x \in todo' \cup {file'} : x # 0 => LogsLocked' /\ logs'[fileLogs'[x].path] = x
    <3>1. \A x \in todo : x # 0 => logs[fileLogs[x].path] = x
      BY DEF IInv, LogsInv
    <3>2. logs[fileLogs[l].path] = l
      BY <1>2
    <3> QED
      BY <1>1, <1>2, <3>1, <3>2
  <2>6. \A x \in todo' : RotateType[fileLogs'[x].path] \in Changes(seen)'
    BY <1>1, <2>1 DEF IInv, LogsInv
  <2>7. \A p \in Paths : logs'[p] # 0 => fileLogs'[logs'[p]].path = p
    BY <1>1 DEF IInv, LogsInv
  <2>8. /\ file' # 0 /\ file' \notin todo' /\ pc' = "reopen"
    BY <1>1, <1>2
  <2> QED
    BY <2>4, <2>5, <2>6, <2>7, <2>8 DEF LogsInv
<1>15. FdInv'
  <2> SUFFICES ASSUME NEW x \in DOMAIN fileLogs
               PROVE  \E m \in DOMAIN dir' : m[1] = fileLogs[x].path /\ dir'[m] = fileLogs[x].fd
    BY <1>1 DEF FdInv
  <2>1. PICK n \in DOMAIN dir : n[1] = fileLogs[x].path /\ dir[n] = fileLogs[x].fd
    BY DEF IInv, FdInv
  <2> QED
    BY <1>8, <2>1
<1>16. NoLineLost'
  <2> SUFFICES ASSUME NEW line \in written
               PROVE  \E m \in DOMAIN dir' : m[1] = line.log /\ line \in files[dir'[m]]
    BY <1>1 DEF NoLineLost
  <2>1. PICK n \in DOMAIN dir : n[1] = line.log /\ line \in files[dir[n]]
    BY DEF IInv, NoLineLost
  <2> QED
    BY <1>8, <2>1
<1>17. WritesToItsFile'
  BY <1>1, <1>2, <1>6 DEF IInv, WritesToItsFile, Current
<1>18. LinesInv' /\ TasksInv' /\ MissedInv'
  BY <1>1, <1>2, <1>11 DEF IInv, LinesInv, TasksInv, TasksStable, TasksLocked, MissedInv, Changes,
                           Field
<1>19. CurrentInv'
  <2> SUFFICES ASSUME since # -1, NEW p \in Paths \ missed, <<p>> \in DOMAIN dir',
                      NEW line \in files[dir'[<<p>>]], line.at >= since
               PROVE  Period(p, line.at) >= From(p)'
    BY <1>1 DEF CurrentInv, Current, Period
  <2>1. Period(p, line.at) >= From(p)
    BY <1>6 DEF IInv, CurrentInv, Current
  <2>2. logs[p] \in todo' <=> logs[p] \in todo
    BY <1>1, <1>2, <1>6
  <2>3. From(p)' = From(p)
    BY <1>1, <1>2, <1>11, <2>2 DEF From
  <2> QED
    BY <2>1, <2>3
<1>20. Filed'
  <2> SUFFICES ASSUME since # -1, NEW p \in Paths \ missed, NEW q \in Nat, <<p, q>> \in DOMAIN dir',
                      NEW line \in files[dir'[<<p, q>>]], line.at >= since
               PROVE  Period(p, line.at) >= q
    BY <1>1 DEF Filed, Period
  <2>1. CASE <<p, q>> \in DOMAIN dir /\ dir'[<<p, q>>] = dir[<<p, q>>]
    BY <2>1 DEF IInv, Filed
  <2>2. CASE p = r /\ q = Period(r, last) /\ dir'[<<p, q>>] = dir[from]
    <3>1. <<p>> \in DOMAIN dir /\ dir[from] = dir[<<p>>]
      BY <1>3, <2>2 DEF from
    <3>2. Period(p, line.at) >= From(p)
      BY <2>2, <3>1 DEF IInv, CurrentInv, Current
    <3>3. From(p) = Period(r, last)
      BY <1>2, <2>2 DEF From
    <3> QED
      BY <2>2, <3>2, <3>3
  <2> QED
    BY <1>7, <2>1, <2>2
<1> QED
  BY <1>9, <1>10, <1>12, <1>13, <1>14, <1>15, <1>16, <1>17, <1>18, <1>19, <1>20 DEF IInv

(* The log whose file has been renamed. *)
LEMMA FileFacts ==
    ASSUME IInv, pc \in {"reopen", "dup2"}
    PROVE  /\ LogsLocked /\ file \in DOMAIN fileLogs /\ file # 0 /\ file \notin todo
           /\ fileLogs[file].path \in Paths /\ logs[fileLogs[file].path] = file
           /\ \A p \in Paths : logs[p] = file => p = fileLogs[file].path
<1>1. LogsLocked /\ file # 0 /\ file \notin todo /\ logs[fileLogs[file].path] = file
  BY DEF IInv, LogsInv, LogsLocked
<1>2. file \in DOMAIN fileLogs
  BY <1>1, FilesType DEF IInv, TypeOK
<1>3. fileLogs[file].path \in Paths
  BY <1>2, FilesType
<1>4. \A p \in Paths : logs[p] = file => p = fileLogs[file].path
  BY <1>1 DEF IInv, LogsInv
<1> QED
  BY <1>1, <1>2, <1>3, <1>4

(* A new, empty file has the name of the path again; the log still writes  *)
(* to the old one.                                                         *)
LEMMA ReopenKeeps == ASSUME IInv, Reopen PROVE IInv'
<1> DEFINE r == fileLogs[file].path
<1>1. /\ pc = "reopen" /\ pc' = "dup2" /\ OpenFile(r)
      /\ UNCHANGED <<fileLogs, logs, last, since, missed, tasks, due, pending, seen, todo, file,
                     now, crashes, written>>
  BY DEF Reopen, taskVars, managerVars
<1>2. /\ LogsLocked /\ LogsLocked' /\ file \in DOMAIN fileLogs /\ file # 0 /\ file \notin todo
      /\ r \in Paths /\ logs[r] = file /\ ~Current(r)
      /\ \A p \in Paths : logs[p] = file => p = r
  BY <1>1, FileFacts DEF LogsLocked, IInv, LogsInv
<1>3. fileLogs' = fileLogs /\ file' = file
  BY <1>1
<1> HIDE DEF r
<1>4. /\ DOMAIN dir' = DOMAIN dir \cup {<<r>>}
      /\ \A n \in DOMAIN dir : dir'[n] = dir[n]
      /\ \A i \in DOMAIN files : files'[i] = files[i]
      /\ files'[dir'[<<r>>]] = {}
  BY <1>1, <1>2, OpenFileFacts
<1>5. \A p \in Paths : <<p>> \in DOMAIN dir' /\ p # r =>
          /\ <<p>> \in DOMAIN dir /\ dir'[<<p>>] = dir[<<p>>]
          /\ files'[dir[<<p>>]] = files[dir[<<p>>]]
  BY <1>4, NameFacts, FilesType
<1>6. \A p \in Paths : \A q \in Nat : <<p, q>> \in DOMAIN dir' =>
          /\ <<p, q>> \in DOMAIN dir /\ dir'[<<p, q>>] = dir[<<p, q>>]
          /\ files'[dir[<<p, q>>]] = files[dir[<<p, q>>]]
  BY <1>4, NameFacts, FilesType
<1>7. TypeOK'
  <2>1. /\ files' \in Seq(SUBSET Lines) /\ \A n \in DOMAIN dir' : dir'[n] \in DOMAIN files'
    BY <1>1, <1>2, OpenFileFacts
  <2>2. fileLogs \in Seq([path : Paths, fd : DOMAIN files'])
    BY <1>1, <1>2, OpenFileFacts
  <2>3. fileLogs' \in Seq([path : Paths, fd : DOMAIN files'])
    BY <1>3, <2>2
  <2> QED
    BY <1>1, <2>1, <2>3 DEF IInv, TypeOK, Pc
<1>8. NamesInv' /\ NoLineLost' /\ LinesInv'
  BY <1>1, <1>2, OpenFileKeeps
<1>9. ClockInv' /\ MissedInv' /\ TasksInv'
  BY <1>1, <1>2 DEF IInv, ClockInv, MissedInv, TasksInv, TasksStable, TasksLocked, Changes, Field,
                    Period
<1>10. RenameInv'
  BY <1>1, <1>2, <1>6 DEF IInv, RenameInv, Period
<1>11. LogsInv'
  <2>1. Changes(seen)' = Changes(seen)
    BY <1>1 DEF Changes, Field
  <2>2. Current(fileLogs[file].path)'
    BY <1>1, <1>4 DEF Current, r
  <2>3. /\ \A p \in Paths : logs[p] # 0 => fileLogs[logs[p]].path = p
        /\ \A l \in todo \cup {file} : l # 0 => logs[fileLogs[l].path] = l
        /\ \A l \in todo : RotateType[fileLogs[l].path] \in Changes(seen)
    BY DEF IInv, LogsInv
  <2> QED
    BY <1>1, <1>2, <2>1, <2>2, <2>3 DEF LogsInv
<1>12. FdInv'
  <2> SUFFICES ASSUME NEW x \in DOMAIN fileLogs
               PROVE  \E m \in DOMAIN dir' : m[1] = fileLogs[x].path /\ dir'[m] = fileLogs[x].fd
    BY <1>1 DEF FdInv
  <2>1. PICK n \in DOMAIN dir : n[1] = fileLogs[x].path /\ dir[n] = fileLogs[x].fd
    BY DEF IInv, FdInv
  <2> QED
    BY <1>4, <2>1
<1>13. WritesToItsFile'
  BY <1>1, <1>2, <1>5 DEF IInv, WritesToItsFile, Current
<1>14. CurrentInv'
  <2> SUFFICES ASSUME since # -1, NEW p \in Paths \ missed, <<p>> \in DOMAIN dir',
                      NEW line \in files'[dir'[<<p>>]], line.at >= since
               PROVE  Period(p, line.at) >= From(p)
    BY <1>1, <1>2 DEF CurrentInv, Current, From, Period
  <2>1. p # r
    BY <1>4
  <2> QED
    BY <1>5, <2>1 DEF IInv, CurrentInv, Current
<1>15. Filed'
  BY <1>1, <1>6 DEF IInv, Filed, Period
<1> QED
  BY <1>7, <1>8, <1>9, <1>10, <1>11, <1>12, <1>13, <1>14, <1>15 DEF IInv

(* There is no new file: the log goes on with the old one, which has no    *)
(* current name.                                                           *)
LEMMA ReopenFailsKeeps == ASSUME IInv, ReopenFails PROVE IInv'
<1> DEFINE r == fileLogs[file].path
<1>1. /\ pc = "reopen" /\ pc' = "rotate" /\ file' = 0
      /\ UNCHANGED <<dir, files, fileLogs, logs, last, since, missed, tasks, due, pending, seen,
                     todo, now, crashes, written>>
  BY DEF ReopenFails, taskVars, managerVars, fileVars
<1>2. /\ LogsLocked /\ LogsLocked' /\ file \notin todo /\ ~Current(r)
      /\ \A p \in Paths : logs[p] = file => p = r
  BY <1>1, FileFacts DEF LogsLocked, IInv, LogsInv
<1> HIDE DEF r
<1>3. TypeOK' /\ ClockInv' /\ NamesInv'
  <2>1. 0 \in 0 .. Len(fileLogs)
    BY FilesType
  <2> QED
    BY <1>1, <1>2, <2>1 DEF IInv, TypeOK, Pc, ClockInv, NamesInv, Period
<1>4. RenameInv' /\ MissedInv' /\ TasksInv'
  BY <1>1, <1>2 DEF IInv, RenameInv, MissedInv, Period, Changes, Field, TasksInv, TasksStable,
                    TasksLocked
<1>5. LogsInv'
  <2>1. Changes(seen)' = Changes(seen)
    BY <1>1 DEF Changes, Field
  <2>2. 0 \notin todo
    BY FilesType DEF IInv, TypeOK
  <2>3. /\ \A p \in Paths : logs[p] # 0 => fileLogs[logs[p]].path = p
        /\ \A l \in todo \cup {file} : l # 0 => logs[fileLogs[l].path] = l
        /\ \A l \in todo : RotateType[fileLogs[l].path] \in Changes(seen)
    BY DEF IInv, LogsInv
  <2> QED
    BY <1>1, <1>2, <2>1, <2>2, <2>3 DEF LogsInv
<1>6. WritesToItsFile'
  <2> SUFFICES ASSUME NEW p \in Paths, logs[p] # 0, Current(p)
               PROVE  fileLogs[logs[p]].fd = dir[<<p>>]
    BY <1>1 DEF WritesToItsFile, Current
  <2>1. logs[p] # file
    BY <1>2
  <2> QED
    BY <2>1 DEF IInv, WritesToItsFile
<1>7. FdInv' /\ NoLineLost' /\ LinesInv' /\ CurrentInv' /\ Filed'
  BY <1>1, <1>2 DEF IInv, FdInv, NoLineLost, LinesInv, CurrentInv, Filed, From, Current, Period
<1> QED
  BY <1>3, <1>4, <1>5, <1>6, <1>7 DEF IInv

(* The log writes to the new file from now on. *)
LEMMA Dup2Keeps == ASSUME IInv, Dup2 PROVE IInv'
<1> DEFINE r == fileLogs[file].path
<1>1. /\ pc = "dup2" /\ pc' = "rotate" /\ file' = 0
      /\ fileLogs' = [fileLogs EXCEPT ![file].fd = dir[<<r>>]]
      /\ UNCHANGED <<dir, files, logs, last, since, missed, tasks, due, pending, seen, todo, now,
                     crashes, written>>
  BY DEF Dup2, taskVars, fileVars
<1>2. /\ LogsLocked /\ LogsLocked' /\ file \in DOMAIN fileLogs /\ file \notin todo
      /\ r \in Paths /\ logs[r] = file /\ <<r>> \in DOMAIN dir /\ dir[<<r>>] \in DOMAIN files
      /\ \A p \in Paths : logs[p] = file => p = r
  BY <1>1, FileFacts, FilesType DEF LogsLocked, IInv, LogsInv, Current
<1> HIDE DEF r
<1>3. /\ fileLogs' \in Seq([path : Paths, fd : DOMAIN files]) /\ Len(fileLogs') = Len(fileLogs)
      /\ DOMAIN fileLogs' = DOMAIN fileLogs
      /\ \A l \in DOMAIN fileLogs : fileLogs'[l].path = fileLogs[l].path
      /\ fileLogs'[file].fd = dir[<<r>>]
      /\ \A l \in DOMAIN fileLogs : l # file => fileLogs'[l].fd = fileLogs[l].fd
  <2> DEFINE S == [path : Paths, fd : DOMAIN files]  x == [fileLogs[file] EXCEPT !.fd = dir[<<r>>]]
  <2>1. /\ fileLogs \in Seq(S) /\ fileLogs[file] \in S
    BY <1>2, FilesType DEF IInv, TypeOK
  <2>2. x \in S /\ x.path = fileLogs[file].path /\ x.fd = dir[<<r>>]
    BY <1>2, <2>1
  <2>3. fileLogs' = [fileLogs EXCEPT ![file] = x]
    BY <1>1
  <2> HIDE DEF S, x
  <2>4. /\ fileLogs' \in Seq(S) /\ Len(fileLogs') = Len(fileLogs)
        /\ DOMAIN fileLogs' = DOMAIN fileLogs /\ fileLogs'[file] = x
        /\ \A l \in DOMAIN fileLogs : l # file => fileLogs'[l] = fileLogs[l]
    BY <1>2, <2>1, <2>2, <2>3
  <2> QED
    BY <2>2, <2>4 DEF S
<1>4. TypeOK'
  <2>1. 0 \in 0 .. Len(fileLogs)
    BY FilesType
  <2> QED
    BY <1>1, <1>3, <2>1 DEF IInv, TypeOK, Pc
<1>5. ClockInv' /\ NamesInv' /\ RenameInv' /\ MissedInv' /\ TasksInv'
  BY <1>1, <1>2 DEF IInv, ClockInv, NamesInv, RenameInv, MissedInv, Period, Changes, Field,
                    TasksInv, TasksStable, TasksLocked
<1>6. LogsInv'
  <2>1. Changes(seen)' = Changes(seen)
    BY <1>1 DEF Changes, Field
  <2>2. /\ 0 \notin todo /\ todo \subseteq DOMAIN fileLogs
        /\ \A p \in Paths : logs[p] # 0 => logs[p] \in DOMAIN fileLogs
    BY FilesType DEF IInv, TypeOK
  <2>3. /\ \A p \in Paths : logs[p] # 0 => fileLogs[logs[p]].path = p
        /\ \A l \in todo \cup {file} : l # 0 => logs[fileLogs[l].path] = l
        /\ \A l \in todo : RotateType[fileLogs[l].path] \in Changes(seen)
    BY DEF IInv, LogsInv
  <2>4. \A p \in Paths : logs'[p] # 0 => fileLogs'[logs'[p]].path = p
    BY <1>1, <1>3, <2>2, <2>3
  <2>5. \A l \in todo' \cup {file'} : l # 0 => LogsLocked' /\ logs'[fileLogs'[l].path] = l
    BY <1>1, <1>2, <1>3, <2>2, <2>3
  <2>6. \A l \in todo' : RotateType[fileLogs'[l].path] \in Changes(seen)'
    BY <1>1, <1>3, <2>1, <2>2, <2>3
  <2> QED
    BY <1>1, <2>2, <2>4, <2>5, <2>6 DEF LogsInv
<1>7. FdInv'
  <2> SUFFICES ASSUME NEW x \in DOMAIN fileLogs
               PROVE  \E m \in DOMAIN dir : m[1] = fileLogs'[x].path /\ dir[m] = fileLogs'[x].fd
    BY <1>1, <1>3 DEF FdInv
  <2>1. CASE x = file
    <3>1. <<r>>[1] = r /\ fileLogs'[file].path = r
      BY <1>2, <1>3, NameFacts DEF r
    <3> QED
      BY <1>2, <1>3, <2>1, <3>1
  <2>2. CASE x # file
    BY <1>3, <2>2 DEF IInv, FdInv
  <2> QED
    BY <2>1, <2>2
<1>8. WritesToItsFile'
  <2> SUFFICES ASSUME NEW p \in Paths, logs[p] # 0, Current(p)
               PROVE  fileLogs'[logs[p]].fd = dir[<<p>>]
    BY <1>1 DEF WritesToItsFile, Current
  <2>1. CASE logs[p] = file
    BY <1>2, <1>3, <2>1
  <2>2. CASE logs[p] # file
    BY <1>3, <2>2, FilesType DEF IInv, WritesToItsFile
  <2> QED
    BY <2>1, <2>2
<1>9. NoLineLost' /\ LinesInv' /\ CurrentInv' /\ Filed'
  BY <1>1, <1>2 DEF IInv, NoLineLost, LinesInv, CurrentInv, Filed, From, Current, Period
<1> QED
  BY <1>4, <1>5, <1>6, <1>7, <1>8, <1>9 DEF IInv

(* OnCheck is done with all logs: the period it has seen is the last one.  *)
LEMMA CheckDoneKeeps == ASSUME IInv, CheckDone PROVE IInv'
<1>1. /\ pc = "rotate" /\ pc' = "ran" /\ last' = seen /\ seen' = 0 /\ todo = {}
      /\ UNCHANGED <<dir, files, fileLogs, logs, since, missed, tasks, due, pending, todo, file,
                     now, crashes, written>>
  BY DEF CheckDone, taskVars, fileVars
<1>2. LogsLocked /\ ~LogsLocked' /\ file = 0 /\ seen \in Nat /\ seen \in 0 .. MaxNow
      /\ seen <= now /\ last # -1 /\ last \in Nat /\ last <= seen
  BY <1>1, TimesType DEF LogsLocked, IInv, LogsInv, TypeOK, ClockInv
<1>3. TypeOK' /\ ClockInv'
  <2>1. seen \in -1 .. MaxNow /\ 0 \in 0 .. MaxNow
    BY <1>2, TimesType
  <2>2. seen # -1 /\ now \in Nat
    BY <1>2, TimesType
  <2> QED
    BY <1>1, <1>2, <2>1, <2>2 DEF IInv, TypeOK, Pc, ClockInv
<1>4. \A p \in Paths : Period(p, last)' = Period(p, seen) /\ Period(p, last) <= Period(p, seen)
                       /\ Period(p, last) \in Nat /\ Period(p, seen) \in Nat
  BY <1>1, <1>2, PeriodMonotonic DEF Period
<1>5. RenameInv'
  <2> SUFFICES ASSUME NEW p \in Paths, NEW q \in Nat, <<p, q>> \in DOMAIN dir
               PROVE  q < Period(p, seen)
    BY <1>1, <1>4 DEF RenameInv
  <2>1. q < Period(p, last) \/ q < Period(p, seen)
    BY <1>2 DEF IInv, RenameInv
  <2> QED
    BY <1>4, <2>1
<1>6. CurrentInv'
  <2>1. \A p \in Paths : From(p)' = From(p)
    BY <1>1, <1>2, <1>4 DEF From
  <2> QED
    BY <1>1, <2>1 DEF IInv, CurrentInv, Current, Period
<1>7. NamesInv' /\ LogsInv' /\ MissedInv'
  BY <1>1, <1>2 DEF IInv, NamesInv, LogsInv, MissedInv, Period
<1>8. FdInv' /\ WritesToItsFile' /\ NoLineLost' /\ LinesInv' /\ TasksInv' /\ Filed'
  BY <1>1 DEF IInv, FdInv, WritesToItsFile, NoLineLost, LinesInv, TasksInv, TasksStable,
              TasksLocked, Filed, Current, Period
<1> QED
  BY <1>3, <1>5, <1>6, <1>7, <1>8 DEF IInv

----------------------------------------------------------------------------
(* The theorems. *)

(* Writers, OnCheck and Rotate keep the strengthened invariant of tables,  *)
(* descriptors and directory, through crashes and whatever the fairness.   *)
THEOREM LoggingInvariance == Init /\ [][Next]_vars => []IInv
<1>1. Init => IInv
  BY InitIInv
<1>2. IInv /\ [Next]_vars => IInv'
  <2> SUFFICES ASSUME IInv, [Next]_vars PROVE IInv'
    OBVIOUS
  <2>1. CASE UNCHANGED vars
    <3>1. /\ UNCHANGED <<fileVars, managerVars, seen, todo, file, now, crashes, written>>
          /\ pc' = pc /\ tasks' \subseteq Tasks /\ due' \in [Tasks -> BOOLEAN] /\ TasksInv'
      BY <2>1 DEF vars, mainVars, taskVars, IInv, TypeOK, TasksInv, TasksStable, TasksLocked
    <3> QED
      BY <3>1, QuietKeeps
  <2>2. CASE OnWork
    <3>1. /\ UNCHANGED <<fileVars, managerVars, seen, todo, file, now, crashes, written>>
          /\ {pc, pc'} \subseteq {"idle", "work", "ran"}
          /\ tasks' \subseteq Tasks /\ due' \in [Tasks -> BOOLEAN] /\ TasksInv'
      BY <2>2 DEF OnWork, IInv, TypeOK, TasksInv, TasksStable, TasksLocked
    <3> QED
      BY <3>1, QuietKeeps
  <2>3. CASE WorkDone
    <3>1. /\ UNCHANGED <<fileVars, managerVars, seen, todo, file, now, crashes, written>>
          /\ {pc, pc'} \subseteq {"idle", "work", "ran"}
          /\ tasks' \subseteq Tasks /\ due' \in [Tasks -> BOOLEAN] /\ TasksInv'
      BY <2>3 DEF WorkDone, taskVars, IInv, TypeOK, TasksInv, TasksStable, TasksLocked
    <3> QED
      BY <3>1, QuietKeeps
  <2>4. ASSUME NEW t \in Tasks, NEW restarted \in BOOLEAN, Returned(t, restarted)
        PROVE  tasks' \subseteq Tasks /\ due' \in [Tasks -> BOOLEAN] /\ TasksStable'
    <3>1. /\ pending' = pending \ {t} /\ pending \subseteq tasks
          /\ due' = [due EXCEPT ![t] = FALSE] /\ due \in [Tasks -> BOOLEAN]
          /\ tasks' \in {tasks, tasks \ {t}} /\ tasks \subseteq Tasks
      BY <2>4 DEF Returned, IInv, TypeOK, TasksInv, TasksStable
    <3>2. due' \in [Tasks -> BOOLEAN]
      BY <3>1
    <3> QED
      BY <3>1, <3>2 DEF TasksStable
  <2>5. CASE Restart
    <3>1. /\ UNCHANGED <<fileVars, managerVars, seen, todo, file, now, crashes, written>>
          /\ {pc, pc'} \subseteq {"idle", "work", "ran"} /\ TasksLocked'
      BY <2>5 DEF Restart, TasksLocked
    <3>2. tasks' \subseteq Tasks /\ due' \in [Tasks -> BOOLEAN] /\ TasksStable'
      BY <2>4, <2>5 DEF Restart, Tasks
    <3> QED
      BY <3>1, <3>2, QuietKeeps DEF TasksInv
  <2>6. ASSUME NEW t \in OtherTasks, NEW restarted \in BOOLEAN, RunTask(t, restarted) PROVE IInv'
    <3>1. /\ UNCHANGED <<fileVars, managerVars, seen, todo, file, now, crashes, written>>
          /\ pc' = pc /\ TasksLocked'
      BY <2>6 DEF RunTask, mainVars, TasksLocked
    <3>2. tasks' \subseteq Tasks /\ due' \in [Tasks -> BOOLEAN] /\ TasksStable'
      BY <2>4, <2>6 DEF RunTask, Tasks
    <3> QED
      BY <3>1, <3>2, QuietKeeps DEF TasksInv
  <2>7. ASSUME NEW t \in OtherTasks, Add(t) \/ Del(t) PROVE IInv'
    <3>1. /\ UNCHANGED <<fileVars, managerVars, seen, todo, file, now, crashes, written>>
          /\ pc = "idle" /\ pc' = pc /\ pending' = pending /\ pending = {}
      BY <2>7 DEF Add, Del, mainVars, IInv, TasksInv, TasksLocked
    <3>2. tasks' \subseteq Tasks /\ due' \in [Tasks -> BOOLEAN]
      <4>1. tasks' \in {tasks \cup {t}, tasks \ {t}} /\ t \in Tasks /\ tasks \subseteq Tasks
        BY <2>7 DEF Add, Del, Tasks, IInv, TypeOK
      <4>2. due' = due \/ due' = [due EXCEPT ![t] = FALSE]
        BY <2>7 DEF Add, Del
      <4>3. due' \in [Tasks -> BOOLEAN]
        BY <4>2 DEF IInv, TypeOK
      <4> QED
        BY <4>1, <4>3
    <3>3. TasksInv'
      BY <3>1 DEF TasksInv, TasksStable
    <3> QED
      BY <3>1, <3>2, <3>3, QuietKeeps
  <2>8. ASSUME NEW t \in Tasks, Elapse(t) PROVE IInv'
    <3>1. /\ UNCHANGED <<fileVars, managerVars, seen, todo, file, now, crashes, written>>
          /\ pc' = pc /\ tasks' = tasks /\ pending' = pending
          /\ due' = [due EXCEPT ![t] = TRUE]
      BY <2>8 DEF Elapse, mainVars
    <3>2. due' \in [Tasks -> BOOLEAN] /\ tasks' \subseteq Tasks
      BY <3>1 DEF IInv, TypeOK
    <3>3. TasksInv'
      BY <3>1 DEF IInv, TasksInv, TasksStable, TasksLocked
    <3> QED
      BY <3>1, <3>2, <3>3, QuietKeeps
  <2>9. ASSUME NEW p \in Paths, GetFileLog(p) PROVE IInv'
    <3>1. /\ OpenLog(p) /\ logs[p] = 0 /\ ~LogsLocked
          /\ UNCHANGED <<last, since, missed, seen, todo, file, now, crashes, written>>
          /\ pc' = pc /\ pc # "down" /\ tasks' = tasks /\ due' = due /\ pending' = pending
      BY <2>9 DEF GetFileLog, taskVars, mainVars
    <3>2. tasks' \subseteq Tasks /\ due' \in [Tasks -> BOOLEAN] /\ TasksInv'
      BY <3>1 DEF IInv, TypeOK, TasksInv, TasksStable, TasksLocked
    <3> QED
      BY <3>1, <3>2, OpenLogKeeps
  <2>10. CASE Start
    <3>1. /\ OpenLog(MainLog) /\ pc = "down" /\ pc' = "idle"
          /\ UNCHANGED <<last, since, missed, seen, todo, file, now, crashes, written>>
          /\ tasks' = {Check} /\ due' = due /\ pending' = pending
      BY <2>10 DEF Start
    <3>2. MainLog \in Paths /\ ~LogsLocked /\ pending = {}
      BY <3>1, PathsAssumption DEF LogsLocked, IInv, TasksInv, TasksLocked
    <3>3. logs[MainLog] = 0
      <4>1. Len(fileLogs) = 0
        BY <3>1 DEF IInv, LogsInv
      <4> QED
        BY <3>2, <4>1, FilesType
    <3>4. tasks' \subseteq Tasks /\ due' \in [Tasks -> BOOLEAN] /\ TasksInv'
      BY <3>1, <3>2 DEF IInv, TypeOK, Tasks, TasksInv, TasksStable
    <3> QED
      BY <3>1, <3>2, <3>3, <3>4, OpenLogKeeps
  <2>11. ASSUME NEW l \in todo, SkipEmpty(l) \/ Rotate(l) PROVE IInv'
    <3>1. CASE SkipEmpty(l)
      BY <3>1, NothingToRotateKeeps DEF SkipEmpty
    <3>2. CASE Rotate(l) /\ Current(fileLogs[l].path)
      BY <3>2, RenameKeeps
    <3>3. CASE Rotate(l) /\ ~Current(fileLogs[l].path)
      <4>1. /\ pc = "rotate" /\ todo' = todo \ {l}
            /\ UNCHANGED <<pc, seen, file, taskVars, fileVars, managerVars, now, crashes, written>>
        BY <3>3 DEF Rotate, fileVars
      <4> QED
        BY <3>3, <4>1, NothingToRotateKeeps
    <3> QED
      BY <2>11, <3>1, <3>2, <3>3
  <2>12. CASE MainStep
    <3>1. CASE OnCheck
      BY <3>1, OnCheckKeeps
    <3>2. CASE LockLogs
      BY <3>2, LockLogsKeeps
    <3>3. CASE Reopen
      BY <3>3, ReopenKeeps
    <3>4. CASE ReopenFails
      BY <3>4, ReopenFailsKeeps
    <3>5. CASE Dup2
      BY <3>5, Dup2Keeps
    <3>6. CASE CheckDone
      BY <3>6, CheckDoneKeeps
    <3> QED
      BY <2>2, <2>3, <2>5, <2>6, <2>11, <2>12, <3>1, <3>2, <3>3, <3>4, <3>5, <3>6 DEF MainStep
  <2>13. CASE Crash
    BY <2>13, CrashKeeps
  <2>14. CASE Minute
    BY <2>14, MinuteKeeps
  <2>15. ASSUME NEW l \in DOMAIN fileLogs, RemoveFileLog(l) \/ WriteLog(l) PROVE IInv'
    BY <2>15, RemoveFileLogKeeps, WriteLogKeeps
  <2> QED
    BY <2>1, <2>7, <2>8, <2>9, <2>10, <2>12, <2>13, <2>14, <2>15 DEF Next
<1> QED
  BY <1>1, <1>2, PTL

(* A registered log writes to the file that has its name but between       *)
(* rename and dup2, no line is lost by a rotation, an open that fails or a *)
(* crash, and nobody erases from the set OnWork iterates over.             *)
THEOREM LogCorrect == Spec => []LogInv
<1>1. Spec => Init /\ [][Next]_vars
  BY PTL DEF Spec
<1>2. IInv => LogInv
  BY DEF IInv, TasksInv, LogInv
<1> QED
  BY <1>1, <1>2, LoggingInvariance, PTL

(* No line is filed under a later period than the one it was written in    *)
(* (OnCheck, Rotate): no rotated file holds a line of a period before the  *)
(* one in its name, of those written since the process's first check and   *)
(* of the paths whose change of period no check has missed.                *)
THEOREM FiledCorrect == Spec => []FiledUnderNoLaterPeriod
<1>1. Spec => Init /\ [][Next]_vars
  BY PTL DEF Spec
<1>2. IInv => FiledUnderNoLaterPeriod
  <2> SUFFICES ASSUME IInv, since # -1, NEW n \in DOMAIN dir, Len(n) = 2, n[1] \notin missed,
                      NEW line \in files[dir[n]], line.at >= since
               PROVE  Period(n[1], line.at) >= n[2]
    BY DEF FiledUnderNoLaterPeriod
  <2>1. \A p \in Paths : n # <<p>>
    BY NameFacts
  <2>2. PICK p \in Paths, q \in Nat : n = <<p, q>>
    BY <2>1 DEF IInv, NamesInv, Names
  <2>3. n[1] = p /\ n[2] = q
    BY <2>2, NameFacts
  <2> QED
    BY <2>2, <2>3 DEF IInv, Filed
<1> QED
  BY <1>1, <1>2, LoggingInvariance, PTL

============================================================================
