---------------------------- MODULE HourFileSink ----------------------------
(***************************************************************************)
(* The file sink of logger/utils/log.h: one file per hour, changed by the  *)
(* first line after the hour, and the two cron jobs that live on it:       *)
(* log.mv.sh moves the file of the past hour away, mapping.redis.sh loads  *)
(* the moved file.                                                         *)
(*                                                                         *)
(* One line is three readings of the clock: system_clock::now() to see     *)
(* whether the hour is over, time() for the end of the next one, time()    *)
(* again for the name of the file.  Time goes on between them, and time()  *)
(* may lag behind the first clock.  The thread of spdlog that calls the    *)
(* sink buffers what it writes (stdio), flushes when it has been idle for  *)
(* a while, and ends when the sink throws: when the next file cannot be    *)
(* opened, and when a write fails, with earlier lines still in the buffer. *)
(***************************************************************************)
EXTENDS Integers, Sequences

CONSTANTS
    Hour,             \* the units of time in an hour
    Lag,              \* by how many of them time() may be behind
    Stall,            \* how long the thread of spdlog takes over a line at most
    FlushAfter,       \* how long a line stays in the buffer at most (1 second)
    MoveAt, LoadAt,   \* when cron runs log.mv.sh (minute 1) and mapping.redis.sh (minute 10)
    _base_path,       \* where the sink writes (/data/logs/cookie_mapping)
    log_path,         \* where log.mv.sh looks for files (/data/mapping_logs)
    MaxTime, MaxLines, MaxFaults   \* bounds

\* How long after the end of an hour a line may still be compared and go to its file: the
\* comparison is >, and time() lags by less than a unit more.
Slack == IF Lag = 0 THEN 0 ELSE Lag - 1

\* The file is loaded long after the last line for it has been written, and flushed.
ASSUME ScheduleAssumption ==
    /\ Hour \in Nat /\ Lag \in Nat /\ Stall \in Nat /\ FlushAfter \in Nat
    /\ MoveAt \in Nat /\ LoadAt \in Nat
    /\ Lag < MoveAt /\ MoveAt < LoadAt /\ LoadAt < Hour
    /\ Slack + 2 * Stall + FlushAfter < LoadAt
    /\ MaxTime \in Nat /\ MaxLines \in Nat /\ MaxFaults \in Nat

\* logger.cc and log.mv.sh name different paths, and nothing in the repository makes one a
\* link to the other; the cron jobs get at the files of the sink only if they are one.
ASSUME DirectoryAssumption == log_path = _base_path

VARIABLES
    now,          \* system_clock::now()
    coarse,       \* the last answer of time(), which does not go back
    pc,           \* of the writing thread; "dead": ended by an exception, "down": no process
    cur,          \* the line it has in hand, 0 for none
    rotation_tp,
    file,         \* the hour of the open file
    buffer,       \* the lines written to it and not flushed
    wroteAt,      \* when the last of them was written
    disk,         \* of each hour, the lines in its file, wherever the file has been moved to
    moved,        \* the hours for which log.mv.sh has run
    loaded,       \* the hours for which mapping.redis.sh has run
    faults,
    at,           \* history: when the line was compared with rotation_tp
    read          \* history: the lines mapping.redis.sh has read of each hour

vars == <<now, coarse, pc, cur, rotation_tp, file, buffer, wroteAt, disk, moved, loaded,
          faults, at, read>>

Hours     == 0 .. MaxTime \div Hour
HourOf(t) == t \div Hour

Init ==
    /\ now = 0 /\ coarse = 0
    /\ pc = "down" /\ cur = 0 /\ rotation_tp = 0 /\ file = 0
    /\ buffer = {} /\ wroteAt = 0
    /\ disk = [h \in Hours |-> {}] /\ read = [h \in Hours |-> {}]
    /\ moved = {} /\ loaded = {}
    /\ faults = 0 /\ at = <<>>

------------------------------------------------------------------------------
(* The sink *)

\* What time(nullptr) may answer.
time == {t \in now - Lag .. now : t >= coarse}

\* Mutant: minutes and seconds are not set to zero.
_next_rotation_tp_unrounded(tt) == tt + Hour

_next_rotation_tp(tt) == (HourOf(tt) + 1) * Hour

\* Mutant: the hour is advanced in the tm that the name is made of as well.
calc_filename_ahead(tt) == HourOf(tt) + 1

calc_filename(tt) == HourOf(tt)

\* The open file with more lines in it.
With(lines) == [disk EXCEPT ![file] = @ \cup lines]
flushed     == With(buffer)

\* supervisord starts the logger: the constructor of the sink.
Start ==
    /\ pc = "down"
    /\ pc' = "rotate" /\ cur' = 0
    /\ UNCHANGED <<now, coarse, rotation_tp, file, buffer, wroteAt, disk, moved, loaded,
                   faults, at, read>>

\* Mutant: the line is written first, the hour is looked at afterwards.
_sink_itLate ==
    /\ pc = "idle" /\ Len(at) < MaxLines
    /\ at' = Append(at, now) /\ cur' = Len(at) + 1
    /\ pc' = "write"
    /\ UNCHANGED <<now, coarse, rotation_tp, file, buffer, wroteAt, disk, moved, loaded,
                   faults, read>>

\* A line comes: the comparison at the head of _sink_it.
_sink_it ==
    /\ pc = "idle" /\ Len(at) < MaxLines
    /\ at' = Append(at, now) /\ cur' = Len(at) + 1
    /\ pc' = IF now > rotation_tp THEN "rotate" ELSE "write"
    /\ UNCHANGED <<now, coarse, rotation_tp, file, buffer, wroteAt, disk, moved, loaded,
                   faults, read>>

Rotate ==
    /\ pc = "rotate"
    /\ \E tt \in time : coarse' = tt /\ rotation_tp' = _next_rotation_tp(tt)
    /\ pc' = "open"
    /\ UNCHANGED <<now, cur, file, buffer, wroteAt, disk, moved, loaded, faults, at, read>>

\* file_helper::open closes the old file, which flushes it, and appends to the new one.
Open ==
    /\ pc = "open"
    /\ \E tt \in time : coarse' = tt /\ file' = calc_filename(tt)
    /\ disk' = flushed /\ buffer' = {}
    /\ pc' = IF cur = 0 THEN "idle" ELSE "write"
    /\ UNCHANGED <<now, cur, rotation_tp, wroteAt, moved, loaded, faults, at, read>>

\* file_helper::open gives up.  In _sink_it the exception ends spdlog's thread, and the
\* process stays; in the constructor it leaves log_consumer and ends the process.
OpenFails ==
    /\ pc = "open" /\ faults < MaxFaults
    /\ faults' = faults + 1
    /\ \E tt \in time : coarse' = tt
    /\ disk' = flushed /\ buffer' = {}
    /\ pc' = IF cur = 0 THEN "down" ELSE "dead"
    /\ UNCHANGED <<now, cur, rotation_tp, file, wroteAt, moved, loaded, at, read>>

Write ==
    /\ pc = "write"
    /\ buffer' = buffer \cup {cur} /\ wroteAt' = now
    /\ pc' = "idle" /\ cur' = 0
    /\ UNCHANGED <<now, coarse, rotation_tp, file, disk, moved, loaded, faults, at, read>>

\* fwrite has to empty the buffer and comes back short: the system took the lines before
\* some n at most; stdio keeps the others or drops them.  The line in hand is lost, the
\* exception ends spdlog's thread, and nobody flushes or closes the file any more.
WriteFails ==
    /\ pc = "write" /\ faults < MaxFaults
    /\ faults' = faults + 1
    /\ \E n \in 1 .. cur :
          /\ disk' = With({l \in buffer : l < n})
          /\ buffer' \in {{}, {l \in buffer : l >= n}}
    /\ pc' = "dead"
    /\ UNCHANGED <<now, coarse, cur, rotation_tp, file, wroteAt, moved, loaded, at, read>>

\* fflush and fclose fail in the same way, but file_helper does not look at what they
\* return: the lines from some n on are dropped, before the others are flushed.
FlushFails ==
    /\ pc \in {"idle", "open"} /\ buffer # {} /\ faults < MaxFaults
    /\ faults' = faults + 1
    /\ \E n \in buffer : buffer' = {l \in buffer : l < n}
    /\ UNCHANGED <<now, coarse, pc, cur, rotation_tp, file, wroteAt, disk, moved, loaded, at,
                   read>>

\* The queue of spdlog has been empty for a while (or stdio's buffer was full).
Flush ==
    /\ pc = "idle" /\ buffer # {}
    /\ disk' = flushed /\ buffer' = {}
    /\ UNCHANGED <<now, coarse, pc, cur, rotation_tp, file, wroteAt, moved, loaded, faults,
                   at, read>>

\* The logger is killed: what stdio has buffered is gone.
Kill ==
    /\ pc # "down" /\ faults < MaxFaults
    /\ faults' = faults + 1
    /\ pc' = "down" /\ cur' = 0 /\ buffer' = {}
    /\ UNCHANGED <<now, coarse, rotation_tp, file, wroteAt, disk, moved, loaded, at, read>>

------------------------------------------------------------------------------
(* cron and the clock *)

\* date -d "-1 hour": the hour the scripts work on.
PastHour == HourOf(now) - 1

\* log.mv.sh finds a file of the sink.
MoveDue ==
    now % Hour = MoveAt /\ log_path = _base_path /\ PastHour >= 0 /\ PastHour \notin moved
LoadDue == now % Hour = LoadAt /\ PastHour \in moved \ loaded

\* log.mv.sh.  The logger may still have the file open and goes on writing to it.
Move ==
    /\ MoveDue
    /\ moved' = moved \cup {PastHour}
    /\ UNCHANGED <<now, coarse, pc, cur, rotation_tp, file, buffer, wroteAt, disk, loaded,
                   faults, at, read>>

\* mapping.redis.sh reads the file that has been moved.
Load ==
    /\ LoadDue
    /\ loaded' = loaded \cup {PastHour}
    /\ read' = [read EXCEPT ![PastHour] = disk[PastHour]]
    /\ UNCHANGED <<now, coarse, pc, cur, rotation_tp, file, buffer, wroteAt, disk, moved,
                   faults, at>>

\* Time passes; not over a line in hand, nor over a flush or a cron job that is due.
Busy == pc \in {"rotate", "open", "write"}

Tick ==
    /\ now < MaxTime
    /\ Busy /\ cur # 0 => now < at[cur] + Stall
    /\ pc = "idle" /\ buffer # {} => now < wroteAt + FlushAfter
    /\ ~MoveDue /\ ~LoadDue
    /\ now' = now + 1
    /\ UNCHANGED <<coarse, pc, cur, rotation_tp, file, buffer, wroteAt, disk, moved, loaded,
                   faults, at, read>>

Next ==
    \/ Start \/ _sink_it \/ Rotate \/ Open \/ OpenFails \/ Write \/ WriteFails
    \/ Flush \/ FlushFails \/ Kill \/ Move \/ Load \/ Tick

Spec == Init /\ [][Next]_vars

------------------------------------------------------------------------------
(* Properties *)

Lines == 1 .. MaxLines

\* The type invariant; no file is opened under the name of an hour that has not come.
TypeOK ==
    /\ now \in 0 .. MaxTime /\ coarse \in 0 .. now
    /\ pc \in {"down", "dead", "idle", "rotate", "open", "write"}
    /\ cur \in 0 .. Len(at) /\ at \in Seq(0 .. now) /\ Len(at) <= MaxLines
    /\ rotation_tp \in 0 .. MaxTime + Hour /\ file \in 0 .. HourOf(now)
    /\ buffer \subseteq Lines /\ wroteAt \in 0 .. now
    /\ disk \in [Hours -> SUBSET Lines] /\ read \in [Hours -> SUBSET Lines]
    /\ moved \subseteq Hours /\ loaded \subseteq moved
    /\ faults \in 0 .. MaxFaults

InFile(h) == disk[h] \cup (IF file = h THEN buffer ELSE {})

\* _sink_it: a line is in the file of the hour in which it was compared with rotation_tp.
\* It may be in the one before only on the very stroke of the hour, or while time()
\* lags, and in the one after only if the thread was held up over it.
LineInItsHour ==
    \A h \in Hours : \A n \in InFile(h) :
       /\ at[n] <= (h + 1) * Hour + Slack
       /\ h * Hour <= at[n] + Stall

\* log.mv.sh and mapping.redis.sh rely on it: once the file of an hour has been loaded
\* nothing is added to it, neither by a late line nor by a late flush, and no line for it
\* waits in the buffer, unless a failed write has ended the thread that would flush it:
\* such lines never get to the file at all.
LoadedIsComplete ==
    \A h \in loaded :
       /\ disk[h] = read[h]
       /\ file = h /\ buffer # {} => pc = "dead"

==============================================================================
