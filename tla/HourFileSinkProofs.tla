-------------------------- MODULE HourFileSinkProofs --------------------------
(***************************************************************************)
(* Theorems about HourFileSink, for every length of the hour, lag of       *)
(* time(), stall, flush interval and cron schedule that ScheduleAssumption *)
(* allows: a line is in the file of its hour, and nothing is added to a    *)
(* file once mapping.redis.sh has read it, though opening, writing,        *)
(* flushing and the whole process may fail at any time.                    *)
(***************************************************************************)
EXTENDS HourFileSink, TLAPS

Begin(h) == h * Hour
End(h)   == (h + 1) * Hour

\* The line in hand: when it was compared, and how late the thread can be with it.
InHand ==
    /\ pc = "write" => cur # 0
    /\ pc \in {"idle", "down"} => cur = 0
    /\ Busy /\ cur # 0 => now <= at[cur] + Stall
    /\ pc = "open" /\ cur # 0 => at[cur] <= coarse + Lag
    /\ pc = "write" => at[cur] <= End(file) + Slack

\* The open file and the time of the next rotation belong together.
Rotation ==
    /\ Begin(file) <= coarse
    /\ pc = "open" => rotation_tp <= End(HourOf(coarse))
    /\ pc \in {"idle", "write"} => rotation_tp <= End(file)

\* What is buffered is young: written soon after the end of the hour of the file at the
\* latest, and flushed soon after that, unless a line has come that changes the file; what
\* a dead thread has left in the buffer may be of any age.
Buffered ==
    buffer # {} =>
       /\ pc # "down"
       /\ pc # "dead" => wroteAt <= End(file) + Slack + Stall
       /\ pc = "idle" => now <= wroteAt + FlushAfter
       /\ Busy => cur # 0 /\ at[cur] <= wroteAt + FlushAfter

\* The lines in files have been compared.
Compared == buffer \subseteq 1 .. Len(at) /\ \A h \in Hours : disk[h] \subseteq 1 .. Len(at)

\* A file is loaded LoadAt after its hour.
LoadedLate == \A h \in loaded : now >= End(h) + LoadAt

\* The inductive invariant.
IInv ==
    /\ TypeOK
    /\ InHand
    /\ Rotation
    /\ Buffered
    /\ Compared
    /\ LoadedLate
    /\ LineInItsHour
    /\ LoadedIsComplete

------------------------------------------------------------------------------
(* Hours *)

LEMMA Positive == Hour \in Nat \ {0} /\ Slack \in Nat /\ Slack <= Lag /\ Lag <= Slack + 1
  BY ScheduleAssumption DEF Slack

\* A time lies in its hour.
LEMMA HourOfBounds ==
    ASSUME NEW t \in Nat
    PROVE  HourOf(t) \in Nat /\ Begin(HourOf(t)) <= t /\ t < End(HourOf(t))
                             /\ End(HourOf(t)) <= t + Hour
  BY Positive DEF HourOf, Begin, End

LEMMA HoursMonotone ==
    ASSUME NEW g \in Nat, NEW h \in Nat, g <= h
    PROVE  Begin(g) <= Begin(h) /\ End(g) <= End(h)
  BY Positive DEF Begin, End

LEMMA HoursTyped ==
    ASSUME NEW h \in Nat
    PROVE  Begin(h) \in Nat /\ End(h) \in Nat /\ End(h) = Begin(h) + Hour /\ Begin(h + 1) = End(h)
  BY Positive DEF Begin, End

LEMMA HourOfMonotone ==
    ASSUME NEW s \in Nat, NEW t \in Nat, s <= t
    PROVE  HourOf(s) <= HourOf(t)
  <1> SUFFICES ASSUME HourOf(s) > HourOf(t) PROVE FALSE
    BY HourOfBounds
  <1>1. HourOf(s) \in Nat /\ HourOf(t) \in Nat /\ Begin(HourOf(s)) <= s /\ t < End(HourOf(t))
    BY HourOfBounds
  <1>2. HourOf(t) + 1 <= HourOf(s)
    BY <1>1
  <1>3. Begin(HourOf(t) + 1) <= Begin(HourOf(s))
    BY <1>1, <1>2, HoursMonotone
  <1>4. Begin(HourOf(t) + 1) = End(HourOf(t)) /\ End(HourOf(t)) \in Nat /\ Begin(HourOf(s)) \in Nat
    BY <1>1, HoursTyped
  <1> QED BY <1>1, <1>3, <1>4

\* When cron runs mapping.redis.sh.
LEMMA LoadTime ==
    ASSUME NEW t \in Nat, t % Hour = LoadAt, HourOf(t) - 1 \in Nat
    PROVE  t = End(HourOf(t) - 1) + LoadAt
  <1>1. t = HourOf(t) * Hour + (t % Hour)
    BY Positive DEF HourOf
  <1>2. HourOf(t) \in Nat
    BY HourOfBounds
  <1>3. HourOf(t) - 1 + 1 = HourOf(t)
    BY <1>2
  <1>4. End(HourOf(t) - 1) = HourOf(t) * Hour
    BY <1>3 DEF End
  <1> QED BY <1>1, <1>4

\* The hours of the model are those up to MaxTime.
LEMMA HoursReached ==
    ASSUME TypeOK
    PROVE  /\ Hours \subseteq Nat /\ \A h \in 0 .. HourOf(now) : h \in Hours
           /\ file \in Hours /\ file \in Nat /\ now \in Nat /\ coarse \in Nat
           /\ wroteAt \in Nat /\ rotation_tp \in Nat /\ Len(at) \in Nat
           /\ \A n \in 1 .. Len(at) : at[n] \in Nat /\ at[n] <= now
  <1> USE ScheduleAssumption
  <1>1. now \in Nat /\ MaxTime \in Nat /\ now <= MaxTime
    BY DEF TypeOK
  <1>2. HourOf(now) \in Nat /\ HourOf(MaxTime) \in Nat /\ HourOf(now) <= HourOf(MaxTime)
    BY <1>1, HourOfBounds, HourOfMonotone
  <1>3. Hours = 0 .. HourOf(MaxTime)
    BY DEF Hours, HourOf
  <1>4. Hours \subseteq Nat /\ \A h \in 0 .. HourOf(now) : h \in Hours
    BY <1>2, <1>3
  <1>5. file \in Hours /\ file \in Nat
    BY <1>2, <1>4 DEF TypeOK
  <1>6. coarse \in Nat /\ wroteAt \in Nat /\ rotation_tp \in Nat /\ Len(at) \in Nat
    BY <1>1 DEF TypeOK
  <1>7. \A n \in 1 .. Len(at) : at[n] \in 0 .. now
    BY DEF TypeOK
  <1>8. \A n \in 1 .. Len(at) : at[n] \in Nat /\ at[n] <= now
    BY <1>1, <1>7
  <1> QED BY <1>1, <1>4, <1>5, <1>6, <1>8

\* What time() answers.
LEMMA TimeTyped ==
    ASSUME TypeOK, NEW tt \in time
    PROVE  tt \in Nat /\ coarse <= tt /\ tt <= now /\ now <= tt + Lag
  <1>1. tt \in now - Lag .. now /\ tt >= coarse
    BY DEF time
  <1>2. now \in Nat /\ coarse \in Nat /\ Lag \in Nat
    BY HoursReached, ScheduleAssumption
  <1> QED BY <1>1, <1>2

------------------------------------------------------------------------------
(* Files *)

\* A line of a file, by the two bounds of LineInItsHour.
GoodLine(h, n) == at[n] <= End(h) + Slack /\ Begin(h) <= at[n] + Stall

LEMMA LinesAreGood == LineInItsHour <=> \A h \in Hours : \A n \in InFile(h) : GoodLine(h, n)
  BY DEF LineInItsHour, GoodLine, Begin, End

\* Flushing changes no file, whichever is opened next.
LEMMA FlushKeepsFiles ==
    ASSUME TypeOK, disk' = flushed, buffer' = {}
    PROVE  /\ disk' \in [Hours -> SUBSET Lines]
           /\ \A h \in Hours : InFile(h)' = InFile(h) /\ disk'[h] = InFile(h)
  <1>1. file \in Hours
    BY HoursReached
  <1>2. disk' = [disk EXCEPT ![file] = disk[file] \cup buffer]
    BY DEF flushed, With
  <1>3. \A h \in Hours : disk'[h] = InFile(h)
    BY <1>1, <1>2 DEF TypeOK, InFile
  <1>4. \A h \in Hours : InFile(h)' = disk'[h]
    BY DEF InFile
  <1>5. disk' \in [Hours -> SUBSET Lines]
    BY <1>1, <1>2 DEF TypeOK
  <1> QED BY <1>3, <1>4, <1>5

\* The last line of a file is written, and flushed, before it is loaded.
LEMMA FileNotLoaded ==
    ASSUME IInv, pc # "dead", buffer # {} \/ pc = "write"
    PROVE  now < End(file) + LoadAt /\ file \notin loaded
  <1> USE ScheduleAssumption
  <1>1. file \in Nat /\ now \in Nat /\ wroteAt \in Nat
    BY HoursReached DEF IInv
  <1>2. End(file) \in Nat /\ Slack \in Nat
    BY <1>1, HoursTyped, Positive
  <1>3. Slack + 2 * Stall + FlushAfter < LoadAt
    OBVIOUS
  <1>4. cur # 0 => at[cur] \in Nat
    BY HoursReached DEF IInv, TypeOK
  <1>5. CASE pc = "write"
    <2>1. now <= at[cur] + Stall /\ at[cur] <= End(file) + Slack /\ at[cur] \in Nat
      BY <1>4, <1>5 DEF IInv, InHand, Busy
    <2>2. now < End(file) + LoadAt
      BY <1>1, <1>2, <1>3, <2>1
    <2> QED BY <1>1, <1>2, <2>2 DEF IInv, LoadedLate
  <1>6. CASE pc # "write" /\ buffer # {}
    <2>1. wroteAt <= End(file) + Slack + Stall /\ pc \notin {"down", "dead"}
      BY <1>6 DEF IInv, Buffered
    <2>2. now <= wroteAt + FlushAfter + Stall
      <3>1. CASE pc = "idle"
        BY <1>1, <1>6, <3>1 DEF IInv, Buffered
      <3>2. CASE Busy
        <4>1. cur # 0 /\ at[cur] <= wroteAt + FlushAfter /\ now <= at[cur] + Stall
          BY <1>6, <3>2 DEF IInv, Buffered, InHand
        <4> QED BY <1>1, <1>4, <4>1
      <3> QED BY <2>1, <3>1, <3>2 DEF IInv, TypeOK, Busy
    <2>3. now < End(file) + LoadAt
      BY <1>1, <1>2, <1>3, <2>1, <2>2
    <2> QED BY <1>1, <1>2, <2>3 DEF IInv, LoadedLate
  <1> QED BY <1>5, <1>6

------------------------------------------------------------------------------
(* The steps *)

LEMMA InitIInv == Init => IInv
  <1> SUFFICES ASSUME Init PROVE IInv OBVIOUS
  <1> USE ScheduleAssumption
  <1>1. HourOf(0) \in Nat /\ End(0) \in Nat /\ Begin(0) = 0
    BY HourOfBounds, HoursTyped, Positive DEF Begin
  <1>2. at \in Seq(0 .. now) /\ Len(at) = 0
    BY DEF Init
  <1>3. TypeOK
    <2>1. /\ now \in 0 .. MaxTime /\ coarse \in 0 .. now /\ wroteAt \in 0 .. now
          /\ rotation_tp \in 0 .. MaxTime + Hour /\ file \in 0 .. HourOf(now)
          /\ faults \in 0 .. MaxFaults
      BY <1>1 DEF Init
    <2>2. cur \in 0 .. Len(at) /\ at \in Seq(0 .. now) /\ Len(at) <= MaxLines
      BY <1>2 DEF Init
    <2>3. /\ disk \in [Hours -> SUBSET Lines] /\ read \in [Hours -> SUBSET Lines]
          /\ buffer \subseteq Lines /\ moved \subseteq Hours /\ loaded \subseteq moved
          /\ pc \in {"down", "dead", "idle", "rotate", "open", "write"}
      BY DEF Init
    <2> QED BY <2>1, <2>2, <2>3 DEF TypeOK
  <1>4. InHand /\ Rotation /\ Buffered /\ LoadedLate /\ LoadedIsComplete
    BY <1>1 DEF Init, InHand, Rotation, Buffered, LoadedLate, LoadedIsComplete, Busy
  <1>5. \A h \in Hours : disk[h] = {} /\ InFile(h) = {}
    BY DEF Init, InFile
  <1>6. Compared /\ LineInItsHour
    BY <1>5 DEF Init, Compared, LineInItsHour
  <1> QED BY <1>3, <1>4, <1>6 DEF IInv

\* Steps that leave the files alone.
LEMMA FilesAlone ==
    ASSUME IInv, UNCHANGED <<disk, buffer, file, at, loaded, read>>,
           pc = "dead" => pc' = "dead"
    PROVE  Compared' /\ LineInItsHour' /\ LoadedIsComplete'
  <1>1. \A h : InFile(h)' = InFile(h)
    BY DEF InFile
  <1>2. Compared'
    BY DEF IInv, Compared
  <1>3. LineInItsHour'
    BY <1>1 DEF IInv, LineInItsHour
  <1>4. LoadedIsComplete'
    BY DEF IInv, LoadedIsComplete
  <1> QED BY <1>2, <1>3, <1>4

\* Steps that flush: the buffer moves into the file it belongs to.
LEMMA FilesFlushed ==
    ASSUME IInv, pc # "dead", disk' = flushed, buffer' = {}, UNCHANGED <<at, loaded, read>>
    PROVE  Compared' /\ LineInItsHour' /\ LoadedIsComplete'
  <1>1. TypeOK
    BY DEF IInv
  <1>2. \A h \in Hours : InFile(h)' = InFile(h) /\ disk'[h] = InFile(h)
    BY <1>1, FlushKeepsFiles
  <1>3. \A h \in Hours : InFile(h) \subseteq 1 .. Len(at)
    BY DEF IInv, Compared, InFile
  <1>4. Compared'
    BY <1>2, <1>3 DEF Compared
  <1>5. LineInItsHour'
    BY <1>2 DEF IInv, LineInItsHour
  <1>6. LoadedIsComplete'
    <2>1. \A h \in loaded : h \in Hours /\ InFile(h) = disk[h] /\ disk[h] = read[h]
      BY <1>1 DEF IInv, TypeOK, LoadedIsComplete, InFile
    <2> QED BY <1>2, <2>1 DEF LoadedIsComplete
  <1> QED BY <1>4, <1>5, <1>6

\* Steps that lose lines: some of the buffer gets to its file, some stays, the rest is gone.
LEMMA FilesShrink ==
    ASSUME IInv, file \notin loaded, NEW S \in SUBSET buffer, disk' = With(S),
           buffer' \subseteq buffer, UNCHANGED <<file, at, loaded, read>>
    PROVE  /\ disk' \in [Hours -> SUBSET Lines]
           /\ Compared' /\ LineInItsHour' /\ LoadedIsComplete'
  <1>1. TypeOK /\ file \in Hours /\ loaded \subseteq Hours
    BY HoursReached DEF IInv, TypeOK
  <1>2. disk' = [disk EXCEPT ![file] = disk[file] \cup S]
    BY DEF With
  <1>3. disk' \in [Hours -> SUBSET Lines]
    BY <1>1, <1>2 DEF TypeOK
  <1>4. \A h \in Hours : disk'[h] = IF h = file THEN disk[h] \cup S ELSE disk[h]
    BY <1>1, <1>2 DEF TypeOK
  <1>5. \A h \in Hours : InFile(h)' \subseteq InFile(h)
    BY <1>4 DEF InFile
  <1>6. Compared'
    BY <1>4 DEF IInv, Compared
  <1>7. LineInItsHour'
    BY <1>5 DEF IInv, LineInItsHour
  <1>8. LoadedIsComplete'
    BY <1>1, <1>4 DEF IInv, LoadedIsComplete
  <1> QED BY <1>3, <1>6, <1>7, <1>8

LEMMA StartStep == ASSUME IInv, Start PROVE IInv'
  <1> USE ScheduleAssumption
  <1>1. TypeOK'
    BY DEF IInv, TypeOK, Start
  <1>2. buffer = {}
    BY DEF IInv, Buffered, Start
  <1>3. InHand' /\ Rotation' /\ Buffered' /\ LoadedLate'
    BY <1>2 DEF IInv, InHand, Rotation, Buffered, LoadedLate, Start, Busy
  <1>4. Compared' /\ LineInItsHour' /\ LoadedIsComplete'
    BY FilesAlone DEF Start
  <1> QED BY <1>1, <1>3, <1>4 DEF IInv

\* A line comes: it is not later than the next rotation, or the file is changed.
LEMMA SinkStep == ASSUME IInv, _sink_it PROVE IInv'
  <1> USE ScheduleAssumption
  <1>1. TypeOK /\ now \in Nat /\ Len(at) \in Nat /\ file \in Nat /\ rotation_tp \in Nat
    BY HoursReached DEF IInv
  <1>2. at' = Append(at, now) /\ cur' = Len(at) + 1 /\ at \in Seq(0 .. now) /\ now \in 0 .. now
    BY <1>1 DEF _sink_it, TypeOK
  <1>3. /\ at' \in Seq(0 .. now) /\ Len(at') = Len(at) + 1
        /\ \A n \in 1 .. Len(at) : at'[n] = at[n]
        /\ at'[cur'] = now
    BY <1>1, <1>2
  <1>4. /\ UNCHANGED <<now, coarse, rotation_tp, file, buffer, wroteAt, disk, moved, loaded,
                       faults, read>>
        /\ pc = "idle" /\ pc' = (IF now > rotation_tp THEN "rotate" ELSE "write")
        /\ Len(at) < MaxLines
    BY DEF _sink_it
  <1>5. TypeOK'
    <2>1. cur' \in 0 .. Len(at') /\ Len(at') <= MaxLines
      BY <1>1, <1>2, <1>3, <1>4
    <2> QED BY <1>1, <1>3, <1>4, <2>1 DEF TypeOK
  <1>6. InHand'
    <2>1. rotation_tp <= End(file) /\ End(file) \in Nat /\ Slack \in Nat
      BY <1>1, <1>4, HoursTyped, Positive DEF IInv, Rotation
    <2>2. pc' = "write" => now <= End(file) + Slack
      BY <1>1, <1>4, <2>1
    <2>3. cur' # 0 /\ pc' \in {"rotate", "write"}
      BY <1>1, <1>2, <1>4
    <2> QED BY <1>1, <1>3, <1>4, <2>2, <2>3 DEF InHand, Busy
  <1>7. Rotation'
    BY <1>4 DEF IInv, Rotation
  <1>8. Buffered'
    <2>1. buffer # {} => now <= wroteAt + FlushAfter /\ wroteAt <= End(file) + Slack + Stall
      BY <1>4 DEF IInv, Buffered
    <2>2. cur' # 0 /\ pc' \in {"rotate", "write"}
      BY <1>1, <1>2, <1>4
    <2> QED BY <1>3, <1>4, <2>1, <2>2 DEF Buffered
  <1>9. LoadedLate'
    BY <1>4 DEF IInv, LoadedLate
  <1>10. \A h : InFile(h)' = InFile(h)
    BY <1>4 DEF InFile
  <1>11. \A h \in Hours : InFile(h) \subseteq 1 .. Len(at)
    BY DEF IInv, Compared, InFile
  <1>12. Compared'
    <2>1. 1 .. Len(at) \subseteq 1 .. Len(at')
      BY <1>1, <1>3
    <2> QED BY <1>4, <2>1 DEF IInv, Compared
  <1>13. LineInItsHour'
    <2>1. \A h \in Hours : \A n \in InFile(h) : at'[n] = at[n]
      BY <1>3, <1>11
    <2> QED BY <1>10, <2>1 DEF IInv, LineInItsHour
  <1>14. LoadedIsComplete'
    BY <1>4 DEF IInv, LoadedIsComplete
  <1> QED BY <1>5, <1>6, <1>7, <1>8, <1>9, <1>12, <1>13, <1>14 DEF IInv

LEMMA RotateStep == ASSUME IInv, Rotate PROVE IInv'
  <1> USE ScheduleAssumption
  <1>1. /\ TypeOK /\ now \in Nat /\ coarse \in Nat /\ file \in Nat
        /\ Begin(file) \in Nat /\ Begin(file) <= coarse
    BY HoursReached, HoursTyped DEF IInv, Rotation
  <1>2. PICK tt \in time : coarse' = tt /\ rotation_tp' = _next_rotation_tp(tt)
    BY DEF Rotate
  <1>3. tt \in Nat /\ coarse <= tt /\ tt <= now /\ now <= tt + Lag
    BY <1>1, TimeTyped
  <1>4. /\ pc = "rotate" /\ pc' = "open"
        /\ UNCHANGED <<now, cur, file, buffer, wroteAt, disk, moved, loaded, faults, at, read>>
    BY DEF Rotate
  <1>5. rotation_tp' = End(HourOf(tt)) /\ End(HourOf(tt)) \in Nat /\ End(HourOf(tt)) <= tt + Hour
    BY <1>2, <1>3, HourOfBounds, HoursTyped DEF _next_rotation_tp, End
  <1>6. TypeOK'
    <2>1. coarse' \in 0 .. now /\ rotation_tp' \in 0 .. MaxTime + Hour
      BY <1>1, <1>2, <1>3, <1>5 DEF TypeOK
    <2> QED BY <1>1, <1>4, <2>1 DEF TypeOK
  <1>7. InHand'
    <2>1. cur # 0 => at[cur] \in Nat /\ at[cur] <= now
      BY <1>1, HoursReached DEF TypeOK
    <2>2. cur # 0 => at[cur] <= tt + Lag
      BY <1>1, <1>3, <2>1
    <2> QED BY <1>2, <1>4, <2>2 DEF IInv, InHand, Busy
  <1>8. Rotation'
    BY <1>1, <1>2, <1>3, <1>4, <1>5 DEF Rotation
  <1>9. Buffered'
    BY <1>4 DEF IInv, Buffered, Busy
  <1>10. LoadedLate'
    BY <1>4 DEF IInv, LoadedLate
  <1>11. Compared' /\ LineInItsHour' /\ LoadedIsComplete'
    BY <1>4, FilesAlone
  <1> QED BY <1>6, <1>7, <1>8, <1>9, <1>10, <1>11 DEF IInv

LEMMA OpenStep == ASSUME IInv, Open PROVE IInv'
  <1> USE ScheduleAssumption
  <1>1. TypeOK /\ now \in Nat /\ coarse \in Nat /\ rotation_tp \in Nat
    BY HoursReached DEF IInv
  <1>2. PICK tt \in time : coarse' = tt /\ file' = calc_filename(tt)
    BY DEF Open
  <1>3. tt \in Nat /\ coarse <= tt /\ tt <= now /\ now <= tt + Lag
    BY <1>1, TimeTyped
  <1>4. /\ pc = "open" /\ pc' = (IF cur = 0 THEN "idle" ELSE "write")
        /\ disk' = flushed /\ buffer' = {}
        /\ UNCHANGED <<now, cur, rotation_tp, wroteAt, moved, loaded, faults, at, read>>
    BY DEF Open
  <1>5. /\ file' = HourOf(tt) /\ HourOf(tt) \in Nat /\ HourOf(tt) <= HourOf(now)
        /\ HourOf(coarse) \in Nat /\ HourOf(coarse) <= HourOf(tt) /\ HourOf(now) \in Nat
    BY <1>1, <1>2, <1>3, HourOfBounds, HourOfMonotone DEF calc_filename
  <1>6. /\ Begin(file') \in Nat /\ End(file') \in Nat /\ Begin(file') <= tt /\ tt < End(file')
        /\ End(HourOf(coarse)) <= End(file') /\ End(HourOf(coarse)) \in Nat
    BY <1>3, <1>5, HourOfBounds, HoursTyped, HoursMonotone
  <1>7. TypeOK'
    <2>1. coarse' \in 0 .. now /\ file' \in 0 .. HourOf(now)
      BY <1>1, <1>2, <1>3, <1>5
    <2>2. disk' \in [Hours -> SUBSET Lines] /\ buffer' \subseteq Lines
      BY <1>1, <1>4, FlushKeepsFiles
    <2> QED BY <1>1, <1>4, <2>1, <2>2 DEF TypeOK
  <1>8. InHand'
    <2>1. cur # 0 => /\ at[cur] \in Nat /\ at[cur] <= coarse + Lag
                     /\ now <= at[cur] + Stall
      BY <1>1, <1>4, HoursReached DEF IInv, InHand, TypeOK, Busy
    <2>2. Slack \in Nat /\ Lag <= Slack + 1
      BY Positive
    <2>3. cur # 0 => at[cur] <= End(file') + Slack
      BY <1>1, <1>3, <1>6, <2>1, <2>2
    <2> QED BY <1>4, <2>1, <2>3 DEF InHand, Busy
  <1>9. Rotation'
    <2>1. rotation_tp <= End(HourOf(coarse))
      BY <1>4 DEF IInv, Rotation
    <2>2. rotation_tp <= End(file')
      BY <1>1, <1>6, <2>1
    <2> QED BY <1>2, <1>4, <1>6, <2>2 DEF Rotation
  <1>10. Buffered' /\ LoadedLate'
    BY <1>4 DEF IInv, Buffered, LoadedLate
  <1>11. Compared' /\ LineInItsHour' /\ LoadedIsComplete'
    BY <1>4, FilesFlushed
  <1> QED BY <1>7, <1>8, <1>9, <1>10, <1>11 DEF IInv

LEMMA OpenFailsStep == ASSUME IInv, OpenFails PROVE IInv'
  <1> USE ScheduleAssumption
  <1>1. /\ TypeOK /\ now \in Nat /\ coarse \in Nat /\ file \in Nat
        /\ Begin(file) \in Nat /\ Begin(file) <= coarse
    BY HoursReached, HoursTyped DEF IInv, Rotation
  <1>2. PICK tt \in time : coarse' = tt
    BY DEF OpenFails
  <1>3. tt \in Nat /\ coarse <= tt /\ tt <= now
    BY <1>1, TimeTyped
  <1>4. /\ pc = "open" /\ pc' = (IF cur = 0 THEN "down" ELSE "dead")
        /\ disk' = flushed /\ buffer' = {} /\ faults' \in 0 .. MaxFaults
        /\ UNCHANGED <<now, cur, rotation_tp, file, wroteAt, moved, loaded, at, read>>
    BY <1>1 DEF OpenFails, TypeOK
  <1>5. TypeOK'
    <2>1. coarse' \in 0 .. now
      BY <1>1, <1>2, <1>3
    <2>2. disk' \in [Hours -> SUBSET Lines] /\ buffer' \subseteq Lines
      BY <1>1, <1>4, FlushKeepsFiles
    <2> QED BY <1>1, <1>4, <2>1, <2>2 DEF TypeOK
  <1>6. InHand'
    BY <1>4 DEF InHand, Busy
  <1>7. Rotation'
    BY <1>1, <1>2, <1>3, <1>4 DEF Rotation
  <1>8. Buffered' /\ LoadedLate'
    BY <1>4 DEF IInv, Buffered, LoadedLate
  <1>9. Compared' /\ LineInItsHour' /\ LoadedIsComplete'
    BY <1>4, FilesFlushed
  <1> QED BY <1>5, <1>6, <1>7, <1>8, <1>9 DEF IInv

LEMMA WriteStep == ASSUME IInv, Write PROVE IInv'
  <1> USE ScheduleAssumption
  <1>1. /\ TypeOK /\ now \in Nat /\ coarse \in Nat /\ file \in Nat /\ file \in Hours
        /\ Hours \subseteq Nat /\ Len(at) \in Nat /\ Slack \in Nat
        /\ Begin(file) \in Nat /\ End(file) \in Nat
    BY HoursReached, HoursTyped, Positive DEF IInv
  <1>2. /\ pc = "write" /\ buffer' = buffer \cup {cur} /\ wroteAt' = now
        /\ pc' = "idle" /\ cur' = 0
        /\ UNCHANGED <<now, coarse, rotation_tp, file, disk, moved, loaded, faults, at, read>>
    BY DEF Write
  <1>3. cur \in 1 .. Len(at) /\ cur \in Lines
    BY <1>1, <1>2 DEF IInv, InHand, TypeOK, Lines
  <1>4. at[cur] \in Nat /\ now <= at[cur] + Stall /\ at[cur] <= End(file) + Slack
    BY <1>1, <1>2, <1>3, HoursReached DEF IInv, InHand, Busy
  <1>5. file \notin loaded
    BY <1>2, FileNotLoaded
  <1>6. TypeOK'
    <2>1. buffer' \subseteq Lines /\ wroteAt' \in 0 .. now /\ cur' \in 0 .. Len(at)
      BY <1>1, <1>2, <1>3 DEF TypeOK
    <2> QED BY <1>1, <1>2, <2>1 DEF TypeOK
  <1>7. InHand' /\ Rotation' /\ LoadedLate'
    BY <1>2 DEF IInv, InHand, Rotation, LoadedLate, Busy
  <1>8. Buffered'
    <2>1. now <= End(file) + Slack + Stall /\ now <= now + FlushAfter
      BY <1>1, <1>4
    <2> QED BY <1>2, <2>1 DEF Buffered, Busy
  <1>9. Compared'
    BY <1>2, <1>3 DEF IInv, Compared
  <1>10. \A h \in Hours : InFile(h)' = InFile(h) \cup (IF h = file THEN {cur} ELSE {})
    BY <1>2 DEF InFile
  <1>11. LineInItsHour'
    <2>1. GoodLine(file, cur)
      <3>1. Begin(file) <= coarse /\ coarse <= now
        BY <1>1 DEF IInv, Rotation, TypeOK
      <3> QED BY <1>1, <1>4, <3>1 DEF GoodLine
    <2>2. \A h \in Hours : \A n \in InFile(h)' : GoodLine(h, n)
      BY <1>10, <2>1, LinesAreGood DEF IInv
    <2>3. \A h, n : GoodLine(h, n)' <=> GoodLine(h, n)
      BY <1>2 DEF GoodLine
    <2>4. LineInItsHour' <=> \A h \in Hours : \A n \in InFile(h)' : GoodLine(h, n)'
      BY DEF LineInItsHour, GoodLine, Begin, End
    <2> QED BY <2>2, <2>3, <2>4
  <1>12. LoadedIsComplete'
    <2>1. loaded \subseteq Hours
      BY <1>1 DEF TypeOK
    <2> QED BY <1>2, <1>5, <2>1 DEF IInv, LoadedIsComplete
  <1> QED BY <1>6, <1>7, <1>8, <1>9, <1>11, <1>12 DEF IInv

\* The thread dies in a write: what it leaves in the buffer is for a file not yet loaded.
LEMMA WriteFailsStep == ASSUME IInv, WriteFails PROVE IInv'
  <1> USE ScheduleAssumption
  <1>1. TypeOK
    BY DEF IInv
  <1>2. /\ pc = "write" /\ pc' = "dead" /\ faults' \in 0 .. MaxFaults
        /\ UNCHANGED <<now, coarse, cur, rotation_tp, file, wroteAt, moved, loaded, at, read>>
    BY <1>1 DEF WriteFails, TypeOK
  <1>3. PICK n \in 1 .. cur : /\ disk' = With({l \in buffer : l < n})
                             /\ buffer' \in {{}, {l \in buffer : l >= n}}
    BY DEF WriteFails
  <1>4. buffer' \subseteq buffer /\ {l \in buffer : l < n} \in SUBSET buffer
    BY <1>3
  <1>5. file \notin loaded
    BY <1>2, FileNotLoaded
  <1>6. /\ disk' \in [Hours -> SUBSET Lines]
        /\ Compared' /\ LineInItsHour' /\ LoadedIsComplete'
    BY <1>2, <1>3, <1>4, <1>5, FilesShrink
  <1>7. TypeOK'
    BY <1>1, <1>2, <1>4, <1>6 DEF TypeOK
  <1>8. InHand' /\ Rotation' /\ Buffered' /\ LoadedLate'
    BY <1>2 DEF IInv, InHand, Rotation, Buffered, LoadedLate, Busy
  <1> QED BY <1>6, <1>7, <1>8 DEF IInv

\* Lines dropped by a flush that fails are for a file not yet loaded.
LEMMA FlushFailsStep == ASSUME IInv, FlushFails PROVE IInv'
  <1> USE ScheduleAssumption
  <1>1. TypeOK
    BY DEF IInv
  <1>2. /\ pc \in {"idle", "open"} /\ buffer # {} /\ faults' \in 0 .. MaxFaults
        /\ buffer' \subseteq buffer
        /\ UNCHANGED <<now, coarse, pc, cur, rotation_tp, file, wroteAt, disk, moved, loaded, at,
                       read>>
    BY <1>1 DEF FlushFails, TypeOK
  <1>3. file \notin loaded
    BY <1>2, FileNotLoaded
  <1>4. TypeOK'
    BY <1>1, <1>2 DEF TypeOK
  <1>5. InHand' /\ Rotation' /\ Buffered' /\ LoadedLate'
    BY <1>2 DEF IInv, InHand, Rotation, Buffered, LoadedLate, Busy
  <1>6. \A h : InFile(h)' \subseteq InFile(h)
    BY <1>2 DEF InFile
  <1>7. Compared'
    BY <1>2 DEF IInv, Compared
  <1>8. LineInItsHour'
    BY <1>2, <1>6 DEF IInv, LineInItsHour
  <1>9. LoadedIsComplete'
    BY <1>2, <1>3 DEF IInv, LoadedIsComplete
  <1> QED BY <1>4, <1>5, <1>7, <1>8, <1>9 DEF IInv

LEMMA FlushStep == ASSUME IInv, Flush PROVE IInv'
  <1>1. TypeOK
    BY DEF IInv
  <1>2. /\ pc = "idle" /\ disk' = flushed /\ buffer' = {}
        /\ UNCHANGED <<now, coarse, pc, cur, rotation_tp, file, wroteAt, moved, loaded, faults,
                       at, read>>
    BY DEF Flush
  <1>3. TypeOK'
    <2>1. disk' \in [Hours -> SUBSET Lines] /\ buffer' \subseteq Lines
      BY <1>1, <1>2, FlushKeepsFiles
    <2> QED BY <1>1, <1>2, <2>1 DEF TypeOK
  <1>4. InHand' /\ Rotation' /\ Buffered' /\ LoadedLate'
    BY <1>2 DEF IInv, InHand, Rotation, Buffered, LoadedLate, Busy
  <1>5. Compared' /\ LineInItsHour' /\ LoadedIsComplete'
    BY <1>2, FilesFlushed
  <1> QED BY <1>3, <1>4, <1>5 DEF IInv

\* The buffer is lost, the files are not.
LEMMA KillStep == ASSUME IInv, Kill PROVE IInv'
  <1> USE ScheduleAssumption
  <1>1. TypeOK /\ loaded \subseteq Hours
    BY DEF IInv, TypeOK
  <1>2. /\ pc' = "down" /\ cur' = 0 /\ buffer' = {} /\ faults' \in 0 .. MaxFaults
        /\ UNCHANGED <<now, coarse, rotation_tp, file, wroteAt, disk, moved, loaded, at, read>>
    BY <1>1 DEF Kill, TypeOK
  <1>3. TypeOK'
    <2>1. cur' \in 0 .. Len(at)
      BY <1>1, <1>2, HoursReached
    <2> QED BY <1>1, <1>2, <2>1 DEF TypeOK
  <1>4. InHand' /\ Rotation' /\ Buffered' /\ LoadedLate'
    BY <1>2 DEF IInv, InHand, Rotation, Buffered, LoadedLate, Busy
  <1>5. \A h : InFile(h)' = disk[h] /\ disk[h] \subseteq InFile(h)
    BY <1>2 DEF InFile
  <1>6. Compared'
    BY <1>2 DEF IInv, Compared
  <1>7. LineInItsHour'
    BY <1>2, <1>5 DEF IInv, LineInItsHour
  <1>8. LoadedIsComplete'
    BY <1>2 DEF IInv, LoadedIsComplete
  <1> QED BY <1>3, <1>4, <1>6, <1>7, <1>8 DEF IInv

\* log.mv.sh changes the name of the file only.
LEMMA MoveStep == ASSUME IInv, Move PROVE IInv'
  <1>1. TypeOK /\ now \in Nat
    BY HoursReached DEF IInv
  <1>2. /\ moved' = moved \cup {PastHour} /\ PastHour >= 0
        /\ UNCHANGED <<now, coarse, pc, cur, rotation_tp, file, buffer, wroteAt, disk, loaded,
                       faults, at, read>>
    BY DEF Move, MoveDue
  <1>3. PastHour \in Hours
    <2>1. HourOf(now) \in Nat
      BY <1>1, HourOfBounds
    <2>2. PastHour \in 0 .. HourOf(now)
      BY <1>2, <2>1 DEF PastHour
    <2> QED BY <1>1, <2>2, HoursReached
  <1>4. TypeOK'
    BY <1>1, <1>2, <1>3 DEF TypeOK
  <1>5. InHand' /\ Rotation' /\ Buffered' /\ LoadedLate'
    BY <1>2 DEF IInv, InHand, Rotation, Buffered, LoadedLate, Busy
  <1>6. Compared' /\ LineInItsHour' /\ LoadedIsComplete'
    BY <1>2, FilesAlone
  <1> QED BY <1>4, <1>5, <1>6 DEF IInv

\* By the time of mapping.redis.sh no line of the past hour is in the buffer of a thread
\* that can still flush it.
LEMMA LoadStep == ASSUME IInv, Load PROVE IInv'
  <1> USE ScheduleAssumption
  <1> DEFINE p == PastHour
  <1>1. TypeOK /\ now \in Nat /\ file \in Nat /\ Hours \subseteq Nat
    BY HoursReached DEF IInv
  <1>2. /\ now % Hour = LoadAt /\ p \in moved \ loaded /\ loaded' = loaded \cup {p}
        /\ read' = [read EXCEPT ![p] = disk[p]]
        /\ UNCHANGED <<now, coarse, pc, cur, rotation_tp, file, buffer, wroteAt, disk, moved,
                       faults, at>>
    BY DEF Load, LoadDue
  <1>3. p \in Hours /\ p \in Nat
    BY <1>1, <1>2 DEF TypeOK
  <1>4. now = End(p) + LoadAt /\ End(p) \in Nat
    BY <1>1, <1>2, <1>3, LoadTime, HoursTyped DEF PastHour
  <1>5. TypeOK'
    BY <1>1, <1>2, <1>3 DEF TypeOK
  <1>6. InHand' /\ Rotation' /\ Buffered' /\ Compared'
    BY <1>2 DEF IInv, InHand, Rotation, Buffered, Compared, Busy
  <1>7. LoadedLate'
    BY <1>1, <1>2, <1>4 DEF IInv, LoadedLate
  <1>8. \A h : InFile(h)' = InFile(h)
    BY <1>2 DEF InFile
  <1>9. LineInItsHour'
    BY <1>2, <1>8 DEF IInv, LineInItsHour
  <1>10. file = p /\ buffer # {} => pc = "dead"
    BY <1>1, <1>4, FileNotLoaded
  <1>11. LoadedIsComplete'
    <2>1. read'[p] = disk[p] /\ \A h \in loaded : read'[h] = read[h]
      BY <1>1, <1>2, <1>3 DEF TypeOK
    <2> QED BY <1>2, <1>10, <2>1 DEF IInv, LoadedIsComplete
  <1> QED BY <1>5, <1>6, <1>7, <1>9, <1>11 DEF IInv

\* Time passes, and not over what is due.
LEMMA TickStep == ASSUME IInv, Tick PROVE IInv'
  <1> USE ScheduleAssumption
  <1>1. /\ TypeOK /\ now \in Nat /\ coarse \in Nat /\ wroteAt \in Nat /\ file \in Nat
        /\ Hours \subseteq Nat
    BY HoursReached DEF IInv
  <1>2. /\ now < MaxTime /\ now' = now + 1
        /\ Busy /\ cur # 0 => now < at[cur] + Stall
        /\ pc = "idle" /\ buffer # {} => now < wroteAt + FlushAfter
        /\ UNCHANGED <<coarse, pc, cur, rotation_tp, file, buffer, wroteAt, disk, moved, loaded,
                       faults, at, read>>
    BY DEF Tick
  <1>3. TypeOK'
    <2>1. HourOf(now) <= HourOf(now + 1) /\ HourOf(now) \in Nat /\ HourOf(now + 1) \in Nat
      BY <1>1, HourOfMonotone, HourOfBounds
    <2>2. file' \in 0 .. HourOf(now')
      BY <1>1, <1>2, <2>1 DEF TypeOK
    <2>3. now' \in 0 .. MaxTime /\ coarse' \in 0 .. now' /\ wroteAt' \in 0 .. now'
      BY <1>1, <1>2 DEF TypeOK
    <2>4. at' \in Seq(0 .. now')
      <3>1. 0 .. now \subseteq 0 .. now'
        BY <1>1, <1>2
      <3> QED BY <1>1, <1>2, <3>1 DEF TypeOK
    <2> QED BY <1>1, <1>2, <2>2, <2>3, <2>4 DEF TypeOK
  <1>4. InHand'
    <2>1. cur # 0 => at[cur] \in Nat
      BY <1>1, HoursReached DEF TypeOK
    <2>2. Busy /\ cur # 0 => now + 1 <= at[cur] + Stall
      BY <1>1, <1>2, <2>1
    <2> QED BY <1>2, <2>2 DEF IInv, InHand, Busy
  <1>5. Rotation'
    BY <1>2 DEF IInv, Rotation
  <1>6. Buffered'
    <2>1. pc = "idle" /\ buffer # {} => now + 1 <= wroteAt + FlushAfter
      BY <1>1, <1>2
    <2> QED BY <1>2, <2>1 DEF IInv, Buffered, Busy
  <1>7. LoadedLate'
    <2>1. \A h \in loaded : h \in Nat
      BY <1>1 DEF TypeOK
    <2>2. \A h \in loaded : now + 1 >= End(h) + LoadAt
      BY <1>1, <2>1, HoursTyped DEF IInv, LoadedLate
    <2> QED BY <1>2, <2>2 DEF LoadedLate
  <1>8. Compared' /\ LineInItsHour' /\ LoadedIsComplete'
    BY <1>2, FilesAlone
  <1> QED BY <1>3, <1>4, <1>5, <1>6, <1>7, <1>8 DEF IInv

------------------------------------------------------------------------------
(* The theorems *)

LEMMA NextIInv == IInv /\ [Next]_vars => IInv'
  <1> SUFFICES ASSUME IInv, [Next]_vars PROVE IInv' OBVIOUS
  <1>1. CASE UNCHANGED vars
    <2>1. \A h : InFile(h)' = InFile(h)
      BY <1>1 DEF vars, InFile
    <2> QED BY <1>1, <2>1 DEF vars, IInv, TypeOK, InHand, Rotation, Buffered, Busy, Compared,
                LoadedLate, LineInItsHour, LoadedIsComplete
  <1> QED BY <1>1, StartStep, SinkStep, RotateStep, OpenStep, OpenFailsStep, WriteStep,
             WriteFailsStep, FlushStep, FlushFailsStep, KillStep, MoveStep, LoadStep, TickStep DEF Next

LEMMA InvHolds == Spec => []IInv
  BY InitIInv, NextIInv, PTL DEF Spec

\* Type correctness; the file that is open is never the one of an hour that has not come.
THEOREM TypeCorrect == Spec => []TypeOK
  BY InvHolds, PTL DEF IInv

\* _sink_it and the three readings of the clock: a line is in the file of the hour in which
\* it was compared, but for the lag of time() and the time the thread was held up.
THEOREM LinesInTheirHour == Spec => []LineInItsHour
  BY InvHolds, PTL DEF IInv

\* log.mv.sh, mapping.redis.sh and the buffer of stdio: once a file has been loaded nothing
\* is added to it, and nothing that will be flushed waits for it, whatever the schedule, if
\* LoadAt exceeds what ScheduleAssumption says.  It holds through failed opens, writes and
\* flushes: only a thread that a failed write has ended may keep lines of a loaded file.
THEOREM LoadedFilesAreComplete == Spec => []LoadedIsComplete
  BY InvHolds, PTL DEF IInv

==============================================================================
