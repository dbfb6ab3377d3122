------------------------------ MODULE History ------------------------------
(***************************************************************************)
(* history.py: the coulomb counter and the charge-cycle counter, and the   *)
(* file they survive in.                                                   *)
(*                                                                         *)
(* Time is counted in ticks, currents in charge units per tick, and SoC in *)
(* the charge left in the bank, so SoC 100% is Capacity.  Voltage is left  *)
(* out: it scales charge to energy, and its lifetime extremes, like the    *)
(* last discharge, are a plain minimum, maximum or copy.  Two clocks       *)
(* matter: the wall clock, which can be set, measures the interval to      *)
(* integrate; the monotonic clock, which restarts with the machine,        *)
(* throttles the writes.                                                   *)
(***************************************************************************)
EXTENDS Integers

CONSTANTS
  Capacity,      \* installed_capacity_ah
  Currents,      \* currents a reading may show; positive charges
  MaxCurrent,    \* none of them is larger: a register has 16 bits
  FullSoc,       \* FULL_CHARGE_SOC_THRESHOLD
  RearmSoc,      \* FULL_CHARGE_REARM_SOC
  MaxDt,         \* MAX_REASONABLE_DT_S
  SaveInterval,  \* SAVE_INTERVAL_S
  Leaps,         \* steps the wall clock may be set by
  MaxTime, MaxLeaps,              \* bounds of the exploration
  Absent,        \* None
  FileFaults     \* reads and writes of history.json may fail

ASSUME ConstantsAssumption ==
  /\ Capacity \in Nat \ {0}
  /\ MaxCurrent \in Nat /\ Currents \subseteq -MaxCurrent .. MaxCurrent
  /\ FullSoc \in 0 .. Capacity /\ RearmSoc \in 0 .. FullSoc
  /\ MaxDt \in Nat \ {0} /\ SaveInterval \in Nat \ {0}
  /\ Leaps \subseteq Int
  /\ MaxTime \in Nat /\ MaxLeaps \in Nat
  /\ FileFaults \in BOOLEAN
  /\ Absent \notin Int

Unset == -1

\* What a cycle reads; Absent when no pack is present, and then voltage,
\* current and SoC are all None.
Readings == [current : Currents, soc : 0 .. Capacity] \cup {Absent}

VARIABLES
  now,        \* time.time()
  mono,       \* time.monotonic()
  up,         \* the daemon is running
  hist,       \* its history_state
  file,       \* history.json; the fresh state stands for no file
  lastSaved,  \* _last_saved_monotonic
  elapsed,    \* history variable: true time since the first start
  leaps,      \* history variable: how often the wall clock was set
  fulls,      \* history variable: full charges witnessed by any process
  dipped,     \* history variable: SoC was seen below RearmSoc since the last one
  killed,     \* history variable: some daemon died without SIGTERM
  unread,     \* history variable: some read of the file failed
  unwritten   \* history variable: some write of the file failed

vars == <<now, mono, up, hist, file, lastSaved, elapsed, leaps, fulls, dipped,
          killed, unread, unwritten>>
seen == <<fulls, dipped>>

States ==
  [charged : Nat, drawn : Nat, consumed : 0 .. Capacity \cup {Unset},
   deepest : 0 .. Capacity, cycles : Nat,
   armed : BOOLEAN, last_update : Int \cup {Absent}]

\* _FRESH_STATE_TEMPLATE.
Fresh ==
  [charged |-> 0, drawn |-> 0, consumed |-> Unset, deepest |-> 0,
   cycles |-> 0, armed |-> TRUE, last_update |-> Absent]

----------------------------------------------------------------------------
(* update_history(), in the order of its statements.                       *)

Least(a, b) == IF a <= b THEN a ELSE b
Greatest(a, b) == IF a >= b THEN a ELSE b

\* Variant: any step forward is integrated, however long.
IntervalUnlimited(h, t) ==
  IF h.last_update = Absent \/ t < h.last_update THEN 0 ELSE t - h.last_update

\* The interval to integrate; 0 when the clock moved back or too far.
Interval(h, t) ==
  IF h.last_update = Absent THEN 0
  ELSE IF 0 < t - h.last_update /\ t - h.last_update <= MaxDt
       THEN t - h.last_update ELSE 0

Seeded(h, r) ==
  IF h.consumed = Unset THEN [h EXCEPT !.consumed = Capacity - r.soc] ELSE h

\* Variant: the counter is not clamped to the nameplate capacity.
IntegratedUnclamped(h, q) ==
  IF q > 0 THEN [h EXCEPT !.charged = @ + q, !.consumed = Greatest(0, @ - q)]
  ELSE [h EXCEPT !.drawn = @ - q, !.consumed = @ - q]

\* A charge of q, positive or negative, since the last update.
Integrated(h, q) ==
  IF q > 0 THEN [h EXCEPT !.charged = @ + q, !.consumed = Greatest(0, @ - q)]
  ELSE IF q < 0 THEN [h EXCEPT !.drawn = @ - q, !.consumed = Least(Capacity, @ - q)]
  ELSE h

\* Variant: no hysteresis, the counter is armed again at once.
CountedAtOnce(h, soc) ==
  IF soc >= FullSoc
    THEN [h EXCEPT !.deepest = Greatest(@, h.consumed),
                   !.cycles = @ + 1, !.consumed = 0]
    ELSE [h EXCEPT !.armed = TRUE]

\* Full-charge detection with its hysteresis.
Counted(h, soc) ==
  IF soc >= FullSoc /\ h.armed
    THEN [h EXCEPT !.deepest = Greatest(@, h.consumed),
                   !.cycles = @ + 1, !.consumed = 0, !.armed = FALSE]
  ELSE IF soc < RearmSoc THEN [h EXCEPT !.armed = TRUE]
  ELSE h

Updated(h, r, t) ==
  LET h1 == [h EXCEPT !.last_update = t] IN
  IF r = Absent THEN h1
  ELSE Counted(Integrated(Seeded(h1, r), r.current * Interval(h, t)), r.soc)

----------------------------------------------------------------------------
Init ==
  /\ now = 0 /\ mono = 0 /\ elapsed = 0
  /\ up = FALSE
  /\ hist = Fresh /\ file = Fresh
  /\ lastSaved = 0
  /\ leaps = 0 /\ fulls = 0 /\ dipped = TRUE
  /\ killed = FALSE /\ unread = FALSE /\ unwritten = FALSE

\* Variant: the interval itself still counts as too early.
SaveDueLate(age) == age > SaveInterval

SaveDue(age) == age >= SaveInterval

WriteOk == file' = hist' /\ lastSaved' = mono' /\ UNCHANGED unwritten

WriteFails(since) ==
  FileFaults /\ unwritten' = TRUE /\ lastSaved' = since /\ UNCHANGED file

NoWrite(since) == lastSaved' = since /\ UNCHANGED <<file, unwritten>>

\* Variant: the throttle holds at shutdown too.
SaveThrottled(force, since) ==
  \/ SaveDue(mono' - since) /\ (WriteOk \/ WriteFails(since))
  \/ ~SaveDue(mono' - since) /\ NoWrite(since)

\* save_history() of the new state: atomic; since is the time of the last
\* write, which a failed one leaves alone.
Save(force, since) ==
  \/ (force \/ SaveDue(mono' - since)) /\ (WriteOk \/ WriteFails(since))
  \/ ~force /\ ~SaveDue(mono' - since) /\ NoWrite(since)

\* What the readings show, whichever process sees it and whatever it keeps.
Witness(r) ==
  LET full == r # Absent /\ r.soc >= FullSoc /\ dipped
      low  == r # Absent /\ r.soc < RearmSoc
  IN  /\ fulls' = IF full THEN fulls + 1 ELSE fulls
      /\ dipped' = ((dipped /\ ~full) \/ low)

\* A tick on both clocks.
Elapse ==
  /\ elapsed < MaxTime
  /\ elapsed' = elapsed + 1 /\ now' = now + 1 /\ mono' = mono + 1

\* The history part of one poll cycle, on the history h.
Advance(h, r, since) ==
  /\ hist' = Updated(h, r, now')
  /\ Save(FALSE, since)
  /\ Witness(r)

\* The poll timer fires.
Cycle(r) ==
  /\ up
  /\ Elapse
  /\ Advance(hist, r, lastSaved)
  /\ UNCHANGED <<up, leaps, killed, unread>>

\* SIGTERM: a forced save, then the main loop ends.
Shutdown ==
  /\ up
  /\ up' = FALSE
  /\ UNCHANGED <<now, mono, hist, elapsed, leaps, seen, killed, unread>>
  /\ Save(TRUE, lastSaved)

Crash ==
  /\ up
  /\ up' = FALSE
  /\ killed' = TRUE
  /\ UNCHANGED <<now, mono, hist, file, lastSaved, elapsed, leaps, seen, unread, unwritten>>

\* The machine loses power or restarts: so does the monotonic clock.
Reboot ==
  /\ up' = FALSE
  /\ mono' = 0
  /\ killed' = (killed \/ up)
  /\ UNCHANGED <<now, hist, file, lastSaved, elapsed, leaps, seen, unread, unwritten>>

\* Variant: the cycle counter is not among the keys that are loaded.
LoadedPartly(f) == [f EXCEPT !.cycles = 0]

\* The keys of the template, taken from the file.
Loaded(f) == f

\* A new process: load_history(), where an unreadable file counts as none,
\* and the first cycle, which the constructor runs.
Start(r) ==
  /\ ~up
  /\ up' = TRUE
  /\ Elapse
  /\ \/ Advance(Loaded(file), r, 0) /\ UNCHANGED unread
     \/ FileFaults /\ Advance(Fresh, r, 0) /\ unread' = TRUE
  /\ UNCHANGED <<leaps, killed>>

\* Time passes without a cycle: the daemon is down, or a cycle is slow.
Tick ==
  /\ Elapse
  /\ UNCHANGED <<up, hist, file, lastSaved, leaps, seen, killed, unread, unwritten>>

\* The wall clock is set, by NTP or GPS.
SetClock(d) ==
  /\ leaps < MaxLeaps
  /\ leaps' = leaps + 1
  /\ now' = now + d
  /\ UNCHANGED <<mono, up, hist, file, lastSaved, elapsed, seen, killed, unread, unwritten>>

Next ==
  \/ \E r \in Readings : Start(r) \/ Cycle(r)
  \/ Shutdown \/ Crash \/ Reboot \/ Tick
  \/ \E d \in Leaps : SetClock(d)

Spec == Init /\ [][Next]_vars

----------------------------------------------------------------------------
(* Properties *)

\* Types of all variables; the coulomb counter stays within 0 and the
\* nameplate capacity, whatever is integrated (the clamps of update_history).
TypeOK ==
  /\ now \in Int /\ mono \in Nat /\ elapsed \in Nat
  /\ up \in BOOLEAN
  /\ hist \in States /\ file \in States
  /\ lastSaved \in Nat
  /\ leaps \in Nat /\ fulls \in Nat
  /\ dipped \in BOOLEAN
  /\ killed \in BOOLEAN /\ unread \in BOOLEAN /\ unwritten \in BOOLEAN

\* The hysteresis survives kills, failed writes and reloads of older files:
\* neither the running history nor the file ever holds more charge cycles
\* than there were full charges.  One stay at the top counts at most once.
CyclesNotInvented == hist.cycles <= fulls /\ file.cycles <= fulls

\* Stops by SIGTERM lose no full charge: as long as no process was killed and
\* no read or write failed, every full charge witnessed is counted, across any
\* number of restarts (the forced save of shutdown()).
NoCycleLost ==
  ~killed /\ ~unread /\ ~unwritten => hist.cycles = fulls

\* What can be charged or drawn in a time.
Charge(time) == MaxCurrent * time

\* No stretch of time is integrated twice, across kills, reloads of an older
\* file and changes of the wall clock: each change can add at most what fits
\* in one MAX_REASONABLE_DT_S.
ChargeNotInvented ==
  hist.charged + hist.drawn <= Charge(elapsed + MaxDt * leaps)

\* What a kill can lose: without failed writes and clock changes, the charge
\* counted since the file was written stays within the save interval plus the
\* one interval bridged at the start, which the throttle's first tick after a
\* reboot is part of.
LossBounded ==
  ~unwritten /\ leaps = 0 =>
    (hist.charged + hist.drawn) - (file.charged + file.drawn)
      <= Charge((SaveInterval - 1) + (MaxDt - 1))

\* Lifetime counters never go back in the file unless a read of it failed.
LifetimeCountersKept ==
  [][~unread' =>
       /\ file'.charged >= file.charged
       /\ file'.drawn >= file.drawn
       /\ file'.cycles >= file.cycles
       /\ file'.deepest >= file.deepest]_file

=============================================================================
