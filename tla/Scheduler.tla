------------------------------- MODULE Scheduler -------------------------------
(***************************************************************************)
(* The scheduler: which attestation windows get a zkTLS task.  A boot and  *)
(* every cron tick run catchUpMissedSlots, which reads the latest window   *)
(* on record and upserts the windows from there to the last full one, one  *)
(* round trip each.  The daemon may die between any two of them, a tick is *)
(* skipped while the previous run is still going on, and the operator may  *)
(* restart the daemon with another ZKTLS_WINDOW_MINUTES.                   *)
(*                                                                         *)
(* Time is counted in units that divide every window length; moment m is   *)
(* the unit from m to m + 1.                                               *)
(***************************************************************************)
EXTENDS Integers

CONSTANTS
  Lengths,   \* the values ZKTLS_WINDOW_MINUTES takes
  MaxTime    \* bound: the clock; later windows are not followed

ASSUME LengthsAssumption == Lengths \subseteq Nat \ {0} /\ Lengths # {}
ASSUME TimeAssumption == MaxTime \in Nat

VARIABLES
  now,        \* Date.now()
  daemon,     \* "down", "boot" (the first run) or "up"
  length,     \* ZKTLS_WINDOW_MS
  due,        \* the cron job is due
  windows,    \* windows with a zkTLS task: <<startTime, endTime>>
  step,       \* the run of catchUpMissedSlots: "idle", "read" or "ensure"
  current,    \* currentWindowEnd of the run
  windowEnd,  \* the window it ensures next
  first,      \* history: where the first window began
  changed     \* history: the length was changed

run == <<step, current, windowEnd>>
history == <<first, changed>>
vars == <<now, daemon, length, due, windows, run, history>>

TypeOK ==
  /\ now \in 0..MaxTime
  /\ daemon \in {"down", "boot", "up"}
  /\ length \in Lengths
  /\ due \in BOOLEAN
  /\ windows \subseteq Int \X Int
  /\ step \in {"idle", "read", "ensure"}
  /\ current \in 0..MaxTime /\ windowEnd \in Int
  /\ first \in Int
  /\ changed \in BOOLEAN

Init ==
  /\ now = 0
  /\ daemon = "down"
  /\ length \in Lengths
  /\ due = FALSE
  /\ windows = {}
  /\ step = "idle" /\ current = 0 /\ windowEnd = 0
  /\ first = 0
  /\ changed = FALSE

-----------------------------------------------------------------------------
(* Mutant: the window that is still running.                               *)
boundsRoundedUp(t, l) == t - (t % l) + l

(* getWindowBounds: where the last full window ends.                       *)
getWindowBounds(t, l) == t - (t % l)

(* Mutant: one unit more than the window.                                  *)
windowWithMargin(e, l) == <<e - l - 1, e>>

getWindowBoundsFromEnd(e, l) == <<e - l, e>>

(* The clock passes; on a boundary of the cron expression the job is due.  *)
(* At MaxTime it stands still, and later ticks count as ticks at MaxTime.  *)
Tick ==
  /\ now' = IF now < MaxTime THEN now + 1 ELSE now
  /\ due' = (due \/ (daemon = "up" /\ (now = MaxTime \/ now' % length = 0)))
  /\ UNCHANGED <<daemon, length, windows, run, history>>

StartRun(l) ==
  /\ step' = "read"
  /\ current' = getWindowBounds(now, l)
  /\ UNCHANGED windowEnd

(* startScheduler: the first run is awaited before cron is registered.     *)
Boot ==
  /\ daemon = "down"
  /\ daemon' = "boot"
  /\ \E l \in Lengths :
       /\ length' = l
       /\ changed' = (changed \/ (windows # {} /\ l # length))
       /\ StartRun(l)
  /\ UNCHANGED <<now, due, windows, first>>

(* Cron fires; `protect` skips the tick while a run is going on.           *)
Cron ==
  /\ daemon = "up" /\ due
  /\ due' = FALSE
  /\ IF step = "idle" THEN StartRun(length) ELSE UNCHANGED run
  /\ UNCHANGED <<now, daemon, length, windows, history>>

Latest(w) == w \in windows /\ \A v \in windows : v[2] <= w[2]

(* Mutant: no catch-up, only the last full window.                         *)
ReadLastOnly ==
  /\ step = "read"
  /\ step' = "ensure"
  /\ windowEnd' = current
  /\ UNCHANGED <<now, daemon, length, due, windows, current, history>>

(* The latest window is read; getWindowsToEnsure starts at its end, or at  *)
(* the last full window when nothing is missing or nothing is on record.   *)
Read ==
  /\ step = "read"
  /\ step' = "ensure"
  /\ IF windows = {}
     THEN windowEnd' = current
     ELSE \E w \in windows :
            Latest(w) /\ windowEnd' = IF w[2] >= current THEN current ELSE w[2]
  /\ UNCHANGED <<now, daemon, length, due, windows, current, history>>

(* Mutant: one window per run.                                             *)
EnsureOnce ==
  /\ step = "ensure"
  /\ windows' = windows \cup {getWindowBoundsFromEnd(windowEnd, length)}
  /\ first' = IF windows = {} THEN windowEnd - length ELSE first
  /\ windowEnd' = windowEnd + length
  /\ step' = "idle" /\ daemon' = "up"
  /\ UNCHANGED <<now, length, due, current, changed>>

(* ensureZkTLSTask upserts one window; the loop goes on to the next.       *)
Ensure ==
  /\ step = "ensure"
  /\ windows' = windows \cup {getWindowBoundsFromEnd(windowEnd, length)}
  /\ first' = IF windows = {} THEN windowEnd - length ELSE first
  /\ windowEnd' = windowEnd + length
  /\ IF windowEnd + length <= current
     THEN UNCHANGED <<step, daemon>>
     ELSE step' = "idle" /\ daemon' = "up"
  /\ UNCHANGED <<now, length, due, current, changed>>

(* A round trip fails: fatal at boot, logged by the cron job.              *)
Fail ==
  /\ step # "idle"
  /\ step' = "idle"
  /\ daemon' = IF daemon = "boot" THEN "down" ELSE "up"
  /\ UNCHANGED <<now, length, due, windows, current, windowEnd, history>>

Crash ==
  /\ daemon # "down"
  /\ daemon' = "down"
  /\ step' = "idle"
  /\ due' = FALSE
  /\ UNCHANGED <<now, length, windows, current, windowEnd, history>>

Next == Tick \/ Boot \/ Cron \/ Read \/ Ensure \/ Fail \/ Crash

Spec == Init /\ [][Next]_vars

(* Time passes, docker restarts the daemon, cron fires and a run goes on.  *)
FairSpec ==
  /\ Spec
  /\ WF_vars(Tick) /\ WF_vars(Boot) /\ WF_vars(Cron)
  /\ WF_vars(Read) /\ WF_vars(Ensure)

-----------------------------------------------------------------------------
(* Properties.                                                             *)

Covered(m) == \E w \in windows : w[1] <= m /\ m < w[2]

(* Nothing is left out: every moment from the first window on and before   *)
(* the end of some window lies in a window, whatever runs were interrupted,*)
(* skipped or restarted with another length.                               *)
EveryMomentCovered ==
  \A w \in windows : \A m \in first..(w[2] - 1) : Covered(m)

(* A window's task is not created before the window is over.               *)
OnlyFullWindows == \A w \in windows : w[2] <= now

(* README.md: "each window is exactly one task and one proof": while the   *)
(* length is not changed no moment lies in two windows.                    *)
NoMomentTwice ==
  ~changed => \A v, w \in windows : v # w => v[2] <= w[1] \/ w[2] <= v[1]

(* The scheduler catches up: once its runs are not interrupted any more,   *)
(* every moment that has passed since the first window gets a task, after  *)
(* however long a stop.  (The last windows before MaxTime are left out:    *)
(* after a change of length the boundaries may be off the new grid.)       *)
Longest == CHOOSE l \in Lengths : \A k \in Lengths : k <= l

CatchesUp ==
  <>[][~(Fail \/ Crash)]_vars =>
    \A m \in 0..(MaxTime - 2 * Longest) :
      (windows # {} /\ first <= m) ~> Covered(m)
=============================================================================
