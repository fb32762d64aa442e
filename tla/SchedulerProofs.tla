---------------------------- MODULE SchedulerProofs ----------------------------
(***************************************************************************)
(* Proofs about Scheduler, for any set of window lengths and any clock.    *)
(***************************************************************************)
EXTENDS Scheduler, TLAPS

(***************************************************************************)
(* EveryMomentCovered is not inductive: what a run adds next must touch    *)
(* what is there.  RunTouches says so of a run in progress; RunIsPast is   *)
(* the same for OnlyFullWindows.                                           *)
(***************************************************************************)
RunTouches ==
  step = "ensure" =>
    IF windows = {} THEN windowEnd = current
                    ELSE \E w \in windows : windowEnd <= w[2] + length

RunIsPast ==
  /\ current <= now
  /\ step = "ensure" => windowEnd <= current

IInv == TypeOK /\ EveryMomentCovered /\ OnlyFullWindows /\ RunTouches /\ RunIsPast

USE LengthsAssumption, TimeAssumption DEF LengthsAssumption, TimeAssumption

LEMMA WindowBounds ==
  ASSUME NEW t \in Nat, NEW l \in Nat \ {0}
  PROVE  getWindowBounds(t, l) \in 0..t
BY DEF getWindowBounds

LEMMA InitIInv == Init => IInv
<1> SUFFICES ASSUME Init PROVE IInv
  OBVIOUS
<1>1. TypeOK
  <2>1. windows \subseteq Int \X Int
    BY DEF Init
  <2>2. now \in 0..MaxTime /\ current \in 0..MaxTime /\ windowEnd \in Int /\ first \in Int
    BY DEF Init
  <2>3. due \in BOOLEAN /\ changed \in BOOLEAN
    BY DEF Init
  <2>4. QED
    BY <2>1, <2>2, <2>3 DEF Init, TypeOK
<1>2. windows = {} /\ step = "idle" /\ current = 0 /\ now = 0
  BY DEF Init
<1>3. EveryMomentCovered /\ OnlyFullWindows
  BY <1>2 DEF EveryMomentCovered, OnlyFullWindows
<1>4. RunTouches
  BY <1>2 DEF RunTouches
<1>5. RunIsPast
  BY <1>2 DEF RunIsPast
<1>6. QED
  BY <1>1, <1>3, <1>4, <1>5 DEF IInv

(* Only Ensure touches the windows: everything else keeps what is said     *)
(* about them alone.                                                       *)
LEMMA WindowsKept ==
  ASSUME EveryMomentCovered, OnlyFullWindows, TypeOK,
         UNCHANGED <<windows, first>>, now <= now', now' \in Int
  PROVE  EveryMomentCovered' /\ OnlyFullWindows'
BY DEF EveryMomentCovered, OnlyFullWindows, Covered, TypeOK

(* The step that matters: the new window reaches back to the end of an old *)
(* one, so a moment before its end lies in an old window or in it.         *)
LEMMA EnsureCovers ==
  ASSUME IInv, Ensure
  PROVE  EveryMomentCovered'
<1> DEFINE new == <<windowEnd - length, windowEnd>>
<1>1. /\ windows' = windows \cup {new} /\ windowEnd \in Int /\ length \in Nat \ {0}
      /\ windows \subseteq Int \X Int /\ new \in Int \X Int
      /\ new[1] = windowEnd - length /\ new[2] = windowEnd
  BY DEF Ensure, IInv, TypeOK, getWindowBoundsFromEnd
<1> HIDE DEF new
<1> SUFFICES ASSUME NEW w \in windows', NEW m \in first'..(w[2] - 1) PROVE Covered(m)'
  BY DEF EveryMomentCovered
<1>2. w[2] \in Int
  BY <1>1
<1>3. CASE windows = {}
  <2>1. first' = windowEnd - length /\ w = new
    BY <1>1, <1>3 DEF Ensure
  <2>2. QED
    BY <1>1, <2>1 DEF Covered
<1>4. CASE windows # {}
  <2>1. first' = first /\ first \in Int
    BY <1>4 DEF Ensure, IInv, TypeOK
  <2>2. CASE \E v \in windows : m < v[2]
    <3>1. PICK v \in windows : m < v[2]
      BY <2>2
    <3>2. v[2] \in Int /\ m \in first..(v[2] - 1)
      BY <1>1, <1>2, <2>1, <3>1
    <3>3. Covered(m)
      BY <3>2 DEF IInv, EveryMomentCovered
    <3>4. QED
      BY <1>1, <3>3 DEF Covered
  <2>3. CASE \A v \in windows : ~(m < v[2])
    <3>1. w = new
      BY <1>1, <1>2, <2>1, <2>3
    <3>2. PICK v \in windows : windowEnd <= v[2] + length
      BY <1>4 DEF IInv, RunTouches, Ensure
    <3>3. v[2] \in Int /\ v[2] <= m /\ m < windowEnd
      BY <1>1, <1>2, <2>1, <2>3, <3>1, <3>2
    <3>4. new \in windows' /\ new[1] <= m /\ m < new[2]
      BY <1>1, <3>2, <3>3
    <3>5. QED
      BY <3>4 DEF Covered
  <2>4. QED
    BY <2>2, <2>3
<1>5. QED
  BY <1>3, <1>4

LEMMA EnsureStep ==
  ASSUME IInv, Ensure
  PROVE  IInv'
<1>1. /\ windowEnd \in Int /\ length \in Nat \ {0} /\ current \in Int /\ now \in Int
      /\ windowEnd <= current /\ current <= now
  BY DEF IInv, TypeOK, RunIsPast, Ensure
<1>2. TypeOK'
  BY <1>1 DEF IInv, TypeOK, Ensure, getWindowBoundsFromEnd
<1>3. OnlyFullWindows'
  BY <1>1 DEF IInv, OnlyFullWindows, Ensure, getWindowBoundsFromEnd
<1>4. RunTouches'
  <2>1. <<windowEnd - length, windowEnd>> \in windows'
    BY DEF Ensure, getWindowBoundsFromEnd
  <2>2. windowEnd' <= <<windowEnd - length, windowEnd>>[2] + length'
    BY <1>1 DEF Ensure
  <2>3. QED
    BY <2>1, <2>2 DEF RunTouches
<1>5. RunIsPast'
  BY <1>1 DEF RunIsPast, Ensure
<1>6. QED
  BY <1>2, <1>3, <1>4, <1>5, EnsureCovers DEF IInv

LEMMA Step == IInv /\ [Next]_vars => IInv'
<1> SUFFICES ASSUME IInv, [Next]_vars PROVE IInv'
  OBVIOUS
<1>0. TypeOK /\ EveryMomentCovered /\ OnlyFullWindows
  BY DEF IInv
<1>1. CASE UNCHANGED vars
  BY <1>1 DEF vars, run, history, IInv, TypeOK, EveryMomentCovered, OnlyFullWindows, Covered,
              RunTouches, RunIsPast
<1>2. CASE Tick
  <2>1. TypeOK' /\ now <= now' /\ now' \in Int
    BY <1>2 DEF Tick, IInv, TypeOK, run, history
  <2>2. RunTouches' /\ RunIsPast'
    BY <1>2, <2>1 DEF Tick, IInv, TypeOK, RunTouches, RunIsPast, run
  <2>3. QED
    BY <1>0, <1>2, <2>1, <2>2, WindowsKept DEF Tick, IInv, history
<1>3. CASE Boot
  <2>1. PICK l \in Lengths : length' = l /\ StartRun(l)
    BY <1>3 DEF Boot
  <2>2. getWindowBounds(now, l) \in 0..now
    BY <2>1, WindowBounds DEF IInv, TypeOK
  <2>3. TypeOK' /\ RunTouches' /\ RunIsPast'
    BY <1>3, <2>1, <2>2 DEF Boot, StartRun, IInv, TypeOK, RunTouches, RunIsPast
  <2>4. QED
    BY <1>0, <1>3, <2>1, <2>3, WindowsKept DEF Boot, StartRun, IInv, TypeOK
<1>4. CASE Cron
  <2>1. getWindowBounds(now, length) \in 0..now
    BY WindowBounds DEF IInv, TypeOK
  <2>2. TypeOK' /\ RunTouches' /\ RunIsPast'
    <3>1. CASE step = "idle"
      <4>1. step' = "read" /\ current' = getWindowBounds(now, length) /\ windowEnd' = windowEnd
        BY <1>4, <3>1 DEF Cron, StartRun
      <4>2. UNCHANGED <<now, daemon, length, windows, first, changed>> /\ due' = FALSE
        BY <1>4 DEF Cron, history
      <4>3. current' \in 0..MaxTime /\ current' <= now'
        BY <2>1, <4>1, <4>2 DEF IInv, TypeOK
      <4>4. TypeOK'
        BY <4>1, <4>2, <4>3 DEF IInv, TypeOK
      <4>5. RunTouches' /\ RunIsPast'
        BY <4>1, <4>3 DEF RunTouches, RunIsPast
      <4>6. QED
        BY <4>4, <4>5
    <3>2. CASE step # "idle"
      <4>1. UNCHANGED <<now, daemon, length, windows, first, changed, step, current, windowEnd>>
            /\ due' = FALSE
        BY <1>4, <3>2 DEF Cron, history, run
      <4>2. TypeOK'
        BY <4>1 DEF IInv, TypeOK
      <4>3. RunTouches' /\ RunIsPast'
        BY <4>1 DEF IInv, RunTouches, RunIsPast
      <4>4. QED
        BY <4>2, <4>3
    <3>3. QED
      BY <3>1, <3>2
  <2>3. QED
    BY <1>0, <1>4, <2>2, WindowsKept DEF Cron, history, IInv, TypeOK
<1>5. CASE Read
  <2>1. windowEnd' \in Int /\ windowEnd' <= current /\ RunTouches'
    <3>1. CASE windows = {}
      BY <1>5, <3>1 DEF Read, IInv, TypeOK, RunTouches
    <3>2. CASE windows # {}
      <4>1. PICK w \in windows : windowEnd' = IF w[2] >= current THEN current ELSE w[2]
        BY <1>5, <3>2 DEF Read
      <4>2. w[2] \in Int /\ current \in Int /\ length \in Nat
        BY DEF IInv, TypeOK
      <4>3. windowEnd' \in Int /\ windowEnd' <= current /\ windowEnd' <= w[2] + length
        BY <4>1, <4>2
      <4>4. w \in windows' /\ length' = length
        BY <1>5 DEF Read
      <4>5. QED
        BY <4>3, <4>4 DEF RunTouches
    <3>3. QED
      BY <3>1, <3>2
  <2>2. TypeOK' /\ RunIsPast'
    BY <1>5, <2>1 DEF Read, IInv, TypeOK, RunIsPast, history
  <2>3. QED
    BY <1>0, <1>5, <2>1, <2>2, WindowsKept DEF Read, history, IInv, TypeOK
<1>6. CASE Ensure
  BY <1>6, EnsureStep
<1>7. CASE Fail \/ Crash
  <2>1. TypeOK' /\ RunTouches' /\ RunIsPast'
    BY <1>7 DEF Fail, Crash, IInv, TypeOK, RunTouches, RunIsPast, history
  <2>2. QED
    BY <1>0, <1>7, <2>1, WindowsKept DEF Fail, Crash, history, IInv, TypeOK
<1>8. QED
  BY <1>1, <1>2, <1>3, <1>4, <1>5, <1>6, <1>7 DEF Next

(* The scheduler's variables have their types; in particular no run aims   *)
(* at a window that ends after the clock.                                  *)
THEOREM InvariantHolds == Spec => []IInv
<1>1. Init => IInv
  BY InitIInv
<1>2. IInv /\ [Next]_vars => IInv'
  BY Step
<1>3. QED
  BY <1>1, <1>2, PTL DEF Spec

(* catchUpMissedSlots leaves no moment out, for any window lengths and     *)
(* however often the daemon dies or is restarted with another length.      *)
THEOREM NothingLeftOut == Spec => []EveryMomentCovered
<1>1. IInv => EveryMomentCovered
  BY DEF IInv
<1>2. QED
  BY <1>1, InvariantHolds, PTL

(* ensureZkTLSTask never creates the task of a window that is not over.    *)
THEOREM NothingTooEarly == Spec => []OnlyFullWindows
<1>1. IInv => OnlyFullWindows
  BY DEF IInv
<1>2. QED
  BY <1>1, InvariantHolds, PTL

-----------------------------------------------------------------------------
(***************************************************************************)
(* NoMomentTwice: while the length is not changed, windows are cells of    *)
(* one grid, and two cells of a grid are the same or apart.                *)
(***************************************************************************)
OnGrid(e) == \E k \in Int : e = k * length

Cell(w) == OnGrid(w[2]) /\ w[1] = w[2] - length

WindowsAreCells == ~changed => \A w \in windows : Cell(w)

(* A run counts its windows on the grid of the length it was started with, *)
(* and the daemon is not down while one is going on.                       *)
RunOnGrid ==
  /\ step # "idle" => daemon # "down" /\ OnGrid(current)
  /\ step = "ensure" /\ ~changed => OnGrid(windowEnd)

GInv == IInv /\ WindowsAreCells /\ RunOnGrid

LEMMA BoundsOnGrid ==
  ASSUME NEW t \in Nat, NEW l \in Nat \ {0}
  PROVE  \E k \in Int : getWindowBounds(t, l) = k * l
<1>1. t \div l \in Int /\ t % l \in Int
  OBVIOUS
<1>2. t = (t \div l) * l + (t % l)
  OBVIOUS
<1>3. getWindowBounds(t, l) = (t \div l) * l
  BY <1>1, <1>2 DEF getWindowBounds
<1>4. QED
  BY <1>1, <1>3

LEMMA CellsApart ==
  ASSUME NEW l \in Nat \ {0}, NEW j \in Int, NEW k \in Int, j < k
  PROVE  j * l <= k * l - l
<1>1. j + 1 <= k
  OBVIOUS
<1>2. (j + 1) * l <= k * l
  BY <1>1
<1>3. QED
  BY <1>2

LEMMA EnsureCell ==
  ASSUME GInv, Ensure, ~changed'
  PROVE  /\ \A w \in windows' : Cell(w)'
         /\ OnGrid(windowEnd)'
<1>1. /\ windowEnd \in Int /\ length \in Nat \ {0} /\ windows \subseteq Int \X Int
      /\ length' = length /\ changed' = changed
      /\ windows' = windows \cup {<<windowEnd - length, windowEnd>>}
      /\ windowEnd' = windowEnd + length
  BY DEF GInv, IInv, TypeOK, Ensure, getWindowBoundsFromEnd
<1>2. PICK k \in Int : windowEnd = k * length
  BY <1>1 DEF GInv, RunOnGrid, Ensure, OnGrid
<1>3. windowEnd + length = (k + 1) * length
  BY <1>1, <1>2
<1>4. OnGrid(windowEnd)'
  BY <1>1, <1>3 DEF OnGrid
<1>5. ASSUME NEW w \in windows' PROVE Cell(w)'
  <2>1. CASE w \in windows
    <3>1. Cell(w)
      BY <1>1, <2>1 DEF GInv, WindowsAreCells
    <3>2. QED
      BY <1>1, <3>1 DEF Cell, OnGrid
  <2>2. CASE w = <<windowEnd - length, windowEnd>>
    BY <1>1, <1>2, <2>2 DEF Cell, OnGrid
  <2>3. QED
    BY <1>1, <2>1, <2>2
<1>6. QED
  BY <1>4, <1>5

LEMMA GridStep == GInv /\ [Next]_vars => WindowsAreCells' /\ RunOnGrid'
<1> SUFFICES ASSUME GInv, [Next]_vars PROVE WindowsAreCells' /\ RunOnGrid'
  OBVIOUS
<1> USE DEF WindowsAreCells, RunOnGrid, Cell, OnGrid
<1>0. TypeOK /\ WindowsAreCells /\ RunOnGrid
  BY DEF GInv, IInv
<1>1. CASE UNCHANGED vars
  BY <1>0, <1>1 DEF vars, run, history
<1>2. CASE Tick
  BY <1>0, <1>2 DEF Tick, run, history
<1>3. CASE Boot
  <2>1. PICK l \in Lengths :
          length' = l /\ changed' = (changed \/ (windows # {} /\ l # length)) /\ StartRun(l)
    BY <1>3 DEF Boot
  <2>2. step' = "read" /\ daemon' = "boot" /\ windows' = windows
    BY <1>3, <2>1 DEF Boot, StartRun
  <2>3. \E k \in Int : current' = k * length'
    <3>1. now \in Nat /\ l \in Nat \ {0}
      BY <1>0, LengthsAssumption, TimeAssumption DEF TypeOK
    <3>2. PICK k \in Int : getWindowBounds(now, l) = k * l
      BY <3>1, BoundsOnGrid
    <3>3. QED
      BY <2>1, <3>2 DEF StartRun
  <2>4. WindowsAreCells'
    <3>1. CASE windows = {}
      BY <2>2, <3>1
    <3>2. CASE windows # {} /\ ~changed'
      <4>1. length' = length /\ ~changed
        BY <1>0, <2>1, <3>2 DEF TypeOK
      <4>2. QED
        BY <1>0, <2>2, <4>1
    <3>3. QED
      BY <3>1, <3>2
  <2>5. QED
    BY <2>2, <2>3, <2>4
<1>4. CASE Cron
  <2>0. now \in Nat /\ length \in Nat \ {0}
    BY <1>0, LengthsAssumption, TimeAssumption DEF TypeOK
  <2>1. \E k \in Int : getWindowBounds(now, length) = k * length
    BY <2>0, BoundsOnGrid
  <2>2. QED
    BY <1>0, <1>4, <2>1 DEF Cron, StartRun, run, history
<1>5. CASE Read
  <2>1. UNCHANGED <<length, windows, changed, current, daemon>> /\ step = "read" /\ step' = "ensure"
    BY <1>5 DEF Read, history
  <2>2. ~changed => OnGrid(windowEnd')
    BY <1>0, <1>5 DEF Read
  <2>3. QED
    BY <1>0, <2>1, <2>2
<1>6. CASE Ensure
  <2>1. UNCHANGED <<length, current, changed>> /\ step = "ensure"
    BY <1>6 DEF Ensure
  <2>2. step' # "idle" => daemon' # "down" /\ OnGrid(current)
    BY <1>0, <1>6 DEF Ensure
  <2>3. QED
    BY <1>6, <2>1, <2>2, EnsureCell
<1>7. CASE Fail \/ Crash
  BY <1>0, <1>7 DEF Fail, Crash, history
<1>8. QED
  BY <1>1, <1>2, <1>3, <1>4, <1>5, <1>6, <1>7 DEF Next

LEMMA CellsDisjoint == GInv => NoMomentTwice
<1> SUFFICES ASSUME GInv, ~changed, NEW v \in windows, NEW w \in windows, v # w
             PROVE  v[2] <= w[1] \/ w[2] <= v[1]
  BY DEF NoMomentTwice
<1>1. length \in Nat \ {0} /\ v \in Int \X Int /\ w \in Int \X Int
  BY DEF GInv, IInv, TypeOK
<1>2. Cell(v) /\ Cell(w)
  BY DEF GInv, WindowsAreCells
<1>3. PICK j \in Int : v[2] = j * length
  BY <1>2 DEF Cell, OnGrid
<1>4. PICK k \in Int : w[2] = k * length
  BY <1>2 DEF Cell, OnGrid
<1>5. j # k
  BY <1>1, <1>2, <1>3, <1>4 DEF Cell
<1>6. CASE j < k
  BY <1>1, <1>2, <1>3, <1>4, <1>6, CellsApart DEF Cell
<1>7. CASE k < j
  BY <1>1, <1>2, <1>3, <1>4, <1>7, CellsApart DEF Cell
<1>8. QED
  BY <1>5, <1>6, <1>7

(* The invariant of the grid holds in every run.                           *)
THEOREM GridHolds == Spec => []GInv
<1>1. Init => WindowsAreCells /\ RunOnGrid
  BY DEF Init, WindowsAreCells, RunOnGrid
<1>2. GInv /\ [Next]_vars => GInv'
  BY Step, GridStep DEF GInv
<1>3. Init => GInv
  BY <1>1, InitIInv DEF GInv
<1>4. QED
  BY <1>2, <1>3, PTL DEF Spec

(* While ZKTLS_WINDOW_MINUTES is not changed, no moment lies in two        *)
(* windows: whatever runs are interrupted, a later one goes on with the    *)
(* same windows and the upsert finds them.                                 *)
THEOREM NothingTwice == Spec => []NoMomentTwice
<1>1. QED
  BY CellsDisjoint, GridHolds, PTL

(* Every variable of the scheduler keeps its type; the clock and the runs  *)
(* stay within the bound of the clock.                                     *)
THEOREM TypeCorrect == Spec => []TypeOK
<1>1. IInv => TypeOK
  BY DEF IInv
<1>2. QED
  BY <1>1, InvariantHolds, PTL
=============================================================================
