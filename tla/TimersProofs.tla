---------------------------- MODULE TimersProofs ----------------------------
(* Theorems about Timers, for every set of Timer objects and every bound.  *)
EXTENDS Timers, TLAPS

(* Where an execute is, and that the Timers is not freed while somebody    *)
(* can reach it.                                                           *)
Control ==
  /\ phase \in {"idle", "running"} => now = NONE
  /\ phase \in {"call", "freed"} => now \in Timer
  /\ tsFreed => ~TimersReachable

(* A slot that was never used has no block and no entry; what the hash has *)
(* is alive and known to libzmq.                                           *)
Known(t) ==
  /\ object[t] = "none" => arg[t] = "none" /\ t \notin lost /\ ~InMap(t)
  /\ t \in held \cup hash => object[t] = "live"
  /\ t \in hash <=> t \notin lost /\ InMap(t) /\ arg[t] = "alloc"
  /\ t \in held /\ ~tsFreed /\ arg[t] = "alloc" => InMap(t)
  /\ t \in marked => arg[t] = "free"
  /\ tsFreed => ~InMap(t)

(* An execute walks over entries that are due.  A timer that was not       *)
(* cancelled has an entry ahead, but while its block runs.                 *)
Walked(t) ==
  /\ todo[t] + done[t] <= due[t]
  /\ phase = "idle" => todo[t] = 0 /\ done[t] = 0
  /\ phase = "call" /\ now = t => done[t] > 0
  /\ arg[t] = "alloc" /\ InMap(t) /\ now # t => Ahead(t) > 0

(* A timer that is no ghost has one entry besides the one that was walked  *)
(* over, and while its block runs none.                                    *)
Single(t) ==
  t \notin ghosts =>
    /\ Ahead(t) <= 1 /\ done[t] <= 1
    /\ done[t] > 0 => todo[t] = 0
    /\ phase = "call" /\ now = t => Ahead(t) = 0 /\ done[t] = 1

(* Unless it is lost its block, if not cancelled, is there.                *)
Backing(t) ==
  t \notin lost \cup ghosts =>
    /\ (Ahead(t) > 0 \/ (phase = "call" /\ now = t)) /\ t \notin marked
         => arg[t] = "alloc" /\ object[t] = "live"
    /\ phase = "freed" => now # t

Good(t) == Known(t) /\ Walked(t) /\ Single(t) /\ Backing(t)

TimerInv == TypeOK /\ Control /\ \A t \in Timer : Good(t)

LEMMA TimerInit == Init => TimerInv
<1> SUFFICES ASSUME Init PROVE TimerInv
  OBVIOUS
<1> USE TimersAssumption DEF Init
<1>1. TypeOK /\ Control
  BY DEF TypeOK, Control, TimersReachable, Nothing
<1>2. ASSUME NEW t \in Timer PROVE Good(t)
  <2>1. /\ wait[t] = 0 /\ due[t] = 0 /\ todo[t] = 0 /\ done[t] = 0
        /\ object[t] = "none" /\ arg[t] = "none"
    BY DEF Nothing
  <2>2. QED
    BY <2>1 DEF Good, Known, Walked, Single, Backing, InMap, Ahead
<1>3. QED
  BY <1>1, <1>2 DEF TimerInv

(* The entries that an end of execute, or timeout, erases.                 *)
LEMMA EraseStep ==
  ASSUME TimerInv, Erase, phase \in {"idle", "running"}, todo = Nothing,
         UNCHANGED <<objVars, arg, hash, histVars>>, phase' = "idle", now' = NONE,
         todo' = Nothing, done' = Nothing, first' \in Timer \cup {NONE}
  PROVE  TimerInv'
<1> PICK T \in SUBSET {t \in marked : Ahead(t) > 0} :
      /\ due' = [t \in Timer |->
                  due[t] - done[t] - (IF t \in T /\ due[t] > done[t] THEN 1 ELSE 0)]
      /\ wait' = [t \in Timer |->
                   wait[t] - (IF t \in T /\ due[t] = done[t] THEN 1 ELSE 0)]
      /\ marked' = marked \ T
  BY DEF Erase
<1> USE DEF objVars, histVars
<1>1. ASSUME NEW t \in Timer
      PROVE  /\ due'[t] \in Nat /\ wait'[t] \in Nat
             /\ t \in T => wait'[t] + due'[t] = Ahead(t) - 1 /\ Ahead(t) > 0
             /\ t \in T => t \in marked
             /\ t \notin T => wait'[t] + due'[t] = Ahead(t)
             /\ todo'[t] = 0 /\ done'[t] = 0 /\ todo[t] = 0
  <2> USE DEF TimerInv, TypeOK, Good, Walked, Ahead, Nothing
  <2>0. /\ due[t] \in Nat /\ wait[t] \in Nat /\ done[t] \in Nat /\ done[t] <= due[t]
        /\ todo'[t] = 0 /\ done'[t] = 0 /\ todo[t] = 0
    OBVIOUS
  <2> HIDE DEF TimerInv, TypeOK, Good, Walked
  <2>1. CASE t \notin T
    BY <2>0, <2>1
  <2>2. CASE t \in T /\ due[t] > done[t]
    BY <2>0, <2>2
  <2>3. CASE t \in T /\ due[t] = done[t]
    BY <2>0, <2>3
  <2>4. QED
    BY <2>0, <2>1, <2>2, <2>3
<1>2. TypeOK'
  <2>1. due' \in [Timer -> Nat] /\ wait' \in [Timer -> Nat]
    BY <1>1
  <2>2. todo' \in [Timer -> Nat] /\ done' \in [Timer -> Nat]
    BY DEF Nothing
  <2>3. QED
    BY <2>1, <2>2 DEF TimerInv, TypeOK
<1>3. Control'
  BY DEF TimerInv, Control, TimersReachable
<1>4. ASSUME NEW t \in Timer PROVE Good(t)'
  <2>1. /\ Good(t) /\ now = NONE /\ now' = NONE
        /\ wait[t] \in Nat /\ due[t] \in Nat /\ done[t] \in Nat
    BY TimersAssumption DEF TimerInv, TypeOK, Control
  <2> USE <1>1, <2>1, TimersAssumption DEF Good, InMap, Ahead
  <2>2. Known(t)'
    <3>1. CASE t \in T
      BY <3>1 DEF Known
    <3>2. CASE t \notin T
      BY <3>2 DEF Known, Walked
    <3>3. QED
      BY <3>1, <3>2
  <2>3. Walked(t)'
    BY DEF Known, Walked
  <2>4. Single(t)'
    <3>1. t \notin ghosts => Ahead(t) \in Int /\ Ahead(t) <= 1
      BY DEF Single
    <3>2. Ahead(t)' <= Ahead(t)
      OBVIOUS
    <3>3. QED
      BY <3>1, <3>2 DEF Single
  <2>5. Backing(t)'
    BY DEF Backing, Single
  <2>6. QED
    BY <2>2, <2>3, <2>4, <2>5
<1>5. QED
  BY <1>2, <1>3, <1>4 DEF TimerInv

(* Types, and the place of an execute.                                    *)
LEMMA TypeStep == TimerInv /\ [Next]_vars => TypeOK' /\ Control'
<1> SUFFICES ASSUME TimerInv, [Next]_vars PROVE TypeOK' /\ Control'
  OBVIOUS
<1> USE TimersAssumption
    DEF TimerInv, TypeOK, Control, TimersReachable, ProgramRuns, Plus, Minus, Nothing,
        objVars, mapVars, histVars, walkVars
<1>1. ASSUME NEW t \in Timer, Add(t) PROVE TypeOK' /\ Control'
  BY <1>1 DEF Add, Make
<1>2. ASSUME NEW t \in Timer, AddRaises(t) PROVE TypeOK' /\ Control'
  BY <1>2 DEF AddRaises, Make
<1>3. ASSUME NEW t \in Timer, Expire(t) PROVE TypeOK' /\ Control'
  BY <1>3 DEF Expire
<1>4. ASSUME NEW t \in Timer, Restart(t) PROVE TypeOK' /\ Control'
  <2>1. \A f \in [Timer -> Nat] : /\ Plus(f, t) \in [Timer -> Nat]
                                  /\ f[t] > 0 => Minus(f, t) \in [Timer -> Nat]
    OBVIOUS
  <2>2. /\ due' \in [Timer -> Nat] /\ wait' \in [Timer -> Nat]
        /\ todo' \in [Timer -> Nat] /\ done' \in [Timer -> Nat]
        /\ ghosts' \subseteq Timer /\ phase' \in {phase, "torn"}
    <3> HIDE DEF Plus, Minus
    <3>1. QED
      BY <1>4, <2>1 DEF Restart
  <2>3. QED
    BY <1>4, <2>2 DEF Restart, Asks
<1>5. ASSUME NEW t \in Timer, Cancel(t) PROVE TypeOK' /\ Control'
  BY <1>5 DEF Cancel, Asks
<1>6. ASSUME NEW t \in Timer, Fire(t) PROVE TypeOK' /\ Control'
  BY <1>6 DEF Fire, Walk
<1>7. ASSUME NEW t \in Timer, PassOver(t) PROVE TypeOK' /\ Control'
  BY <1>7 DEF PassOver, Walk
<1>8. ASSUME NEW t \in Timer, Drop(t) PROVE TypeOK' /\ Control'
  BY <1>8 DEF Drop
<1>9. CASE Execute
  BY <1>9 DEF Execute
<1>10. CASE Return
  BY <1>10 DEF Return
<1>11. CASE Raise
  BY <1>11 DEF Raise, WalkOver
<1>12. CASE DropTimers
  BY <1>12 DEF DropTimers
<1>13. CASE Collect
  BY <1>13 DEF Collect
<1>14. CASE ExecuteEnds
  BY <1>14, EraseStep DEF ExecuteEnds, WalkOver
<1>15. CASE Timeout
  <2>1. CASE phase = "idle" /\ Erase /\ UNCHANGED phase
    <3>1. todo = Nothing /\ done = Nothing /\ now = NONE
      BY <2>1 DEF Good, Walked
    <3>2. QED
      BY <1>15, <2>1, <3>1, EraseStep DEF Timeout, Good
  <2>2. CASE phase = "call" /\ phase' = "torn" /\ UNCHANGED mapVars
    BY <1>15, <2>2 DEF Timeout
  <2>3. QED
    BY <1>15, <2>1, <2>2 DEF Timeout
<1>16. CASE UNCHANGED vars
  BY <1>16 DEF vars
<1>17. QED
  BY <1>1, <1>2, <1>3, <1>4, <1>5, <1>6, <1>7, <1>8, <1>9, <1>10, <1>11, <1>12, <1>13, <1>14, <1>15, <1>16 DEF Next

(* What the steps do to one timer.                                         *)
LEMMA GoodStep ==
  ASSUME TimerInv, [Next]_vars, NEW u \in Timer
  PROVE  Good(u)'
<1>0. /\ wait[u] \in Nat /\ due[u] \in Nat /\ todo[u] \in Nat /\ done[u] \in Nat
      /\ Good(u) /\ TypeOK /\ Control
  BY DEF TimerInv, TypeOK
<1> DEFINE Still == /\ wait'[u] = wait[u] /\ due'[u] = due[u]
                    /\ todo'[u] = todo[u] /\ done'[u] = done[u]
<1> USE <1>0, TimersAssumption
    DEF Control, Good, ProgramRuns, InMap, Ahead, objVars, mapVars, histVars, walkVars
<1>1. ASSUME NEW t \in Timer, Add(t) PROVE Good(u)'
  <2>1. /\ due'[u] = due[u] /\ todo'[u] = todo[u] /\ done'[u] = done[u]
        /\ wait'[u] = IF u = t THEN wait[u] + 1 ELSE wait[u]
        /\ object'[u] = IF u = t THEN "live" ELSE object[u]
        /\ arg'[u] = IF u = t THEN "alloc" ELSE arg[u]
    BY <1>1 DEF Add, Make, TypeOK, Plus, Minus, Nothing
  <2>2. Known(u)'
    <3>1. /\ u \in hash' <=> u \in hash \/ u = t
          /\ u \in held' <=> u \in held \/ u = t
          /\ UNCHANGED <<lost, marked, tsFreed>>
      BY <1>1 DEF Add, Make
    <3>2. ~tsFreed /\ object[t] = "none"
      BY <1>1 DEF Add, Make, TimersReachable
    <3>3. QED
      BY <2>1, <3>1, <3>2 DEF Known
  <2>3. Walked(u)'
    BY <1>1, <2>1 DEF Add, Make, Known, Walked, Single
  <2>4. Single(u)'
    BY <1>1, <2>1 DEF Add, Make, Known, Walked, Single
  <2>5. Backing(u)'
    BY <1>1, <2>1 DEF Add, Make, Known, Walked, Single, Backing
  <2>6. QED
    BY <2>2, <2>3, <2>4, <2>5
<1>2. ASSUME NEW t \in Timer, AddRaises(t) PROVE Good(u)'
  <2>1. /\ due'[u] = due[u] /\ todo'[u] = todo[u] /\ done'[u] = done[u]
        /\ \/ wait'[u] = wait[u] /\ lost' = lost
           \/ wait'[u] = (IF u = t THEN wait[u] + 1 ELSE wait[u]) /\ lost' = lost \cup {t}
        /\ object'[u] = IF u = t THEN "live" ELSE object[u]
        /\ arg'[u] = IF u = t THEN "alloc" ELSE arg[u]
    BY <1>2 DEF AddRaises, Make, TypeOK, Plus, Minus, Nothing
  <2>2. Known(u)'
    <3>1. UNCHANGED <<held, hash, marked, tsFreed>> /\ ~tsFreed /\ object[t] = "none"
      BY <1>2 DEF AddRaises, Make, TimersReachable
    <3>2. u \in marked \/ u \in hash \/ u \in held => u # t
      BY <1>2, <3>1 DEF Known
    <3>3. QED
      BY <2>1, <3>1, <3>2 DEF Known
  <2>3. Walked(u)'
    BY <1>2, <2>1 DEF AddRaises, Make, Known, Walked, Single
  <2>4. Single(u)'
    BY <1>2, <2>1 DEF AddRaises, Make, Known, Walked, Single
  <2>5. Backing(u)'
    BY <1>2, <2>1 DEF AddRaises, Make, Known, Walked, Single, Backing
  <2>6. QED
    BY <2>2, <2>3, <2>4, <2>5
<1>3. ASSUME NEW t \in Timer, Expire(t) PROVE Good(u)'
  <2>1. /\ todo'[u] = todo[u] /\ done'[u] = done[u] /\ (u = t => wait[u] > 0)
        /\ wait'[u] = IF u = t THEN wait[u] - 1 ELSE wait[u]
        /\ due'[u] = IF u = t THEN due[u] + 1 ELSE due[u]
    BY <1>3 DEF Expire, TypeOK, Plus, Minus, Nothing
  <2>2. Known(u)'
    BY <1>3, <2>1 DEF Expire, Known, Walked, Single
  <2>3. Walked(u)'
    BY <1>3, <2>1 DEF Expire, Known, Walked, Single
  <2>4. Single(u)'
    BY <1>3, <2>1 DEF Expire, Known, Walked, Single
  <2>5. Backing(u)'
    BY <1>3, <2>1 DEF Expire, Known, Walked, Single, Backing
  <2>6. QED
    BY <2>2, <2>3, <2>4, <2>5
<1>4. ASSUME NEW t \in Timer, Restart(t) PROVE Good(u)'
  <2>0. /\ phase = "call" \/ done[t] = 0
        /\ t \in held /\ arg[t] = "alloc" /\ ~tsFreed /\ due[t] > 0 /\ done[t] \in Nat
    BY <1>4 DEF Restart, Asks, Walked, TimerInv, TypeOK
  <2>1. CASE UnderFoot(t)
    BY <1>4, <2>0, <2>1 DEF Restart, Known, Walked, Single, Backing
  <2>2. CASE ~UnderFoot(t) /\ u # t
    <3>1. Still /\ (u \in ghosts' <=> u \in ghosts)
      BY <1>4, <2>2 DEF Restart, TypeOK, Plus, Minus
    <3>2. QED
      BY <1>4, <2>2, <3>1 DEF Restart, Known, Walked, Single, Backing
  <2>3. CASE ~UnderFoot(t) /\ u = t /\ done[t] > 0
    <3>1. /\ due'[u] = due[u] - 1 /\ wait'[u] = wait[u] + 1 /\ done'[u] = done[u] - 1
          /\ todo'[u] = todo[u] /\ u \in ghosts'
      BY <1>4, <2>3 DEF Restart, TypeOK, Plus, Minus
    <3>2. QED
      <4>1. Known(u)'
        BY <1>4, <2>0, <2>3, <3>1 DEF Restart, Known
      <4>2. Walked(u)'
        BY <1>4, <2>0, <2>3, <3>1 DEF Restart, UnderFoot, Walked
      <4>3. QED
        BY <3>1, <4>1, <4>2 DEF Single, Backing
  <2>4. CASE ~UnderFoot(t) /\ u = t /\ done[t] = 0
    <3>1. /\ due'[u] = due[u] - 1 /\ wait'[u] = wait[u] + 1 /\ done'[u] = 0
          /\ todo'[u] = (IF todo[u] > 0 THEN todo[u] - 1 ELSE 0)
          /\ UNCHANGED ghosts
      BY <1>4, <2>4 DEF Restart, TypeOK, Plus, Minus
    <3>2. QED
      BY <1>4, <2>0, <2>4, <3>1 DEF Restart, Known, Walked, Single, Backing
  <2>5. QED
    BY <2>0, <2>1, <2>2, <2>3, <2>4
<1>5. ASSUME NEW t \in Timer, Cancel(t) PROVE Good(u)'
  <2>1. /\ Still /\ arg'[u] = IF u = t THEN "free" ELSE arg[u]
    BY <1>5 DEF Cancel, Asks, TypeOK, Plus, Minus, Nothing
  <2>2. Known(u)'
    BY <1>5, <2>1 DEF Cancel, Asks, Known, Walked, Single
  <2>3. Walked(u)'
    BY <1>5, <2>1 DEF Cancel, Asks, Known, Walked, Single
  <2>4. Single(u)'
    BY <1>5, <2>1 DEF Cancel, Asks, Known, Walked, Single
  <2>5. Backing(u)'
    BY <1>5, <2>1 DEF Cancel, Asks, Known, Walked, Single, Backing
  <2>6. QED
    BY <2>2, <2>3, <2>4, <2>5
<1>6. ASSUME NEW t \in Timer, Fire(t) PROVE Good(u)'
  <2>1. /\ wait'[u] = wait[u] /\ due'[u] = due[u] /\ (u = t => todo[u] > 0)
        /\ todo'[u] = IF u = t THEN todo[u] - 1 ELSE todo[u]
        /\ done'[u] = IF u = t THEN done[u] + 1 ELSE done[u]
    BY <1>6 DEF Fire, Walk, TypeOK, Plus, Minus, Nothing
  <2>2. Known(u)'
    BY <1>6, <2>1 DEF Fire, Walk, Known, Walked, Single
  <2>3. Walked(u)'
    BY <1>6, <2>1 DEF Fire, Walk, Known, Walked, Single
  <2>4. Single(u)'
    BY <1>6, <2>1 DEF Fire, Walk, Known, Walked, Single
  <2>5. Backing(u)'
    BY <1>6, <2>1 DEF Fire, Walk, Known, Walked, Single, Backing
  <2>6. QED
    BY <2>2, <2>3, <2>4, <2>5
<1>7. ASSUME NEW t \in Timer, PassOver(t) PROVE Good(u)'
  <2>1. /\ wait'[u] = wait[u] /\ due'[u] = due[u] /\ (u = t => todo[u] > 0)
        /\ todo'[u] = IF u = t THEN todo[u] - 1 ELSE todo[u]
        /\ done'[u] = IF u = t THEN done[u] + 1 ELSE done[u]
    BY <1>7 DEF PassOver, Walk, TypeOK, Plus, Minus, Nothing
  <2>2. Known(u)'
    BY <1>7, <2>1 DEF PassOver, Walk, Known, Walked, Single
  <2>3. Walked(u)'
    BY <1>7, <2>1 DEF PassOver, Walk, Known, Walked, Single
  <2>4. Single(u)'
    <3>1. phase' = "running" /\ UNCHANGED ghosts
      BY <1>7 DEF PassOver, Walk
    <3>2. QED
      BY <2>1, <3>1 DEF Walked, Single
  <2>5. Backing(u)'
    BY <1>7, <2>1 DEF PassOver, Walk, Known, Walked, Single, Backing
  <2>6. QED
    BY <2>2, <2>3, <2>4, <2>5
<1>8. ASSUME NEW t \in Timer, Drop(t) PROVE Good(u)'
  <2>1. Still
    BY <1>8 DEF Drop, TypeOK, Plus, Minus, Nothing
  <2>2. Known(u)'
    BY <1>8, <2>1 DEF Drop, Known, Walked, Single
  <2>3. Walked(u)'
    BY <1>8, <2>1 DEF Drop, Known, Walked, Single
  <2>4. Single(u)'
    BY <1>8, <2>1 DEF Drop, Known, Walked, Single
  <2>5. Backing(u)'
    BY <1>8, <2>1 DEF Drop, Known, Walked, Single, Backing
  <2>6. QED
    BY <2>2, <2>3, <2>4, <2>5
<1>9. CASE Execute
  <2>1. /\ wait'[u] = wait[u] /\ due'[u] = due[u] /\ todo'[u] = due[u]
        /\ done'[u] = done[u]
    BY <1>9 DEF Execute, TypeOK, Plus, Minus, Nothing
  <2>2. Known(u)'
    BY <1>9, <2>1 DEF Execute, Known, Walked, Single
  <2>3. Walked(u)'
    BY <1>9, <2>1 DEF Execute, Known, Walked, Single
  <2>4. Single(u)'
    BY <1>9, <2>1 DEF Execute, Known, Walked, Single
  <2>5. Backing(u)'
    BY <1>9, <2>1 DEF Execute, Known, Walked, Single, Backing
  <2>6. QED
    BY <2>2, <2>3, <2>4, <2>5
<1>10. CASE Return
  <2>1. /\ due'[u] = due[u] /\ todo'[u] = todo[u] /\ done'[u] = done[u]
        /\ wait'[u] = IF u = now THEN wait[u] + 1 ELSE wait[u]
    BY <1>10 DEF Return, TypeOK, Plus, Minus, Nothing
  <2>2. Known(u)'
    <3>1. u = now => due[u] > 0
      BY <1>10 DEF Return, Known, Walked, Single
    <3>2. QED
      BY <1>10, <2>1, <3>1 DEF Return, Known
  <2>3. Walked(u)'
    BY <1>10, <2>1 DEF Return, Known, Walked, Single
  <2>4. Single(u)'
    <3>1. phase' = "running" /\ phase = "call" /\ UNCHANGED ghosts
      BY <1>10 DEF Return
    <3>2. CASE u = now
      BY <2>1, <3>1, <3>2 DEF Walked, Single
    <3>3. CASE u # now
      BY <2>1, <3>1, <3>3 DEF Walked, Single
    <3>4. QED
      BY <3>2, <3>3
  <2>5. Backing(u)'
    BY <1>10, <2>1 DEF Return, Known, Walked, Single, Backing
  <2>6. QED
    BY <2>2, <2>3, <2>4, <2>5
<1>11. CASE Raise
  <2>1. /\ wait'[u] = wait[u] /\ due'[u] = due[u] /\ todo'[u] = 0 /\ done'[u] = 0
    BY <1>11 DEF Raise, WalkOver, TypeOK, Plus, Minus, Nothing
  <2>2. Known(u)'
    BY <1>11, <2>1 DEF Raise, WalkOver, Known, Walked, Single
  <2>3. Walked(u)'
    BY <1>11, <2>1 DEF Raise, WalkOver, Known, Walked, Single
  <2>4. Single(u)'
    BY <1>11, <2>1 DEF Raise, WalkOver, Known, Walked, Single
  <2>5. Backing(u)'
    BY <1>11, <2>1 DEF Raise, WalkOver, Known, Walked, Single, Backing
  <2>6. QED
    BY <2>2, <2>3, <2>4, <2>5
<1>12. CASE DropTimers
  <2>1. Still
    BY <1>12 DEF DropTimers, TypeOK, Plus, Minus, Nothing
  <2>2. Known(u)'
    BY <1>12, <2>1 DEF DropTimers, Known, Walked, Single
  <2>3. Walked(u)'
    BY <1>12, <2>1 DEF DropTimers, Known, Walked, Single
  <2>4. Single(u)'
    BY <1>12, <2>1 DEF DropTimers, Known, Walked, Single
  <2>5. Backing(u)'
    BY <1>12, <2>1 DEF DropTimers, Known, Walked, Single, Backing
  <2>6. QED
    BY <2>2, <2>3, <2>4, <2>5
<1>13. CASE Collect
  <2>1. /\ Still \/ (wait'[u] = 0 /\ due'[u] = 0 /\ todo'[u] = todo[u] /\ done'[u] = done[u])
    BY <1>13 DEF Collect, TimersReachable, Reachable, TypeOK, Plus, Minus, Nothing
  <2>2. Known(u)'
    <3>1. CASE ~TimersReachable /\ ~tsFreed
      <4>1. /\ wait'[u] = 0 /\ due'[u] = 0 /\ u \notin marked' /\ u \notin hash' /\ tsFreed'
            /\ UNCHANGED <<held, lost>>
        BY <1>13, <3>1 DEF Collect, Nothing
      <4>2. u \in held => object'[u] = "live"
        BY <1>13 DEF Collect, Reachable, Known, TypeOK
      <4>3. object'[u] = "none" => object[u] = "none" /\ arg'[u] = arg[u]
        BY <1>13 DEF Collect, TypeOK
      <4>4. QED
        BY <4>1, <4>2, <4>3 DEF Known
    <3>2. CASE TimersReachable \/ tsFreed
      BY <1>13, <3>2 DEF Collect, Reachable, Known, TypeOK
    <3>3. QED
      BY <3>1, <3>2
  <2>3. Walked(u)'
    BY <1>13, <2>1 DEF Collect, TimersReachable, Reachable, Known, Walked, Single
  <2>4. Single(u)'
    BY <1>13, <2>1 DEF Collect, TimersReachable, Reachable, Known, Walked, Single
  <2>5. Backing(u)'
    BY <1>13, <2>1 DEF Collect, TimersReachable, Reachable, Known, Walked, Single, Backing
  <2>6. QED
    BY <2>2, <2>3, <2>4, <2>5
<1>14. CASE ExecuteEnds
  BY <1>14, EraseStep DEF ExecuteEnds, WalkOver, TimerInv
<1>15. CASE Timeout
  <2>1. CASE phase = "idle" /\ Erase /\ UNCHANGED phase
    <3>1. todo = Nothing /\ done = Nothing /\ now = NONE
      BY <2>1 DEF Walked, TimerInv, TypeOK, Nothing
    <3>2. QED
      BY <1>15, <2>1, <3>1, EraseStep DEF Timeout, TimerInv, TypeOK
  <2>2. CASE phase = "call" /\ phase' = "torn" /\ UNCHANGED mapVars
    BY <1>15, <2>2 DEF Timeout, Known, Walked, Single, Backing
  <2>3. QED
    BY <1>15, <2>1, <2>2 DEF Timeout
<1>16. CASE UNCHANGED vars
  BY <1>16 DEF vars, Known, Walked, Single, Backing
<1>17. QED
  BY <1>1, <1>2, <1>3, <1>4, <1>5, <1>6, <1>7, <1>8, <1>9, <1>10, <1>11, <1>12, <1>13, <1>14, <1>15, <1>16 DEF Next

LEMMA TimerInvariant == Spec => []TimerInv
<1>1. TimerInv /\ [Next]_vars => TimerInv'
  BY TypeStep, GoodStep DEF TimerInv
<1>2. QED
  BY TimerInit, <1>1, PTL DEF Spec

(* libzmq calls back into freed memory for no timers but those: lost ones, *)
(* ones whose entry an exception kept, and doubled ones.  Cancelled in     *)
(* whatever state of an execute, any other timer stays silent.             *)
THEOREM FreedBlocksExplained == Spec => []CallbacksBacked
<1>1. TimerInv => CallbacksBacked
  BY DEF TimerInv, Control, Good, Backing, CallbacksBacked
<1>2. QED
  BY <1>1, TimerInvariant, PTL

(* The hash of the Timers agrees with libzmq.                              *)
THEOREM HashAgreesWithLibzmq == Spec => []HashIsArmed
<1>1. TimerInv => HashIsArmed
  <2> SUFFICES ASSUME TimerInv PROVE HashIsArmed
    OBVIOUS
  <2> USE DEF TimerInv, TypeOK, Good, Known
  <2>1. hash = {t \in Timer \ lost : InMap(t) /\ arg[t] = "alloc"}
    OBVIOUS
  <2>2. QED
    BY <2>1 DEF HashIsArmed
<1>2. QED
  BY <1>1, TimerInvariant, PTL

(* Blocks run once, ghosts excepted.                                       *)
THEOREM BlocksRunOnce == Spec => []RunsOnce
<1>1. TimerInv => RunsOnce
  BY DEF TimerInv, Good, Single, RunsOnce
<1>2. QED
  BY <1>1, TimerInvariant, PTL

(* Every variable keeps its type.                                          *)
THEOREM TimersTyped == Spec => []TypeOK
<1>1. TimerInv => TypeOK
  BY DEF TimerInv
<1>2. QED
  BY <1>1, TimerInvariant, PTL

-----------------------------------------------------------------------------
(* The argument block of a Timer is there from add on and is freed once:   *)
(* by cancel or with the object, and no block is left behind by an object  *)
(* that was collected, one that add could not hand out included.           *)
BlocksFollowTimers ==
  \A t \in Timer : /\ object[t] = "none" <=> arg[t] = "none"
                   /\ object[t] = "freed" => arg[t] = "free"

BlocksFreedOnce == [][\A t \in Timer : arg[t] = "free" => arg'[t] = "free"]_vars

(* A due entry stays in the map until the program restarts its timer, or   *)
(* the timer was cancelled, or an execute that has walked over it ends, or *)
(* the Timers is collected: neither an exception of a block nor the        *)
(* collection of a Timer makes libzmq forget it.                           *)
DueUntilServed ==
  [][\A t \in Timer :
       due'[t] < due[t] => \/ Restart(t) \/ t \in marked
                           \/ ExecuteEnds /\ done[t] > 0
                           \/ ~TimersReachable]_vars

LEMMA BlocksStep ==
  ASSUME TimerInv, BlocksFollowTimers, [Next]_vars
  PROVE  BlocksFollowTimers' /\ \A t \in Timer : arg[t] = "free" => arg'[t] = "free"
<1> DEFINE Goal == BlocksFollowTimers' /\ \A t \in Timer : arg[t] = "free" => arg'[t] = "free"
<1> USE DEF TimerInv, TypeOK, BlocksFollowTimers
<1>1. ASSUME NEW t \in Timer, Add(t) \/ AddRaises(t) PROVE Goal
  BY <1>1 DEF Add, AddRaises, Make
<1>2. ASSUME NEW t \in Timer, Cancel(t) PROVE Goal
  BY <1>2 DEF Cancel, Asks, objVars
<1>3. CASE Collect
  BY <1>3 DEF Collect
<1>4. ASSUME UNCHANGED <<object, arg>> PROVE Goal
  BY <1>4
<1>5. ASSUME NEW t \in Timer,
             Expire(t) \/ Restart(t) \/ Fire(t) \/ PassOver(t) \/ Drop(t)
      PROVE  Goal
  BY <1>4, <1>5 DEF Expire, Restart, Fire, PassOver, Walk, Drop, objVars
<1>6. CASE Execute \/ Return \/ Raise \/ ExecuteEnds \/ Timeout \/ DropTimers \/ UNCHANGED vars
  BY <1>4, <1>6 DEF Execute, Return, Raise, ExecuteEnds, Timeout, DropTimers, objVars, vars
<1>7. QED
  BY <1>1, <1>2, <1>3, <1>5, <1>6 DEF Next

(* No argument block leaks or is used for a second Timer.                  *)
THEOREM BlocksAreFreed == Spec => []BlocksFollowTimers /\ BlocksFreedOnce
<1>1. Init => BlocksFollowTimers
  BY DEF Init, BlocksFollowTimers
<1>2. TimerInv /\ BlocksFollowTimers /\ [Next]_vars
        => BlocksFollowTimers' /\ [\A t \in Timer : arg[t] = "free" => arg'[t] = "free"]_vars
  BY BlocksStep
<1>3. QED
  BY <1>1, <1>2, TimerInvariant, PTL DEF Spec, BlocksFreedOnce

(* Due entries are not lost.                                               *)
THEOREM DueTimersStay == Spec => DueUntilServed
<1>1. ASSUME TimerInv, [Next]_vars, NEW t \in Timer, due'[t] < due[t]
      PROVE  \/ Restart(t) \/ t \in marked
             \/ ExecuteEnds /\ done[t] > 0
             \/ ~TimersReachable
  <2>1. due[t] \in Nat /\ done[t] \in Nat /\ due \in [Timer -> Nat]
        /\ done[t] <= due[t] /\ (phase = "idle" => done[t] = 0)
    BY <1>1 DEF TimerInv, TypeOK, Good, Walked
  <2>2. due' # due
    BY <1>1, <2>1
  <2>3. ASSUME NEW u \in Timer, Restart(u) PROVE Restart(t)
    <3>1. CASE u = t
      BY <2>3, <3>1
    <3>2. CASE u # t
      BY <1>1, <2>1, <2>3, <3>2 DEF Restart, Minus
    <3>3. QED
      BY <3>1, <3>2
  <2>4. ASSUME NEW u \in Timer, Expire(u) PROVE FALSE
    BY <1>1, <2>1, <2>4 DEF Expire, Plus
  <2>5. ASSUME NEW u \in Timer,
               Add(u) \/ AddRaises(u) \/ Cancel(u) \/ Fire(u) \/ PassOver(u) \/ Drop(u)
        PROVE  FALSE
    BY <2>2, <2>5 DEF Add, AddRaises, Make, Cancel, Fire, PassOver, Walk, Drop, mapVars
  <2>6. Erase => done[t] > 0 \/ t \in marked
    BY <1>1, <2>1 DEF Erase
  <2>7. CASE Timeout
    BY <2>1, <2>2, <2>6, <2>7 DEF Timeout, mapVars
  <2>8. CASE ExecuteEnds
    BY <2>6, <2>8 DEF ExecuteEnds
  <2>9. CASE Collect
    BY <2>2, <2>9 DEF Collect, mapVars
  <2>10. CASE Execute \/ Return \/ Raise \/ DropTimers \/ UNCHANGED vars
    BY <2>2, <2>10 DEF Execute, Return, Raise, DropTimers, mapVars, vars
  <2>11. QED
    BY <1>1, <2>3, <2>4, <2>5, <2>7, <2>8, <2>9, <2>10 DEF Next
<1>2. TimerInv /\ [Next]_vars =>
        [\A t \in Timer :
           due'[t] < due[t] => \/ Restart(t) \/ t \in marked
                               \/ ExecuteEnds /\ done[t] > 0
                               \/ ~TimersReachable]_vars
  BY <1>1
<1>3. QED
  BY <1>2, TimerInvariant, PTL DEF Spec, DueUntilServed
=============================================================================
