------------------------------- MODULE Timers -------------------------------
(***************************************************************************)
(* One LibZMQ::Timers object, its Timer objects and the native timers that *)
(* call back into Ruby.  A native timer holds a raw pointer to the         *)
(* argument block of its Timer; the hash in the instance variable "timers" *)
(* keeps the Timer from the collector, and cancel frees the block.  A      *)
(* Timer knows its Timers by a value the collector does not see.           *)
(*                                                                         *)
(* libzmq keeps a map of entries, ordered by the time they are due, and a  *)
(* set of marks, the identifiers of cancelled timers.  An execute walks    *)
(* over the entries of the timers that are due.  It takes away the mark of *)
(* a cancelled one and passes over the entry, calls the block of any other *)
(* and inserts a new entry; it erases the entries it walked over at the    *)
(* end.  An exception that leaves a block leaves the walk where it was.    *)
(*                                                                         *)
(* Entries are counted for each timer; the order among due ones is left    *)
(* open.  Intervals are not zero.  An execute inside a callback is not     *)
(* modelled.  A Timer slot is used once.                                   *)
(***************************************************************************)
EXTENDS Integers

CONSTANTS
  Timer, NONE,
  MaxEntries   \* bound on the entries one timer has between two executes

ASSUME TimersAssumption == NONE \notin Timer /\ MaxEntries \in Nat

VARIABLES
  held,     \* Timer objects the program refers to
  tsHeld,   \* does the program refer to the Timers object?
  object,   \* of each Timer: "none", "live" or "freed" by the collector
  tsFreed,  \* has the collector freed the Timers object?
  arg,      \* the mrb_zmq_timers_fn_t of each Timer
  hash,     \* the instance variable "timers"
  wait,     \* of each timer: entries of the map whose interval runs,
  due,      \* and those whose interval has passed
  marked,   \* timers that libzmq has noted as cancelled
  lost,     \* history: timers that did not get into the hash, for want of memory
  ghosts,   \* history: timers whose entries an exception kept from being
            \* erased, or that were restarted after their block had run in
            \* the same execute
  phase,    \* of execute: "idle", "running", "call"ing a block, calling a
            \* block that was "freed", or "torn", when the entry it stands
            \* on or begins with is erased; the last two are not followed
  todo,     \* due entries this execute has still to walk over
  done,     \* due entries it has walked over
  first,    \* the timer of the entry it began with
  now       \* the timer whose block runs

objVars  == <<held, tsHeld, object, tsFreed>>
mapVars  == <<wait, due, marked>>
histVars == <<lost, ghosts>>
walkVars == <<todo, done, first, now>>
vars     == <<objVars, arg, hash, mapVars, histVars, phase, walkVars>>

TypeOK ==
  /\ held \subseteq Timer /\ hash \subseteq Timer /\ marked \subseteq Timer
  /\ lost \subseteq Timer /\ ghosts \subseteq Timer
  /\ wait \in [Timer -> Nat] /\ due \in [Timer -> Nat]
  /\ todo \in [Timer -> Nat] /\ done \in [Timer -> Nat]
  /\ tsHeld \in BOOLEAN /\ tsFreed \in BOOLEAN
  /\ object \in [Timer -> {"none", "live", "freed"}]
  /\ arg \in [Timer -> {"none", "alloc", "free"}]
  /\ phase \in {"idle", "running", "call", "freed", "torn"}
  /\ now \in Timer \cup {NONE} /\ first \in Timer \cup {NONE}

Nothing == [t \in Timer |-> 0]

Plus(f, t) == [f EXCEPT ![t] = @ + 1]

Minus(f, t) == [f EXCEPT ![t] = @ - 1]

InMap(t) == wait[t] + due[t] > 0

(* Entries of t that the next calls of libzmq will come to.                *)
Ahead(t) == wait[t] + due[t] - done[t]

(* mrb_zmq_timers_new                                                      *)
Init ==
  /\ held = {} /\ hash = {} /\ marked = {} /\ lost = {} /\ ghosts = {}
  /\ wait = Nothing /\ due = Nothing /\ todo = Nothing /\ done = Nothing
  /\ tsHeld = TRUE /\ tsFreed = FALSE
  /\ object = [t \in Timer |-> "none"] /\ arg = [t \in Timer |-> "none"]
  /\ phase = "idle" /\ now = NONE /\ first = NONE

(* The program runs outside execute and in a block that execute called.    *)
ProgramRuns == phase \in {"idle", "call"}

-----------------------------------------------------------------------------
(* What every add does; a is "alloc", an argument block filled in.         *)
Make(t, a) ==
  /\ ProgramRuns /\ tsHeld
  /\ object[t] = "none"
  /\ object' = [object EXCEPT ![t] = "live"]
  /\ arg' = [arg EXCEPT ![t] = a]
  /\ UNCHANGED <<tsHeld, tsFreed, due, marked, ghosts, phase, walkVars>>

(* Slips to catch: the new argument block is not filled in; the Timer is   *)
(* not put into the hash.                                                  *)
AddUnfilled(t) ==
  /\ Make(t, "unfilled")
  /\ wait' = Plus(wait, t) /\ hash' = hash \cup {t} /\ held' = held \cup {t}
  /\ UNCHANGED lost

AddUnhashed(t) ==
  /\ Make(t, "alloc")
  /\ wait' = Plus(wait, t) /\ held' = held \cup {t}
  /\ UNCHANGED <<hash, lost>>

(* Timers#add                                                              *)
Add(t) ==
  /\ Make(t, "alloc")
  /\ wait' = Plus(wait, t) /\ hash' = hash \cup {t} /\ held' = held \cup {t}
  /\ UNCHANGED lost

(* zmq_timers_add fails, or mrb_hash_set has no memory after it.  The      *)
(* program does not get the Timer.                                         *)
AddRaises(t) ==
  /\ Make(t, "alloc")
  /\ \/ UNCHANGED <<wait, lost>>
     \/ wait' = Plus(wait, t) /\ lost' = lost \cup {t}
  /\ UNCHANGED <<held, hash>>

(* The interval of an entry passes.                                        *)
Expire(t) ==
  /\ phase \notin {"freed", "torn"}
  /\ wait[t] > 0
  /\ wait' = Minus(wait, t) /\ due' = Plus(due, t)
  /\ UNCHANGED <<objVars, arg, hash, marked, histVars, phase, walkVars>>

(* A method of a Timer that was not cancelled goes to its Timers.  When    *)
(* that was collected before the Timer it reads freed memory; what follows *)
(* is not modelled.                                                        *)
Asks(t) == ProgramRuns /\ t \in held /\ arg[t] = "alloc" /\ ~tsFreed

(* Is the earliest entry of t one the walk began with or stands on?        *)
UnderFoot(t) == done[t] > 0 /\ (t = first \/ (t = now /\ done[t] = 1))

(* A slip to catch: a restart adds an entry and keeps the old one.         *)
RestartAdds(t) ==
  /\ Asks(t) /\ Ahead(t) < MaxEntries
  /\ wait' = Plus(wait, t)
  /\ UNCHANGED <<objVars, arg, hash, due, marked, histVars, phase, walkVars>>

(* Timer#interval= and Timer#reset: libzmq erases the earliest entry of    *)
(* the timer and inserts a new one.  The earliest may be one that execute  *)
(* has walked over: then its block has run and has a new entry already.    *)
Restart(t) ==
  /\ Asks(t) /\ due[t] > 0
  /\ IF UnderFoot(t)
       THEN phase' = "torn" /\ UNCHANGED <<wait, due, todo, done, ghosts>>
       ELSE /\ due' = Minus(due, t) /\ wait' = Plus(wait, t)
            /\ IF done[t] > 0
                 THEN /\ Ahead(t) < MaxEntries
                      /\ done' = Minus(done, t) /\ ghosts' = ghosts \cup {t}
                      /\ UNCHANGED todo
                 ELSE /\ todo' = IF todo[t] > 0 THEN Minus(todo, t) ELSE todo
                      /\ UNCHANGED <<done, ghosts>>
            /\ UNCHANGED phase
  /\ UNCHANGED <<objVars, arg, hash, marked, lost, first, now>>

(* Slips to catch: the hash keeps the Timer; only the hash loses it.       *)
CancelKeepsHash(t) ==
  /\ Asks(t) /\ InMap(t) /\ t \notin marked
  /\ marked' = marked \cup {t}
  /\ arg' = [arg EXCEPT ![t] = "free"]
  /\ UNCHANGED <<objVars, hash, wait, due, histVars, phase, walkVars>>

CancelHashOnly(t) ==
  /\ Asks(t)
  /\ hash' = hash \ {t}
  /\ arg' = [arg EXCEPT ![t] = "free"]
  /\ UNCHANGED <<objVars, mapVars, histVars, phase, walkVars>>

(* Timer#cancel; called again it finds no DATA_PTR and does nothing.       *)
(* libzmq refuses to mark a timer it does not have or has marked already.  *)
Cancel(t) ==
  /\ Asks(t) /\ InMap(t) /\ t \notin marked
  /\ marked' = marked \cup {t}
  /\ hash' = hash \ {t}
  /\ arg' = [arg EXCEPT ![t] = "free"]
  /\ UNCHANGED <<objVars, wait, due, histVars, phase, walkVars>>

-----------------------------------------------------------------------------
(* Timers#execute; what expires from now on waits for the next one.        *)
Execute ==
  /\ phase = "idle" /\ tsHeld
  /\ phase' = "running" /\ todo' = due
  /\ UNCHANGED <<objVars, arg, hash, mapVars, histVars, done, first, now>>

Walk(t) ==
  /\ phase = "running" /\ todo[t] > 0
  /\ todo' = Minus(todo, t) /\ done' = Plus(done, t)
  /\ first' = IF first = NONE THEN t ELSE first
  /\ UNCHANGED <<objVars, arg, hash, wait, due, histVars>>

(* mrb_zmq_timer_fn yields to the block of a timer that is not marked.     *)
Fire(t) ==
  /\ Walk(t) /\ t \notin marked
  /\ phase' = IF arg[t] = "alloc" THEN "call" ELSE "freed"
  /\ now' = t
  /\ UNCHANGED marked

PassOver(t) ==
  /\ Walk(t) /\ t \in marked
  /\ marked' = marked \ {t}
  /\ UNCHANGED <<phase, now>>

Return ==
  /\ phase = "call"
  /\ phase' = "running" /\ now' = NONE
  /\ wait' = Plus(wait, now)
  /\ UNCHANGED <<objVars, arg, hash, due, marked, histVars, todo, done, first>>

WalkOver == todo' = Nothing /\ done' = Nothing /\ first' = NONE /\ now' = NONE

(* An exception of the block leaves execute: nothing is erased, nothing is *)
(* inserted for the timer whose block it was.                              *)
Raise ==
  /\ phase = "call"
  /\ \A t \in Timer : wait[t] + due[t] <= MaxEntries
  /\ phase' = "idle" /\ WalkOver
  /\ ghosts' = ghosts \cup {t \in Timer \ {now} : done[t] > 0}
  /\ UNCHANGED <<objVars, arg, hash, mapVars, lost>>

(* The entries walked over are erased, and for each of some cancelled      *)
(* timers its mark with its next entry: those that come before every other *)
(* timer.                                                                  *)
Erase ==
  \E T \in SUBSET {t \in marked : Ahead(t) > 0} :
    /\ due' = [t \in Timer |->
                 due[t] - done[t] - (IF t \in T /\ due[t] > done[t] THEN 1 ELSE 0)]
    /\ wait' = [t \in Timer |->
                  wait[t] - (IF t \in T /\ due[t] = done[t] THEN 1 ELSE 0)]
    /\ marked' = marked \ T

(* A slip to catch: zmq_timers_execute is left after the first timer.      *)
EndsAfterOne ==
  /\ phase = "running" /\ (todo = Nothing \/ done # Nothing)
  /\ Erase
  /\ phase' = "idle" /\ WalkOver
  /\ UNCHANGED <<objVars, arg, hash, histVars>>

ExecuteEnds ==
  /\ phase = "running" /\ todo = Nothing
  /\ Erase
  /\ phase' = "idle" /\ WalkOver
  /\ UNCHANGED <<objVars, arg, hash, histVars>>

(* Timers#timeout: libzmq erases the cancelled timers it meets before the  *)
(* first other one.  In a block that is the entry execute began with,      *)
(* unless its timer was cancelled since.                                   *)
Timeout ==
  /\ ProgramRuns /\ tsHeld
  /\ \/ phase = "idle" /\ Erase /\ UNCHANGED phase
     \/ /\ phase = "call" /\ first \in marked
        /\ phase' = "torn" /\ UNCHANGED mapVars
  /\ UNCHANGED <<objVars, arg, hash, histVars, walkVars>>

-----------------------------------------------------------------------------
(* The program and the collector.                                          *)
Drop(t) ==
  /\ ProgramRuns /\ t \in held
  /\ held' = held \ {t}
  /\ UNCHANGED <<tsHeld, object, tsFreed, arg, hash, mapVars, histVars, phase, walkVars>>

DropTimers ==
  /\ ProgramRuns /\ tsHeld
  /\ tsHeld' = FALSE
  /\ UNCHANGED <<held, object, tsFreed, arg, hash, mapVars, histVars, phase, walkVars>>

(* execute has its receiver on the stack.                                  *)
TimersReachable == tsHeld \/ phase # "idle"

Reachable == held \cup (IF TimersReachable THEN hash ELSE {})

(* The finaliser of a Timer frees its block, that of the Timers destroys   *)
(* the native timers.                                                      *)
Collect ==
  LET dead == {t \in Timer : object[t] = "live"} \ Reachable
      gone == ~TimersReachable /\ ~tsFreed
  IN
  /\ ProgramRuns /\ (dead # {} \/ gone)
  /\ object' = [t \in Timer |-> IF t \in dead THEN "freed" ELSE object[t]]
  /\ arg' = [t \in Timer |-> IF t \in dead THEN "free" ELSE arg[t]]
  /\ tsFreed' = (tsFreed \/ gone)
  /\ IF gone
       THEN wait' = Nothing /\ due' = Nothing /\ marked' = {} /\ hash' = {}
       ELSE UNCHANGED <<mapVars, hash>>
  /\ UNCHANGED <<held, tsHeld, histVars, phase, walkVars>>

Next ==
  \/ \E t \in Timer : \/ Add(t) \/ AddRaises(t) \/ Expire(t) \/ Restart(t) \/ Cancel(t)
                      \/ Fire(t) \/ PassOver(t) \/ Drop(t)
  \/ Execute \/ Return \/ Raise \/ ExecuteEnds \/ Timeout
  \/ DropTimers \/ Collect

Spec == Init /\ [][Next]_vars

(* The program calls execute again and again, as the loop it was made for  *)
(* does, and blocks return or raise.                                       *)
FairSpec ==
  /\ Spec
  /\ WF_vars(Execute) /\ WF_vars(ExecuteEnds) /\ WF_vars(Return \/ Raise)
  /\ WF_vars(\E t \in Timer : Fire(t) \/ PassOver(t))

-----------------------------------------------------------------------------
(* Where libzmq may call back with a freed block.  Cancel frees the block  *)
(* at once and leaves the entry to a later execute, so that holds only as  *)
(* long as each timer has one entry, marked or not, and it is not so for   *)
(*  - a timer that add could not put into the hash;                        *)
(*  - one that an execute had walked over, called or cancelled, when a     *)
(*    later block raised: its entry stays, without its mark;               *)
(*  - one that a later block of the same execute restarted: it has two     *)
(*    entries, and cancel marks it once.                                   *)
(* For every other timer that libzmq will call, Timer and block are alive, *)
(* whoever dropped, cancelled or restarted what, in a callback or outside. *)
CallbacksBacked ==
  /\ \A t \in Timer \ (lost \cup ghosts) :
       Ahead(t) > 0 /\ t \notin marked => arg[t] = "alloc" /\ object[t] = "live"
  /\ phase = "freed" => now \in lost \cup ghosts

(* While the Timers lives its hash holds exactly the timers that were      *)
(* added and not cancelled and that libzmq knows, except the lost ones:    *)
(* zmq_timers_cancel and zmq_timers_reset never meet an unknown timer, and *)
(* a cancelled Timer is not kept alive.  (libzmq may know more: the lost   *)
(* ones, and entries of cancelled timers.)                                 *)
HashIsArmed ==
  /\ hash = {t \in Timer \ lost : InMap(t) /\ arg[t] = "alloc"}
  /\ \A t \in held : ~tsFreed /\ arg[t] = "alloc" => InMap(t) /\ t \notin marked

(* A block runs once when its interval passes: it is called once in an     *)
(* execute and waits once for the next, however the program restarts it,   *)
(* time passes in blocks and blocks raise, but for the two cases of        *)
(* "ghosts".                                                               *)
RunsOnce == \A t \in Timer \ ghosts : Ahead(t) <= 1 /\ done[t] <= 1

(* No due timer is passed over for ever: its block runs, unless it is      *)
(* cancelled, restarted in time or the Timers goes, once blocks do not     *)
(* raise any more.  (An exception ends execute before the timers that      *)
(* follow.)                                                                *)
DueTimersRun ==
  <>[][~Raise]_vars =>
    \A t \in Timer :
      \/ []<><<Restart(t)>>_vars
      \/ due[t] > 0 ~> \/ now = t \/ due[t] = 0 \/ arg[t] = "free"
                       \/ ~tsHeld \/ phase \in {"freed", "torn"}
=============================================================================
