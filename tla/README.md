# TLA+ models of mruby-zmq

mruby-zmq binds libzmq to mruby. Most of the code is a thin layer over libzmq; what is hard in it
is ownership and lifetime: who ends a context, which Ruby object closes a native socket and when,
which raw pointers libzmq keeps into the mruby heap, and what is left behind when an exception, a
signal or the collector comes in between. These modules model that part, check it with TLC on small
instances and prove the main properties with TLAPS for every instance.

Paths below are those of the repository: `src/mrb_libzmq.cc` is called *cc*, `src/mrb_libzmq.h` *h*,
the Ruby files are those in `mrblib/`.

## Inventory

| Component | State | Operations | Hard behaviour | What makes it correct |
|---|---|---|---|---|
| Context life cycle (cc 1049-1207, h 102-130) | `__CTX__`, `__foreigen_context__`, `ZMQ.logger` | `gem_init`, `gem_final`, `mrb_zmq_set_context`, `mrb_zmq_ctx_shutdown_close_and_term` | blocking `zmq_ctx_term`, EINTR, contexts shared by threads, an exception half-way through the swap | contexts of the host are spared, own ones reclaimed, close and swap return |
| Socket (cc 18-52, 518-592, h 49-100, 153-166, `socket.rb`) | `DATA_PTR`, the linger of the native socket | `initialize`, `send`, `recv`, `close`, `close!`, options, finaliser | incremental collector, `ETERM` changing what `setsockopt` does, frames of one message sent one by one | each native socket is closed exactly once, by its one object |
| Logger (`logger.rb`, `zap.rb` 86) | its Pub socket | `log`, replacement on a swap | the swap may raise after the socket exists | the logger sits on the registered context |
| Poller (cc 654-868) | native poller with raw object pointers, array `sockets` | `add`, `modify`, `remove`, `wait` | a block that changes the poller between two events; aliases (Monitor, Zap) for a socket; closed sockets | no pointer to a collected object is registered or yielded |
| Timers (cc 870-995, h 195-216) | native timers, hash `timers`, argument block per Timer | `add`, `cancel`, `reset`, `interval=`, `execute`, `timeout` | callbacks that cancel, restart, drop or raise; libzmq forgets a cancelled timer only later; collection in a callback | a freed block is called in three named cases only; a block runs once for an interval |
| ZAP handler (`zap.rb`) | Router socket, an unfinished outgoing message | `handle_zap`, `send_reply` | exceptions after part of a reply is sent | nobody is let in by mistake or answered twice |
| Multipart messages (`socket.rb` 31-45, cc 344-361, 556-592) | the message in the socket that has no last frame yet; the frames `recv` has taken | `Socket#send` of an Array, `LibZMQ.send`, `Socket#recv` | `to_s` of an element is Ruby code that runs between two frames: it raises, sends, closes; `recv` raises half-way | a message arrives as it was sent, or its call was in trouble |
| Msg (cc 201-290, 320-342, `msg.rb`) | `zmq_msg_t` | `new`, `copy`, `send`, accessors, finaliser | a failed or repeated `initialize`, shared content | a Msg is a value; libzmq's count of users is exact |
| Options (cc 69-95, 131-199, 363-408, `sockopt.rb`, `contextopt.rb`) | in libzmq | get, set, `curve_security` | width and sign of integers, Floats, `ETERM`, a failure half-way | what fits is read back as it was set; no fallback to sending in clear |
| Z85 and curve key pairs (cc 97-115, 594-652) | none | `z85_encode`, `z85_decode`, `curve_keypair` | the length of the String libzmq fills | the String has room |
| Monitor (cc 539-554, `socket_monitor.rb`) | Pair socket | `monitor`, `recv` | decoding | |
| Proxies, `network_interfaces`, constants, errors, build | none | conversions, generated tables | | |

Interactions: all C functions run on the thread of their `mrb_state`. They call libzmq, whose I/O
threads send queued messages and close lingering sockets on their own. libzmq calls back only from
`zmq_timers_execute`. The collector of mruby runs finalisers at almost any point of the program,
and `mrb_close` runs `gem_final` first and all finalisers after it. A context that the host program
registers in several `mrb_state`s is the only state shared by threads.

The full list of hazards, each at its line, is in `PROJECT.json`.

## Modules

| Module | Role |
|---|---|
| `ZmqSession`, `ZmqSessionProofs` | abstract: the sockets an `mrb_state` holds over its life (`new`, `own`, `moving`, `host`, `leaving`, `gone`) |
| `ZmqContext` | contexts, socket objects, native sockets, collector, logger, host; implements `ZmqSession` |
| `ZmqContextProofs` | its theorems |
| `Poller`, `PollerProofs` | one poller and the objects registered with it |
| `Timers`, `TimersProofs` | one `Timers` object and its Timers |
| `Zap`, `ZapProofs` | the handler of ZAP requests |
| `Multipart`, `MultipartProofs` | the calls of `Socket#send` on one socket and `recv` of its peer |
| `MsgValue` | abstract: Msgs are values |
| `Msg`, `MsgProofs` | `zmq_msg_t`s over contents that libzmq shares and counts; implements `MsgValue` |
| `Options`, `OptionsProofs` | numbers, Strings and security options on their way to libzmq and back |
| `MCZmqContext`, `MCPoller`, `MCMultipart`, `MCOptions` | instances for TLC (`Timers`, `Zap` and `Msg` need none) |

### ZmqContext

| In the model | In the code |
|---|---|
| `reg[v]`, `foreign[v]` | constants `__CTX__`, `__foreigen_context__` of the module `LibZMQ` in the VM `v` |
| `pc[v]` | `run`: Ruby code; `swap`, `direct`, `final`: inside `zmq_ctx_term`, called from `set_context`, by the host, from `gem_final`; `destroy`: `mrb_close` after `gem_final` |
| `obj[o]` | a heap slot: `live`, `garbage` (unreachable), `dead` (marked so by the collector, not yet swept), `free` |
| `ptr[o]` | `DATA_PTR`; `NULL` after close |
| `h[x]` | a native socket: `open`; `closing` after `zmq_close` by program or collector, `ending` after `zmq_close` by the shutdown, as long as it lingers; its linger, whether it has unsent messages, whether an operation returned `ETERM` on it (`told`) |
| `ended`, `interrupted`, `raised`, `dangling` | history: what the host asked for, where a signal came, where the last swap raised, who handed a terminated context to libzmq |

`zmq_ctx_term` blocks, so the three calls that reach it are two steps: `ShutdownAndClose` (h 105-107)
and `CtxTermReturns` or `CtxTermInterrupted`. The first is one step although it takes several
calls: the sockets it closes belong to one heap and one thread, and the only other thread that could
tell the difference is the host's, whose `zmq_ctx_term` on the same context only waits for the last
of them. A host that calls the routine itself (`DirectTerm`) may do so on any registered context, one that
is already shut down included, as a retry after a signal does; only two threads inside the routine for one
context at a time are left out, because that is libzmq's to settle. `SwapIsOneWay` says of every step that
changes the registered context that it is a call or the end of `mrb_zmq_set_context`, with the context that
call was given. A linger of 500 ms is `bounded`, that of `zmq_setsockopt(..., 0)` `none`, libzmq's default
`forever`.

External behaviour is modelled from what the binding relies on: `zmq_close` removes a socket at once
unless it has unsent messages and a linger; `zmq_setsockopt` fails with `ETERM` on a socket that has
seen its context shut down; `mrb_objspace_each_objects` completes a collection first, unless the
collector is disabled, and then shows dead objects as well.

### Poller

`items` maps each registered socket or descriptor to the object whose raw pointer is its user data;
`pins` counts how often the array holds an object. `Polled[o]` is what an object stands for: a
Monitor or a Zap stands for its socket, and whoever holds one of them can name that socket (`Known`), close
or remove it and keep it for itself (`Keep`). A `wait` with a block takes the events (`WaitAll`), then
yields one per step (`Yield`); in between the block may run `Add`, `Modify`, `Remove`, `Close`, `Drop`
and the collector. Of an event mask only whether it is zero matters (`muted`): such an item yields no
events but still bounds how many are taken. `AddNoMemory` is an `add` whose `mrb_ary_push` fails after
`zmq_poller_add`: the object is registered and nothing protects it (`unpinned`).

### Timers

`arg[t]` is the argument block a native timer points to, `hash` the instance variable. libzmq itself is
modelled from how its timers work, because everything depends on it (`deps/libzmq` is not part of the
sources): it keeps a map of entries, counted for each timer as `wait` (the interval runs) and `due`, and
`marked`, the timers that were cancelled. `cancel` frees the block (cc 966) but leaves the entry; only an
`execute` or a `timeout` that comes to it takes away the mark and, at its end, erases the entry.

`Execute` begins a walk over the entries that are due: `todo` counts those still to come, `done` those
walked over, which stay in the map until `ExecuteEnds`. `Fire` calls the block of a timer that is not
marked, `Return` inserts its next entry, `PassOver` takes away a mark. An exception (`Raise`) leaves
`zmq_timers_execute` in the middle: the entries walked over stay, those of cancelled timers without a mark
and with a block that is freed already. `reset` and `interval=` (`Restart`) erase the earliest entry of
a timer, which in a callback may be one that was walked over. A timer that this happened to, or whose
entries an exception kept, is in `ghosts`; one that `add` could not put into the hash is in `lost`.

A freed block that libzmq calls is the phase `freed`; an erased entry that the walk stands on or begins
with is `torn` (a block that restarts its own timer, or the first timer of the walk, or calls `timeout`
after it cancelled that one). What follows either is not modelled. `CallbacksBacked` says that only a lost
timer or a ghost leads to `freed`.

### Multipart

`top` is the innermost call of `Socket#send`, `caller` the call in whose `to_s` it was made. Between two
frames of a call its `to_s` may start another call (`Begin`), raise (`Raise`) or close the socket
(`Close`); a call that then hands the stale pointer to `zmq_send` is `SendStale`. A frame is a pair of
call and number, so that every frame a receiver gets can be traced. `pending` is the message libzmq has
no last frame of yet. `RecvFirst`, `RecvMore` and `RecvReturns` are the loop of `recv`, `RecvRaises` its
exceptions. An empty Array is one frame (`data[0]`, nil). History: `disturbed`, `spoiled`, `cut`.

### Msg

`box[m]` is what the `zmq_msg_t` of an object holds: a content of libzmq, nothing, or memory that was
never initialised (`raw`). A copy of such a Msg raises and is empty (`CopyRaises`). `refs` is libzmq's count, `wire` counts frames in sockets, `lost` the structs that a
second `initialize` wrote over without closing them. Slots of the heap and contents are reused.

### Options

One of a number, a String or the security of a socket is followed in a behaviour (`kind`); they do not
touch each other. Numbers are integers with the limits of the C types as parameters, and every
conversion is what the cast does: `Narrow` and `Low` drop high bits, `Unsigned` wraps, `Floats` rounds,
the cast of a Float that does not fit is any `int64_t`. `Set` is a setter, `Get` a getter with the
conversion it makes on the way back (`Gives`: `affinity` is a `uint64_t` and is read as an `int64_t`); `got` is
what the program read since it last set the option. For the interval of a timer, which cannot be read,
`DueAt` is when libzmq calls it. `room` and `filled` are the length of a String
and what libzmq writes into it. `curve_security` is one step per setter (`CurveSets`), then the check of
the mechanism (`CurveReturns`), with `CurveRaises` possible before each.

### Zap

A reply is one step when it completes, or breaks off after some frames and leaves `open`, the client
the unfinished message in the Router is for. All exceptions of the authenticator, of the conversion
of user and metadata, and of the logger are choices of the model; so are requests of another ZAP
version and requests with frames missing, which only another socket of the program could send.

## Runs

| Run | Instance | Question |
|---|---|---|
| `ctx_one` | 1 VM, 2 host contexts, 2 objects, 2 native sockets, no logger | the safety properties of contexts and sockets; `mrb_close`, the swap and the host's `zmq_ctx_term` return |
| `ctx_logger` | 1 VM, 1 host context, 3 objects, the logger has a socket; collector on | the logger across swaps that raise |
| `ctx_two` | 2 VMs with one object each, one host context; collector on, no signals | `ZmqSession` is implemented: nothing crosses from one VM to the other |
| `poller` | a socket, a Monitor for it, an IO object, 2 pins each | raw pointers are backed, yields are live, the array counts the items |
| `timers` | 2 timers, 2 entries each when a walk ends in an exception | callbacks are backed but in the named cases, the hash agrees with libzmq, blocks run once, due timers run |
| `zap` | 3 clients | who is let in, who is answered, who hears nothing |
| `multipart` | 3 calls, of three frames, two frames and an empty Array | messages stay whole, an undisturbed send is whole, the damage of an exception is bounded |
| `msg` | 3 objects, 2 contents, 2 values, 3 users of a content | the count of users is exact, a Msg is a value |
| `options` | `int` of 3 bits, `int64_t` of 5, exact Floats up to 7, numbers from -21 to 21, Strings of 0 to 44 bytes | what fits is read back as it was set, setting what was read changes nothing, timers wait as asked, Strings have room, no fallback to sending in clear |
| `ctx_close_bang`, `ctx_terminates`, `zap_error` | small | places where the code does not do what its documentation says (below) |

Bounds. Contexts do not interact with each other except through the VM that moves from one to the
next, so the gem's own and two of the host cover every move: from the own context, between contexts of
the host, and back to one that was left. The second one is there only in the absence of signals, dangling
contexts and dead objects (`SecondIfQuiet`). Two objects give one that is closed, collected or dead while the other is in use; slots
and native sockets are reused without limit, so there is no bound on the number of sockets made. Two
VMs are what a shared context needs. The constraints `CollectorOn` and `Undisturbed` keep the larger
instances small; `ctx_one` has both the disabled collector and signals. Two pins of one object are
enough for an object to be pinned without being registered. In `timers` a block can cancel or restart the
other timer before and after the walk has come to it, and raise; the proofs are for any number. `MaxEntries` (2) bounds how many entries a timer has when a block raises or the timer is
restarted after its call, the two ways to get a second one; such timers are ghosts, which the properties
set apart with two entries as with more. In `Zap` a client whose reply broke off, one whose reply is
appended to it and one after both are three. A socket, its Monitor and an IO object are the three ways
to register something with a poller, and the alias needs the first two; a second socket would behave
like the IO object. In `Multipart` one call can be disturbed by a second one that is disturbed by the
third; each call is made once, so there is an end to every behaviour. Three Msgs are a source, a copy and
a copy of that, `MaxUsers` (3) bounds only how often one content is shared; the second content is what
the freed one is told apart from. The widths in `options` are small so that every number around each
limit, and around the next multiple of it, is tried; the proofs are for all widths.

Symmetry is declared for native sockets in `ctx_logger` and the small context runs, which no definition
tells apart, and never in a run with a liveness property.

Deadlock is checked in `options` only. Elsewhere a program may stop calling, every VM may be closed,
every call may be made, and a `zmq_ctx_term` that waits for a lingering socket is a state the code
really reaches.

Every property of a passing run has a mutant: a variant of one definition (the operators introduced
by a comment "a slip to catch"), the kind of error one could make in that code, under which the
property fails. These operators are not part of any specification.

### Fairness

`ctx_one` (`FairSpec`): libzmq's I/O threads close a lingering socket when its time is up,
`zmq_ctx_term` returns when the last socket is gone, `mrb_close` runs on after `gem_final`, and a host
that asked for the end of a context calls `zmq_ctx_term` until it succeeds. No peer has to take a
message, and no program has to close anything: the promise is that the binding alone ends. The
exception, `Stuck`, is a socket that the program closed itself with libzmq's infinite linger, one that
lingers forever although the shutdown closed it, because `ETERM` kept its linger from being set (the
second context of `ctx_one` reaches it: the host ends the context an `mrb_state` was moved away from, and
the shutdown is called for the other),
or one that a dead object still has.

`timers` (`FairSpec`): the program calls `execute` again and again, as an event loop does, libzmq goes on
over its map and blocks return or raise. `DueTimersRun` assumes moreover that blocks raise only
finitely often: each exception ends an `execute` before the timers that follow.

`zap` (`FairSpec`): the program calls `handle_zap` when its Router is readable, and its authenticator returns
or raises.

## What is proved

TLAPS proves, for any number of VMs, contexts, objects, sockets, timers and clients:

* `ZmqContext`: `TypeOK`, `HostCtxSpared`, `OwnCtxReclaimed`, `SwapIsOneWay`, `DanglingOnlyIfEnded`,
  `OneHolder`, `NoSocketLeftBehind`, `LoggerFollowsContext`, and that it implements `ZmqSession`.
  Beyond what the runs check: a context goes from open through stopping to terminated and back to none of
  them (`ContextsAge`), no native socket outlives its context (`NoSocketOutlivesContext`), a context that
  was shut down gets no new socket (`NoNewcomers`), `close!` and the finaliser drop what was not sent
  unless the host had ended the context (`DropsUnlessEnded`), every open socket is owned by one object of
  an `mrb_state` that is neither unborn nor closed (`OpenSocketsOwned`), and `zmq_ctx_term` waits for
  nothing that does not go by itself (`TermCanReturn`).
* `ZmqSession`: `Exclusive` and `NothingHeldOutside`, which the implementation carries over to
  `ZmqContext`: no native socket belongs to two `mrb_state`s, a closed one has none.
* `Poller`: `Backed`, `YieldsLiveObjects`, and that the array counts the items (`ArrayExact`), so that its length
  is the right bound for the events of a `wait`; that it pins nothing else (`PinsAreRegistered`); that nothing
  freed comes back (`FreedStaysFreed`).
* `Timers`: `CallbacksBacked`, `HashIsArmed`, `RunsOnce`; that argument blocks are freed once and
  do not leak (`BlocksFollowTimers`, `BlocksFreedOnce`); that a due timer is not lost (`DueUntilServed`).
* `Zap`: `GrantedIsAuthenticated`, `OneAnswer`, `SilenceExplained`, `OneVictimEach`; that no client takes
  the answer to another request for its own (`RightAnswers`); that who waits is queued, being handled or one
  of the exceptions (`NobodyForgotten`).
* `Multipart`: `WholeUnlessTroubled`, `DamageBounded`, `UndisturbedSendsWhole`, for any number of calls of
  any length.
* `Msg`: `RefsExact`, and that it implements `MsgValue`, for any finite set of objects; that buffers in use
  are not written, those of frames included (`InUseStayWritten`), and that a content goes with its last user
  (`NothingLeaks`).
* `Options`: `ReadsBack`, `Restores`, `IntervalsKept`, `StringsHold`, `CurveHolds`, for any widths and lengths.
* `TypeOK` of all of these modules.

The arguments:

* *Contexts.* `TypeOK` needs to know where `target` is set (`Registered`): together they are
  inductive. `CtxInv` adds how `pc`, `reg`, `foreign` and the state of the own context go together
  (a VM that is not foreign works on its own context, which is open until the first shutdown unless
  the host ended it), and gives the properties about contexts. `OneHolder` is inductive over the
  types alone, once each of the four ways to close a socket is known to take pointer and socket away
  together. For the refinement every action is shown to be a step of `ZmqSession` or a stutter: what a
  VM holds is the set of sockets its objects point at, which `OneHolder` keeps apart from everyone
  else's.
  `NoSocketLeftBehind` is about the end of a swap, so the invariant `SwapInv` says what holds
  during it: whatever still has a socket is dead (`Clean`), because the shutdown closed the rest, and
  the program does not run until the flag is set. A dead object stays dead because the only way out of
  a slot that is not a collection, the replacement of the logger, concerns a live one (`LoggerLives`).
  That a socket stays on its context as long as its object holds it (`CtxKept`) carries this, and
  `LoggerFollowsContext`, over all other steps.
  For how contexts end, `Native` puts all of this together with what a slot (`SlotGood`) and a native socket
  (`NativeGood`) may be. A slot holds a socket on the own context or one of the host, after the shutdown of
  the own one only through a dead object, and while a VM waits in `zmq_ctx_term` only with the collector
  disabled. A native socket in use has a context that is not terminated; only the host's end of a context
  tells it `ETERM`, and the shutdown leaves a linger without bound only then. Its steps are few
  (`Becomes`, `SlotBecomes`): made, used, refused, left, gone; each action is shown to be one of them for
  every socket and slot, and the invariant is shown for the steps. `Staged` says which contexts
  exist, and which are shut down, at each place of a VM.
* *Poller.* The user data of an item is an object that stands for the item's socket (`ItemsOwn`); what
  is not freed refers to nothing that is (`HeapClosed`), because the collector keeps everything
  reachable; and the events still to be yielded are registered or were removed meanwhile
  (`EventsOwn`). With `Backed` that is inductive. `ArrayExact` follows because an `add` is refused while
  the socket has an item, and whoever removes it either empties its own place in the array or makes an alias.
* *Timers.* One invariant per timer (`Good`) over the place of the walk (`Control`). What the hash holds is
  alive and in libzmq's map, and a mark means a freed block (`Known`); the entries walked over are due ones
  (`Walked`). The heart is `Single`: a timer that is no ghost has one entry besides the one walked over, and
  none while its block runs. That is `RunsOnce`, and it is why one mark is enough: `cancel` frees the block
  and marks the only entry there is, the walk takes the mark away only together with that entry, and the
  entry goes unless an exception comes first, which makes a ghost (`Backing`). `DueUntilServed` needs of the
  invariant only that no block runs while libzmq looks for the next one.
* *Multipart.* Active calls form a chain from `top` outwards, and all but the innermost are disturbed
  (`Nested`): that is why an undisturbed call has its frames, in order, at the end of `pending`, and why
  whatever else is in there belongs to a call in trouble. Every message on the wire, and what `recv` has
  taken with what is left, is then one whole message or names such a call, and stays so because troubled
  calls stay troubled.
* *Msg.* One lemma counts: when the box of a single Msg changes, only the contents it had and it gets
  change their number of users (`StepKeepsCount`); every action is then a line of bookkeeping. For the
  refinement `RefsExact` says that a content that is given out again has no users, so no Msg changes
  with it (`BuffersStay`).
* *Options.* Numbers, Strings and security are three independent parts, each inductive. What libzmq has comes
  from the last number asked for and what was read from what libzmq has (`NumComes`); the rest is what the
  conversions do: each leaves the numbers of its type alone and yields no others, and `Signed` undoes
  `Unsigned`, so the way back mends nothing that the way there cut (`BackAgain`, `SetAgain`). `Halfway` says
  what `curve_security` has set when a given list of steps is left.
* *Zap.* The reply under way says what the authenticator said (`StatusMeans`); a client is in one
  place of the handler's work (`Place`); an unfinished message is for a client that has no answer yet
  (`OpenMeans`). For `OneVictimEach` an unfinished message of an abandoned request counts as a victim
  still to come (`VictimInv`). `AnswerInv` says what the handler knows of the request at each place
  (`PlaceMeans`) and for whom a message can be left unfinished: a user, or a request without an id.

Assumptions: those of the modules' `ASSUME`s (VMs and contexts of the host are different things, every
slot lies in one heap, a Monitor stands for a socket, the null value is none of the others, finite sets of
clients and of Msgs, Floats that hold no more integers than an `int64_t`, lengths within what mruby allows).

Only model-checked: the liveness properties (`CloseReturns`, `SwapReturns`, `HostTermReturns`,
`EveryoneHears`, `DueTimersRun`), which are out of the prover's reach. What they need of safety is proved: `TermCanReturn`,
`NobodyForgotten`, `DueUntilServed`. Every safety property of a passing run is proved; the
further invariants and action properties named above are stated in the proof modules.

## Where code and documentation differ

* h 153-155 says a collected socket is closed at once, `socket.rb` 13 that `close!` discards what could
  not be sent. Both ignore that `zmq_setsockopt` fails with `ETERM` on a socket that has seen its
  context shut down; with a message unsent it then lingers forever, and the host's `zmq_ctx_term` waits
  (`ClosesAtOnce`; the run shows it for `close!`, the finaliser makes the same two calls).
* `README.md` 76 says it terminates the context: a signal makes it return without (`TermTerminates`).
* `zap.rb` 25 answers a failed authentication with 300: when the failure comes from the metadata, seven
  frames of another reply are already in the socket, and the client gets a message of both
  (`TemporaryErrorSent`).

## Limits of the models

* The shutdown routine passes over objects that are dead but not swept. It meets them when the collector
  was disabled in the middle of a cycle; `ZmqContext` has such states, the properties about the shutdown
  say "that is not dead", and `README.md` 76 ("closes all sockets") is not quite true then.
* A Timer that outlives its Timers reads freed memory (cc 932, 945, 959): the model of Timers stops short
  of it. It also stops where libzmq calls a freed block (`freed`) or goes on from an erased entry (`torn`).
* libzmq's timers are modelled as the binding's use of them requires and as libzmq 4.3 keeps them (a map of
  entries, a set of marks, entries erased at the end of a walk). The order among due entries is left open,
  and intervals are not zero: a block whose timer is due again at once would run within the same `execute`.
* The finaliser of a Msg whose `initialize` raised closes a `zmq_msg_t` that was never initialised
  (cc 222, h 171), and `initialize_copy` may be given such a Msg (cc 243). The model takes it that libzmq
  rejects both; memory that happens to look like a message is not followed, and a program does nothing
  else with such a Msg.
* A `to_s` that closes the socket of a `send` leaves a stale pointer (cc 350) that `zmq_send` gets. `Multipart`
  has the step (`SendStale`) and takes it that libzmq refuses the pointer, as it does as long as the memory was
  not used again; no property is stated about it, because the code does not prevent it.
* In `Multipart` the frames of `recv` come from one socket of this program, and a peer that goes away
  does not make libzmq drop messages.
* In `Options` the effect of an option inside libzmq is modelled for the security mechanism only.

## Not modelled

* A `wait` inside the block of a `wait`, an `execute` inside a callback, sockets passed as C pointers, the
  collection of a poller that still holds objects, a context that ends under a ZAP handler: each needs
  internals of libzmq (what a list looks like while it is changed from within) that the binding does not
  fix.
* Accessors of Msgs, `disconnect`, `unbind`, `join`, `leave`: one call of libzmq, no
  state in the binding.
* The monitor's events, proxies, `network_interfaces`, what the logger writes, the group of a Msg:
  decoding, formatting or code that runs inside libzmq.
* Constants, errors, version, build: generated tables and build files.

## Plan

Done: `ZmqSession`, `ZmqContext`, `Poller`, `Timers`, `Zap`, `Multipart`, `MsgValue`, `Msg`, `Options`,
each with its proofs.

Next, in this order:

1. `Zap` on top of `Multipart`: a reply as the frames of one call of `send`, so that the bound on the
   damage of a broken reply follows from `DamageBounded`.
2. An event loop that composes `Poller` and `Timers`, with the blocks of one changing the other.
3. `Msg` with a `zmq_msg_t` that libzmq does not reject although it was never initialised.
