# Schellenberg USB stick integration: a TLA+ model

This directory holds TLA+ models of the Home Assistant integration in
`src/custom_components/schellenberg_usb`, the TLC configurations that check
them and the TLAPS proofs about them. Paths and line numbers below are relative
to that package unless they begin with `docs/` or name a file of the
repository's root.

The integration drives Schellenberg roller shutters through a USB radio stick.
It is single-threaded asyncio: nothing runs in parallel, but every `await`, timer,
dispatcher signal and serial callback is a point where something else may run
first. An action of a model is therefore what the code does between two such
points, and a coroutine with an `await` in the middle is several actions with a
program counter.

## 1. Inventory

| Component | State | Operations | Correct when | Modelled |
|---|---|---|---|---|
| Serial connection (`api.py`, `connect`, `disconnect`, `connection_lost`, `_schedule_reconnect`, `_heartbeat`) | `_transport`, `_is_connected`, `_is_connecting`, `_closed`, `_reconnect_handle`, `_reconnect_attempts`, `_verify_future`, `_device_id_future`, heartbeat and retry tasks | connect with four suspension points, loss, teardown, probe, reconnect timer | one attempt, one timer, one pair of workers; no attempt after teardown; a loss or a frozen stick is recovered from; a wait always ends | `StickConnection`, `StickLink`, `PortLink` |
| Command sending (`send_command`, t0/t1/tE in `_handle_message`, `_retry_worker`) | `_in_flight_command`, `_retry_queue` | send, answer, requeue, drain on loss | no command replayed after a loss or after it was accepted; none disappears; order kept | `CommandQueue`, `CommandDelivery` |
| Remote registry (`register_remote`, `unregister_remote`, `bound_motor_for`) | `_remote_to_motor`, `_remote_ref_counts`, `_registered_devices` | registration by a cover and an event entity per motor | a channel is routed exactly while some entity holds it, and a remote is known exactly as long | `RemoteRegistry` |
| Inbound frames (`_handle_message`, branch `ss`) | `_remote_dedup`, `_last_capture_key`, `_pairing_future`, `_learn_raw_future` | gates 1 to 3, dispatch, capture | each press heard once and none swallowed; a known remote never paired as a motor; one press never confirms itself | `RemoteRouting` |
| Cover entity (`cover_entity.py`, `cover_position.py`) | position, opening/closing, start of the move, `_target_position`, `_position_update_task` | open, close, stop, set position, frames, remote presses, tracking loop, restore | one loop per move; position equals the shutter's when at rest; commands end where they lead | `CoverTracking`, `CoverPromise` |
| Timed calibration (`options_flow_timed_calibration.py`) | start times of the two runs, step of the dialog | drive, submit, reject, redo, save | a rejected run can be repeated; what is saved is what was measured | `Calibration` |
| Event calibration (`options_flow_calibration.py`) | movement listeners and futures | start and stop frames, timeout, save | the run that is timed is the one the form asked for | `Calibration` |
| Pairing, delegation, manual add (`pair_device_and_wait`, `delegation_pair`, `initialize_next_device_enum`, `config_flow.py`) | `_pairing_future`, enums in use | choose an enum, wait, time out, send, create a subentry | two motors never share an enum; every pairing ends | `MotorEnrolment`; Gate 1 also in `RemoteRouting` |
| Bind dialogs (`config_flow.py`) | captured channel, subentry data | two captures, policy, migrate, apply, remove | the policy still holds when the binding is written | captures in `RemoteRouting`, what they may write in `RemoteRegistry`; the forms are not |
| Entry life (`__init__.py`, `cover.py`) | `hass.data`, `_SETUP_CALLBACKS` | setup, update listener, reload, unload, restart | a reload comes to rest and each subentry then has its cover | `EntryLifecycle` |
| Calibration store (`cover_calibration.py`, `cover.py`) | file and cache | load, save, merge | no cover works with times older than its last calibration | `EntryLifecycle`, `Calibration` |
| Remote event entity (`event_entity.py`, `event.py`) | none of its own | registers, fires | as the registry and routing | registration in `RemoteRegistry`, signal in `RemoteRouting` |
| LED switch (`switch.py`) | one boolean | on, off, restore | re-applied when the stick returns | not modelled |
| Sensors, hub flow, options flow, repairs | none | views and forms | | not modelled |

How they interact: entities call `send_command` and the registry directly; the
api signals entities through the dispatcher (`SIGNAL_STICK_STATUS_UPDATED`,
`SIGNAL_DEVICE_EVENT`, `SIGNAL_REMOTE_EVENT`); dialogs wait on futures that
`_handle_message` resolves; a changed subentry reloads the whole entry, which
makes a new api and new entities.

What is hard: the reconnect logic is reached from three places and guarded by
flags that are cleared in a `finally`; the stick answers without saying which
command it answers; the radio repeats every press up to nine times; two entities
share one registration; the cover must know where the shutter is although a
timed motor never says; and a dialog holds what it chose (an enum, a future, a
start time) for minutes in which the entry may be torn down and built again. `PROJECT.json` lists each hazard at its line.

## 2. Modules

    StickLink  <--implements--  StickConnection         RemoteRegistry
                                     | implements             |  EXTENDS
                                     v                        v
                                 PortLink               RemoteRouting
                                     ^                        |  (one press)
                                     | assumed by             v
    CommandDelivery <--implements-- CommandQueue        CoverTracking
                                                              | implements
    EntryLifecycle  --EXTENDS-->  MotorEnrolment              v
      (EntrySpec)   --EXTENDS-->  Calibration           CoverPromise

`MC<module>` extends a module with what only TLC needs: the values of constants and,
where a document and the code disagree, the document's claim. `<module>Proofs` extends
it with theorems. `PROJECT.json` maps every definition to its lines.

**StickConnection.** `pc[t]` is where coroutine `t` of `connect()` is suspended
(`opening` in `create_serial_connection`, `verifying` in `verify_device`, `settling` in
the sleep, `asking` in `get_device_id`). `losses` counts `connection_lost` callbacks
asyncio has queued, `timers` the live reconnect timers and `handle` says whether
`_reconnect_handle` is one of them, so that a timer the api forgot would show.
`orphans` counts heartbeat and retry tasks that no attribute refers to. The heartbeat
is `heart` and its missed answers `miss`; `heard`/`said` are the traffic inside the
skip window. The stick (`Unplug`, `Freeze`, `Thaw`, its answers) is external. A
cancelled heartbeat is taken to end in the step that cancels it: its only code after
the cancellation is a log line and its `finally`.

**StickLink** is what an entity may rely on: the link is idle, being tried, or up; it
comes up only out of a try, and once torn down never leaves idle for a new try.
`StickConnection!Link` is the refinement mapping.

**PortLink** is where the connection and the retry queue meet: a port that is down, open under a
running `connect()`, or up. `StickConnection!Serial` maps the transport and `_is_connecting` to it, and
`CommandQueue!Serial` is the queue's `link` itself. Run `stick` checks both refinements as `LinkSpec`.

**CommandQueue.** `inflight` is the single slot, `queue` the retry queue, `held` the command
the worker took out and sleeps with, `wire` the frames the stick has not answered.
`fate` is a history variable: what has become of each command. `HalfDuplex` says
whether commands are written while one is unanswered. A loss empties the slot's
meaning as in `connection_lost` and `_stop_retry_worker`.

**CommandDelivery** is what that amounts to with a half-duplex stick: one frame on the air, a backlog resent oldest
first, and a fate for each command. "Busy" names its frame there: no slot has to remember it.
`Backlog` maps the queue and the command in the worker's hand to it.

**RemoteRegistry.** The three dicts, and `live`, the entities now added. `Stored` is the set of
possible bindings; the model begins with any of them.

**RemoteRouting** extends it with the air. A press is a burst `[sender, cmd, counter]`, and its frames
arrive while it is in the air, interleaved with those of another. `FramePairs`,
`FrameSuppressed`, `FrameRouted` and `FrameForwarded` are the exits of the branch in
the code's order. `dedup` is the set of keys inside their window; a key leaves when
its quiet-period timer fires. `Hold` lets that happen while the button is still
down. `heard` and `frames` are history. The dedup cache is not cleared by a loss here:
`connection_lost` clears it, but a reconnect takes longer than the window.

**CoverTracking.** The entity, and the motor it cannot see (`mpos`, `mdir`). `Tick` is one sleep
of the tracking loop, in which a motor moves one unit if the travel time is
calibrated and zero to two if not. `loop[t]` is the life of each loop task: a
cancelled loop is `dying` until its `finally` has run. `shown` is the last state
written, which is what a restart restores. `slack` is a history variable that bounds
the distance between Home Assistant's position and the shutter's (`Lost` once
something was lost: a press nobody heard, a stop dropped for want of a port, a restart
in mid-move, an unknown travel time), and `goal` is where the last undisturbed command leads. With
`Overlap = FALSE` nobody uses a switch or a remote during a set-position move, and
set-position is not called while a frame is under way.
`send_command` does not suspend, so a service and its command are one step.

**CoverPromise** is what Home Assistant may rely on: a move counts one interval at a time in its direction, never past
its target, and ends at the target, at the end stop or where it was stopped. It has no loops, frames or motor.
`Steady` is false only between a calibration that ends in mid-move and the count that follows it: there the position
may jump, as it does in the code.

**EntryLifecycle** is the entry that the dialogs act on, and has no run of its own. `EntrySpec` is the entry beside any
dialogs: its own actions, and what a dialog may do to it (create a subentry, write times). Both dialog modules implement it. Setup and unload
are coroutines, and `phase` is where the one that runs is suspended: between unloading
the platforms and disconnecting the api, between that and the new api, in the forwarding of
the platforms, while covers are added one by one. `again` is an `async_reload` that waits
for its turn, as Home Assistant runs one setup or unload at a time. `known` is the dict of known
subentries that unload pops, so that the update listener, which nothing removes before the next
setup, may raise `KeyError`: the reload under way then sees the change anyway. A device's
id is its subentry's unique id: the hardware id if it was paired, its enum otherwise (`Slot`).
`cache` and `disk` are the store in memory and on file. `slipped` is history: the
devices that the last setup overlooked.

**MotorEnrolment** adds the three dialogs of `SchellenbergPairingSubentryFlow` that make a
subentry. `dialog[d]` is the step with the `_pending_*` attributes, `pairing` the dialog whose wait
`_pairing_future` belongs to. What ends the wait is an `ss` frame of a motor that has no entity
(Gate 1) or an `sl` frame of any motor (`Answers`). `here` says that this future is one of the current api: a
reload makes a new api and leaves the old future to its dialog. The dialog's step after an answer and
its `finally` are one action (`Resume`) that any other may precede. `raced` is
history: the devices whose enum was chosen while another dialog held it or while its cover was not
registered (`Races`). The handshake frames of `delegation_pair` are written without
suspension, so its two `is_connected` checks see one state (`DelegationPairs`).

**Calibration** adds the timed and the event-driven dialog to the same entry. `cal[d]` is the
handler's state: whether a start time is set (and whether the drive beside it was written to the port or
dropped), what each recorded time measures (from a `drive`, from a `drop`, or `junk` if no start time was set), and the number
of the pair that is being saved. `DriveFate` is `send_command` as the timed dialog meets it: it starts its clock, calls
`control_blind` and never asks what became of the command, which is dropped without a word when the port is closed. Here `LinkLost`
is the closing of the port, merged with the `connection_lost` that follows it; a link that is down may have its port open,
under a running `connect()`, so that a drive may then be written or dropped. What the stick answers to a drive that was written is
`CommandQueue`'s. `mot[m]` is what a motor
that reports does, moved by its user at any time. Between the start of a move and the subscription for its stop the event-driven
dialog listens to nothing (`open_heard`, `close_heard`, ended by `SubscribeStop`), as in the code between
`options_flow_calibration.py:416` and `:462`. An elapsed time is one of too short, within
the limits, too long. Times are named by the number of the calibration that
made them, so that older and newer compare. `_save_calibration` changes the cache, suspends in the write, and only then
signals (`Save`, `Saved`). `pairing` stands for a pairing dialog elsewhere that Gate 1
serves first (`ClosePairing` is its timeout or an `sl` answer); `obstructed` and `done` (the last
calibration completed) are history. A dialog is obstructed when the stop it waits for may have been lost (to a lost link, to a
pairing, or to the gap between its two waits: `MayMissStop`), or when a timed run began with the link down (`MissesDrive`). Two dialogs do not calibrate one device at a
time.

## 3. What is checked

| Run | States | Shows |
|---|---|---|
| `stick` | 6 thousand | the safety of the connection; that a loss outside `connect()` is retried, a frozen stick found and every `connect()` returns; refinement of `StickLink` and of `PortLink` |
| `queue` | 8 thousand | with a half-duplex stick: nothing replayed, nothing lost, order kept, what is queued is transmitted again; refinement of `CommandDelivery` |
| `registry` | 9 thousand | counts (`RefCountExact`), routes and known ids (`RegistryExact`) against the living entities, for every binding of two timed motors to two channels and the enum-less key |
| `routing` | 1.6 million (1 to 2 minutes) | each press heard once, stops not suppressed, strangers only are paired, one press is not two |
| `cover` | 128 thousand | one loop per move, `AtRestExact`, `GoalReached`, `MoveEnds`; refinement of `CoverPromise` |
| `enrolment` | 460 thousand (1 to 2 minutes) | two devices share an enum only through a window in which the choice was blind; each subentry gets its cover; every pairing ends; every reload comes to rest |
| `calibration` | 590 thousand (½ to 1 minute) | the time taken is that of the run asked for, but for dropped drives and lost stops; no cover falls behind its device's last calibration |
| `stick_open_failure`, `stick_loss_in_connect`, `queue_burst`, `routing_hold`, `cover_remote` | | a statement of the repository that the code does not keep; see section 6 |

The instances, and why they are large enough:

- `stick`: two `connect()` tasks, the fewest that could overlap; `MissThreshold = 2`, the fewest that
  tells one miss from the last; `AttemptCap = 2`, where the backoff saturates; one entity send.
  One more attempt repeats a state already seen, as the counter is only read by the backoff.
- `queue`: three commands and a queue of two, so that it overflows while one is held by the worker.
- `registry`: two timed motors and a bidirectional one, one remote, two channels and the enum-less key:
  siblings, wildcards and a channel bound twice all occur.
- `routing`: two presses of two frames each: a repeat, an interleaving of two bursts, and a
  leftover frame. Longer bursts repeat the second frame's cases. One motor is bound to a channel and one to the whole
  remote, so that a channel changes hands as entities come and go.
- `cover`: positions 0 to 3, so that there are two partial targets; four outside steps in any order,
  which allow move, reversal, link loss, removal; two loop tasks, as a cancelled loop ends within one
  interval.

- `enrolment`: two dialogs, a motor that pairs and two enums, so that two devices can collide on one enum
  while another is free; four outside steps (a dialog begun, a loss, a reload, a restart, a removal, a
  cover disabled), enough for a dialog that spans a reload beside a second dialog.
- `calibration`: one enum and one motor, that is a timed device and an event-driven one, two dialogs
  (symmetric: no property here is temporal), two calibrations, four outside steps: a save can be cut by a
  restart and by a reload in any of its awaits, and a run by a loss, a pairing and a move of its motor. `Uptime` is `long`; see section 6.

Each property of a passing run has a mutant in `PROJECT.json`: a slip in one
definition (`X_Y` beside `X`) that makes TLC find the property violated. The
`X_Y` definitions are used nowhere else.

**Fairness.** What the event loop owes is fair: a coroutine whose wait is over, a timer that is due,
a queued callback, a cancelled task, a frame that has arrived. Waits that
the code bounds (`wait_for` with a timeout, `sleep`) end fairly, because their
timeout does; `create_serial_connection` returns or raises. The environment is not fair: nobody need press, unplug,
send, thaw or answer. In `enrolment` the
timeout and the resumption of each dialog's wait are fair, and so is each step of a setup or an unload, which
Home Assistant awaits; dialogs' users, motors, the radio and restarts are not. `calibration` has no liveness
property: its waits end by the timeouts of `CalTimeout`, and nothing makes a user
click. In `cover`, time passes (`Tick`) fairly. `MoveEnds` holds
because the outside steps are bounded: a person who presses for ever keeps a cover
moving for ever.

**Deadlock** is checked where it means something. It is switched off in `stick` (after
`disconnect()` everything rests), in `queue` (every command answered), in `routing` (every press over), and in `enrolment` and `calibration`, where
all dialogs may be closed and the entry set up.

## 4. What is proved

The proofs hold for every value of the constants that satisfies the named
assumptions of the modules. TLC evaluates those assumptions on the instances.

**StickConnectionProofs**, for any set of `connect()` tasks. The safety properties are not inductive as they stand.
`IInv` adds what makes them so. A coroutine that is created or in flight is the only one, with no
timer and no worker beside it (`Alone`), and `_is_connecting` is true exactly while one is in flight (`Flag`).
Until it has opened the port there is neither a transport nor a queued loss (`Fresh`): this is
what keeps an older `connection_lost` away from a newer transport. A future exists only while its waiter
does (`Waiters`); at most one loss is queued, and a closing transport has one (`Losses`); a live timer is the one in
`_reconnect_handle`, over a dead link (`Timer`); being connected needs a transport (`Port`); no worker is orphaned. From it follow
`TypeCorrect`, `StaleLossExcluded`, `SingleTimer`, `Exclusion`,
`ConnectedOverPort`, `WaitsNeverRefused`, the action property `TeardownFinal` and
the refinements `ImplementsStickLink` and `ImplementsPortLink` (together `ImplementsLink`). The second needs `Fresh` for the
opening (no port is open yet) and `Flag` for the end of `connect()`.
`StrandedOnlyThere` completes findings 1 and 2: before teardown the api comes to rest with neither link nor timer nor attempt (`Stranded`) only by an
open that failed or at the end of a `connect()` whose port was lost meanwhile; every other loss, a frozen stick included, leaves something
that will bring the link back; and once stranded it stays so until teardown.

**CommandQueueProofs**, for any set of commands and any cap. One invariant
for either duplex gives `QueueTypeCorrect`, `NoReplay` and the action property
`QueuedKeepPlace`; a second, on top of it and only with
`HalfDuplex`, says that the slot names the one unanswered frame, and gives `NothingLostHalfDuplex`,
`AcceptedOnce` and the refinement `ImplementsDelivery`, step by step: a tE and its requeue are `Busy` of the very frame on the
air, `WorkerGet` is a stutter (the command moves from the queue to the hand, and the backlog stays), `WorkerSend` is `Resend`.
`QueueAssumesPort` proves that all the queue does to the link is a step of `PortLink`, so that it assumes nothing of the
connection that `ImplementsPortLink` does not provide.

**RemoteRegistryProofs**, for any finite sets of motors, remotes and channels and any set of bindings. The invariant
is that counts are the cardinalities of the holders; a lemma says what one entity
more or less does to that cardinality. It gives `CountsHolders`, `RoutesHolders`,
`KnowsRouted`, the last two together as `RegistryStaysExact`, and `ChannelBeatsWildcard`.

**RemoteRoutingProofs**, for any bindings, any channels and any number of presses and frames. On top of the
registry's invariant: a move's counter is its own and what is off the air is not counted
(`AirOK`); the key of a move is in the dedup cache only after a frame of it and, without `Hold`, for as long as a
press that was heard is on the air (`DedupOK`); the press a capture took is the one `lastKey` names for as
long as it lasts (`CaptureOK`). From it follow all five properties of run `routing`, the action properties
included: `RoutingTypes`, `PressHeardOnce`, `PressAlwaysHeard`, `PairingSparesRemotes`, `SecondPressIsAnother`.
`RoutingKeepsRegistry` proves that the composition leaves the registry's own steps alone (`Spec => RegistrySpec`), so that the
registry's theorems hold of it: `RoutedByExactRegistry`.

**CoverTrackingProofs**, for any number of positions, loops and steps, with `Overlap` or without: typing and `OneLoop`, which
is inductive with it. A step that starts a loop cancels the one `handle` names, which by the invariant is the only
one alive. With `Overlap = FALSE`, and still for any positions, loops and steps, also the two properties about the
shutter, neither of which is inductive. `ShownIsWhereItIs` (`AtRestExact`) rests on `Follows`: while a bound is known, the
computed position is within it and the stored one within one interval more (`Near`); the motor goes the way the entity
goes, or the last frame under way says otherwise (`Motor`); a set-position has its target ahead until the loop has counted
to it (`Path`); what was written last is what a restart restores (`Record`). `CommandsArrive` (`GoalReached`) rests on `Led`: motor,
entity and, between a removal and a restart, the recorded state lead to one goal, and only a timed motor on its way to an end stop may
have lost the bound. That a frame cannot count an interval twice needs that time passes only when no frame is under way.
`ImplementsPromise` (with `Overlap = FALSE`) proves the refinement of `CoverPromise`. It cannot use `Path`, which says
something only while a bound is known; `PInv` says the same of the entity alone, whatever happened to the shutter: an entity that is removed
does not move (`Away`), only a motor that reports has frames under way (`Reports`), and a target lies ahead of the position and of the count until the loop has
reached it (`Course`). `MoveEndsInTime` (either `Overlap`) is the safety half of `MoveEnds`: each interval wakes the loop of the move, and after
`Top` intervals its wake ends the move. What remains to the model checker is that time and the loop go on.

**EntryLifecycleProofs**, for any motors, enums and dialogs: each step of the entry, and each step `EntrySpec` allows a dialog, keeps `EntryInv`. It says, beside the types, that
covers and planned covers belong to subentries (`CoversOK`), that covers are planned only while platforms are set up
(`PlannedOK`), that an unloaded entry has no link (`ClosedOK`), that a loaded entry listens and knows its subentries
(`KnownOK`: what makes the listener notice every later change), and that during a setup each subentry is planned, added,
disabled, overlooked or followed by a reload (`AddingOK`, which becomes `EntitiesComplete` when the setup is done). Hence `EntryStaysComplete`, for any dialogs at all.

**MotorEnrolmentProofs**, for any motors, enums and dialogs. `IInv` adds what a dialog holds at each step (`ShapeOK`)
and `Apart`: a device and a dialog (`HeldOK`), two dialogs (`HeldApart`) and two devices (`EnumsApart`) have different
enums unless one of the two is recorded as a race. It gives `EnrolmentTypes`, `EnumsStayApart` and `EntitiesStayComplete`.
`EnrolmentIsEntry` is the refinement of `EntrySpec`.

**CalibrationProofs**, for any motors, enums, dialogs and any number of calibrations. `RunOK`: while a dialog is between
a start and its stop unobstructed, the link is up, no pairing can take its motor's frame, and the motor goes the way the form asked
for. `DriveOK`: no start and no recorded time of an unobstructed timed run is that of a dropped drive, with a long uptime no recorded time
is junk, and outside a timed run there is none. `Kept`: no two dialogs have one device (`DistinctOK`); what is
being saved is in the cache already (`SavingOK`); neither cache nor file is behind `done` (`StoreOK`); covers are built
only after the old ones are gone (`EmptyOK`), and have times no older than `done` (`TimesOK`). It gives
`CalibrationTypes`, `RunsStayOwn` and `CalibrationStaysKept`. `CalibrationIsEntry` is the refinement of `EntrySpec`, and with
`EntryStaysComplete` it gives `CalibrationStaysComplete`, which no run checks.

**Only model-checked.** All liveness, and nothing else (`LossRetried`, `FrozenDetected`, `ConnectReturns`, `RetryHappens`, `MoveEnds`, `PairingEnds`, `EntrySettles`), which needs fairness and
`ENABLED`, out of the prover's reach. Every safety property, action property and refinement of a passing run is also a theorem, some under the condition their run has (`HalfDuplex`,
`Overlap = FALSE`, and the like).

## 5. What is not modelled

- `learn_remote_and_wait`, `register_existing_devices` and `remove_known_device`: nothing in the package calls them.
  `ignore_unknown` only changes a log level.
- `disconnect()` during `create_serial_connection` leaves a port open that nobody closes;
  `StickConnection` has that behaviour and no property speaks of it.
- A `connect()` that goes on after a loss in `get_device_id` starts a retry worker over a dead
  link. `StickConnection` has the workers; `CommandQueue` starts its worker only on a live link.
- A frozen stick is handled twice, by the heartbeat and then by `connection_lost`, which counts two
  attempts and so doubles one backoff. Delays are not modelled, only their order.
- A new tE retries the command later than `CoverTracking` assumes; the motor there obeys at once.
- The drives of a timed calibration, in `CoverTracking`: they go through `control_blind` past the cover entity, which counts nothing
  while the shutter moves. So they belong to the causes of drift that `AtRestExact` does not speak of, with those that `slack = Lost` records
  (a press nobody heard, a stop dropped for want of a port, a restart in mid-move, an unknown travel time). The
  cover takes its position anew when the calibration is saved.
- `sl` frames in `RemoteRouting`: they answer a pairing whatever device they name (`api.py:439-466`), bound remote or not.
  `PairingTakesStranger` is about Gate 1; `MotorEnrolment` has both answers.
- The check of the binding policy (`config_flow.py:1034`) and the bind it allows are no step of a model. `RemoteRegistry` begins
  with what another dialog may bind meanwhile, two motors on one channel included.
- The stick's side of a pairing: what a second `sp` does to its pairing mode, and whether a motor has taken the
  handshake of `delegation_pair`. A loss in the middle of the handshake cannot be seen by the code, which does not suspend there.
- The forms of the bind dialogs between capture and write, the LED switch, the sensors, the hub's own
  flow, the options flow with its legacy pairing handler, and the Repairs flow: forms, views, and one boolean.
- Two dialogs that calibrate one device at the same time.
- Wording, logging, icons, attributes, the Repairs issue and layout of frames.

## 6. Findings

Each is a run with `expect: violation` and is quoted in full in `PROJECT.json`.

1. `stick_open_failure`: a port that cannot be opened is not retried. The except branch of `connect()` calls
   `_schedule_reconnect()` while `_is_connecting` is still true, and the helper returns.
2. `stick_loss_in_connect`: for the same reason a loss while `connect()` is suspended is not retried.
   `LossRetried` states what does hold: a loss while no attempt is under way is followed by one.
3. `queue_burst`: two commands written before the first is answered share one slot, and a busy answer
   loses one or blames the other. With a half-duplex stick neither happens.
4. `routing_hold`: a button held for longer than the dedup window confirms its own first capture.
5. `cover_remote`: an up or down press during a set-position move keeps the old target, and the loop stops the motor there.

Known limits that no run with `expect: violation` shows, because no document promises the
contrary outright; the properties are stated so that they hold and name the exception:

- A rejected timed run shows its form again without a start time. What is submitted then is measured
  from 0.0 (`options_flow_timed_calibration.py:143`): on a machine that has been up for longer than the limit every further try is rejected
  although the form says "try again" (`strings.json:203`), and one that has just booted takes its uptime for a run. `OwnRuns` covers the
  first case (`Uptime = "long"`).
- The timed dialog does not know whether its drive was sent. With the port closed, `send_command` drops the command
  (`api.py:718-720`), the clock runs (`options_flow_timed_calibration.py:116-117`, `:189-190`), and the time between the two clicks can be confirmed
  and saved although nothing moved. `OwnRuns` excepts a run that began with the link down.
- The event-driven dialog does not listen between the start of a move and its subscription for the stop
  (`options_flow_calibration.py:416` to `:462`). A stop in that gap is lost, and the dialog waits beside a motor at rest, until its timeout or the
  stop of a later move. `OwnRuns` excepts this, and the stops that a lost link or a pairing (`api.py:511`) takes.
- An enum is reserved only when its entity is added. Two dialogs may hold one enum, and a disabled
  cover's enum counts as free. `EnumsApart` excepts `raced`.
- The times of a device are never deleted from the store, so that a device added at the enum of a
  deleted one starts with its times (`cover.py:97`). `CalibrationKept` speaks of times that are too old, not of these.
- A subentry added between the platforms' setup and `__init__.py:239` has no cover until the next reload.
  `EntitiesComplete` excepts `slipped`.
- A calibration saved while a setup is adding its cover is not heard by it. `CalibrationKept` excepts `slipped`.
- The `finally` of a pairing clears whichever future is there (`api.py:875`). The other dialog's wait then
  ends by its timeout only; `PairingEnds` says that it does.

## 7. Plan

Done, in this order: StickConnection with StickLink, CommandQueue, RemoteRegistry,
RemoteRouting, CoverTracking, EntryLifecycle with MotorEnrolment and Calibration, proofs about each of them, and the abstract
specifications CommandDelivery, PortLink, CoverPromise and EntrySpec with proofs that they are implemented.

What would come next, with the most valuable first:

1. `RemoteBindFlow`: the binding policy between the first press and the write, over `EntryLifecycle`.
2. The safety half of the other liveness properties, as `MoveEndsInTime` is that of `MoveEnds`: a measure that each fair step of a pairing, of a
   setup or of the retry worker lowers.
3. `LedSwitch`, if it earns a run.
