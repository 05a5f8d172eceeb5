# Onesti Lock: models and proofs

TLA+ models of the Home Assistant integration in this repository
(`custom_components/onesti_lock`), of its Bluetooth library and command line tool,
and of the script that publishes its releases; TLC runs that check them on small instances,
and proofs of the most important properties for every instance.

Contents

1. The system: components, state, operations, interactions
2. What is hard about it
3. The modules, and how they correspond to the code
4. The runs
5. Bounds, fairness and symmetry
6. The proofs
7. What is not modelled, and the plan

Paths below are relative to `custom_components/onesti_lock/` unless they start
with `scripts/`, `docs/` or `.github/`.

## 1. The system

An Onesti/Nimly door lock is a Zigbee device that Home Assistant reaches through
ZHA. The integration keeps, next to ZHA, what the lock cannot tell: which slot
carries which name and whether a PIN was written to it. A second, independent
half speaks the lock's Bluetooth protocol (a library with a command line tool,
and a discovery hook in the integration).

| Component | State it keeps | Operations | Correct when |
| --- | --- | --- | --- |
| **Slot store and PIN operations** (`coordinator.py`, `pin_rules.py`) | `_slots`, a copy of `entry.options["slots"]`; `_pin_lock`; availability flags; the last lock event | `set_pin`, `clear_pin`, `clear_slot`, `set_slot_name`, `async_refresh_capabilities`, `adopt_stored_slots`, `set_available` | no save loses another save; the slot tells whether the lock holds a code; slot 0 is never written |
| **ZHA transport** (`zha.py`) | `_last_wake` | `send` (one retry after a wake), `wake`, `read_capabilities`, lookups in ZHA's objects | every send ends, and says honestly whether the lock took the command |
| **Service calls** (`services.py`) | none | five services, each looking up its coordinator at the call | the call reaches the lock it names; errors reach the caller |
| **Config and discovery flows** (`config_flow.py`, the watch in `__init__.py`) | the flows in progress, the entries, the addresses on a device | user, reconfigure, integration discovery, its card and Ignore; look for undiscovered locks | no two entries for one lock; no flow takes an entry away; a device carries no other lock's address |
| **Options flow** (`config_flow.py`) | the form's pending write task, its result | set / clear PIN with progress, name, view, settings | a write survives the dialog; one write for each form sent in |
| **Entry lifecycle and ZHA watch** (`__init__.py`) | `entry.runtime_data`, the event listener, the ZHA watches, the options listener | migrate, set up, unload, reload on ZHA's or the options' change | a listener per loaded entry, on ZHA's current objects; the store survives a reload |
| **Lock event listener and sensors** (`events.py`, `sensor.py`, `entity.py`) | last activity, battery, per-slot sensors | decode an operation event, drop wake echoes, fire `onesti_lock_activity` | an echo of our own wake is not shown as a person at the door |
| **BLE discovery** (`bluetooth.py`) | the addresses seen | match an advertisement with a known lock | one discovery flow per lock |
| **BLE session** (`ble/client/session.py`, `transport.py`, `bleak_transport.py`) | `_state`, link cipher, `_command_lock`, `_pending`, `_ready_at`, the CommandRef counter, the reassembly buffer | `connect`, `send`, `close`, notification and disconnect callbacks | a command is completed by its own answer, and always completes |
| **BLE packets** (`ble/protocol/packet.py`, `blob.py`, `command.py`, `response.py`, `features.py`, `streams.py`) | reassembly buffer | split a blob in frames and back; feature bits | receiving what was split returns what was sent |
| **BLE enrollment** (`ble/client/enrollment.py`, `auth.py`) | the enrollment progress a caller stores | `enroll`, `resume` | an owner key that the lock accepted is never lost |
| **BLE encoders, crypto** (`ble/protocol/commands.py`, `responses.py`, `ble/crypto.py`, ...) | none | field layouts; AES, ECDH | byte-level, covered by tests |
| **BLE command line tool** (`scripts/ble_cli.py`) | the state files, the failed-login counter | enroll, resume, log in, scan, commands | no key is lost; a file claims nothing the lock has not done |
| **Release publishing** (`scripts/release_publish.py`, `.github/workflows/release.yml`) | tags, releases and attestations on GitHub | plan, build, attest, publish, prove what is out | what is public is whole and of one commit; a run that stopped can be resumed |
| **Diagnostics, redaction, localisation, notes, images, blueprints, shell** | none | formatting | — |

Interactions. A service call or the options flow calls a coordinator method; the
coordinator takes `_pin_lock` and awaits `ZhaLockTransport.send`, which awaits
zigpy, which awaits the lock. The answer comes back the same way, and the
coordinator saves the slots into the entry's options with
`async_update_entry`. Changing the options fires the update listener, which may
reload the entry: the old coordinator is dropped from `runtime_data`, a new one is
built from the options, and a write that was under way continues on the dropped
one and finally saves through it. Zigbee reports reach the coordinator through the
event listener. The BLE session is called by one owner per connection; bleak calls
it back with notifications and disconnects; every notification goes through the packet
stream first. The command line tool opens a session, logs in through the enrollment
library and keeps its keys in one file per lock. Config flows are started by the user
or by the watch on ZHA, and end in an entry that Home Assistant sets up. The release
script runs in a workflow and shares nothing with the rest.

## 2. What is hard about it

Everything runs on one event loop, so a step is what happens between two
suspensions. The difficulties are:

* **Suspensions in the middle of a write.** `set_pin` waits for `_pin_lock`, for the
  radio (seconds), for a wake and again for the radio. In the meantime other writes,
  renames, settings and reloads change what it read before.
* **Two coordinators for one lock.** After a reload a write still runs on the old
  one, with its own `_slots` and its own `_pin_lock`.
* **An unreliable radio.** A command can be executed and only its answer lost; a
  command given up on can still be executed later; some answers carry no readable
  status. The retry then meets a lock that already did what it asks.
* **Cancellation.** A service call is stopped with its script at any suspension; a
  dialog's write is shielded and is not.
* **Crash and restart.** Home Assistant stops between the lock's execution and the
  save.
* **BLE answers that look alike.** Under old firmware every answer carries the same
  ref, so a late answer can be taken for the next command's.
* **Link loss at any suspension of the session**, `connect()` included, and lost
  notifications in the middle of a payload.
* **A key that exists once.** From the lock's answer to `UserAuthUpdate` on, the process
  holds the only key; it can be stopped, its disk can be full, and a second terminal can
  write the same file.
* **Flows that were opened earlier.** A form shows the locks of a while ago, a card is
  pressed days later, and an entry can take an address another flow is about to use.
* **A release that stopped half way.** Each call to GitHub can write and lose its answer,
  and the next run starts on the same commit or on another, after somebody has tidied up.

`PROJECT.json` lists the hazards behind these with their lines and the properties that
would catch them going wrong.

## 3. The modules

| Module | Models | Kind |
| --- | --- | --- |
| `SlotRules` | the floor below which no slot is written, the slot record | shared definitions |
| `SlotStore` | what the options promise: one store, each write atomic and only in its part | abstract specification |
| `PinOps` | coordinator, `ZhaLockTransport.send`, their callers, the radio and the lock | specification |
| `MCPinOps` | the view TLC checks PinOps under | model checking |
| `PinOpsProofs` | typing, the master slot, the sensors' view, PinOps implements SlotStore; one write at a time, order of saves, the store agrees with the lock | proofs |
| `BleSession` | `Session`, the transport's callbacks, the lock's answers | specification |
| `BleSessionProofs` | typing, exclusive use of the session, nobody waits on a closed one, whose answer completes a command | proofs |
| `EntryLife` | setup, retry, reload and unload of the entry, the ZHA watch, availability, the options listener, next to ZHA | specification, checked as it is |
| `EntryLifeProofs` | typing, availability, the log, the listener, the rows | proofs |
| `LockActivity` | operation events decoded, the bus event, the activity sensor across reloads, the echo of our own wakes | specification |
| `MCLockActivity` | the frames, symmetry and view TLC checks LockActivity with | model checking |
| `LockActivityProofs` | decoding, echoes, whose activity is shown | proofs |
| `LockFlows` | config flows, discovery, the entries they make, the device's address; the options dialog with its spinner | specification |
| `MCLockFlows` | the symmetry TLC checks LockFlows under | model checking |
| `LockFlowsProofs` | one entry per lock, entries kept, addresses, one write per form | proofs |
| `BlePackets` | payloads cut into packets and put together again over a lossy link | specification, checked as it is |
| `BlePacketsProofs` | what `packetize` makes, order and loss on the air, whole or nothing, back in step | proofs |
| `BleEnroll` | enroll and resume, the logins, the tool's files, several terminals, the lock and the person | specification, checked as it is |
| `BleEnrollProofs` | the key is kept, the file is true, the device id is set once | proofs |
| `ReleasePromise` | what a release promises its users | abstract specification |
| `ReleasePublish` | the release script in its workflow, GitHub, people tidying up | specification |
| `MCReleasePublish` | commits, versions and digests TLC checks ReleasePublish with | model checking |
| `ReleaseProofs` | what is public hangs together; ReleasePublish implements ReleasePromise | proofs |

### PinOps

Variables and code:

| Variable | Code |
| --- | --- |
| `stored`, `reserved`, `caps` | `entry.options["slots"]`, `["reserved_slots"]`, `["capabilities"]` |
| `current`, `building`, `loads` | `entry.runtime_data`; the coordinator `async_setup_entry` has constructed but not yet put there; how many were built |
| `view[g]`, `pinLock[g]` | `_slots` and the holder of `_pin_lock` of coordinator g |
| `pc`, `request`, `on`, `attempt`, `outcome` | where one write is, what it is, whose method it runs in, which send it is in, how it ended |
| `radio`, `stray` | the command a write waits for; commands given up on that may still reach the lock |
| `codes`, `executed` | the lock: whose code it accepts, whose command it executed last (a history) |

Actions. `Ask` is the call of `set_pin`, `clear_pin` or `clear_slot` up to its
first suspension: `_check_writable`, then `_pin_lock`. `Acquire` is the lock handed
on. `Begin` enters `send`, which fails at once without a cluster. `AnswerArrives`,
`AnswerMissing`, `SendFails` are the ways `cluster.command` returns, and each is
the whole rest of the method: an answer re-reads the slots, changes one, saves,
lets the current coordinator adopt them and releases the lock, in one step because
nothing in that stretch suspends. `Woken` is the retry. `Cancel` is a stopped
script; `DialogOps` are behind `asyncio.shield` and cannot be cancelled.
`SetSlotName`, `SettingsStep` and `RefreshCapabilities` are the other writers of
the options. `Unload`, `Build`, `Publish` and `Restart` are the entry's life; the
wait for a translation file between constructing a coordinator and publishing it
exists when `StringsCached` is FALSE. `LockExecutes`, `LockRefuses`,
`StrayExecutes` are the lock.

Assumptions about what is outside: the radio delivers one lock's commands in the
order they were sent (a command that was given up on is executed before the next
one, or never), and the lock executes each at most once. They are zigpy's request
sequencing and APS duplicate rejection, not this repository's.

A PIN's digits, its validation, messages and logging are left out: no property
depends on them. That is why `codes` holds the write whose code it is.

### SlotStore

A slot write, a rename, a settings change and a stored capability, each atomic and
each changing only its own part. `PinOps` implements it with its own `stored`,
`reserved` and `caps` (the INSTANCE maps them by name): the property
`OptionsAreOneStore`. That the code works on copies, one per coordinator, and
writes the whole options dictionary back is what makes this worth checking: with
the re-read in `_load_slots` taken out, TLC finds a lost update across a reload.

### BleSession

| Variable | Code |
| --- | --- |
| `state`, `firmware`, `cipher`, `link` | `_state`, the firmware version's class, whether `_cipher` is set, the transport's link |
| `holder`, `hold` | who has `_command_lock`; why `_ready_at` is in the future (the delay between commands, or the grace after a timeout) |
| `nextRef`, `sent` | `CommandRefCounter._next`; the commands that got a ref (a history) |
| `pending`, `future`, `current` | `_pending`, its future's content, which command a task sent last |
| `pc`, `asked`, `outcome` | where a task is, what it exchanges, how its call ended |
| `toLock`, `answers` | commands and answers in the air |

Actions. `Connect`, `FirmwareRead`, `Subscribed`, `ConnectFails` are `connect()` up
to the key exchange, which is an ordinary exchange by the task `Connector`;
`ConnectGoesOn` is what `connect()` does after each of its answers. `Send`,
`Acquire`, `PauseOver`, `Written`, `WriteFails`, `TimeOut`, `Cancel`, `Answered`
and `Failed` are the suspension points of `_exchange`. `Notification`,
`Disconnect` and `Close` are `_on_notification`, `_on_disconnect` and `close`.
Events (they carry a ref of their own) and the feature gates are left out: they
touch none of this state; reassembly is in BlePackets. `overran`, a history variable, notes a
grace period that ended with messages still on their way: only after one may a late
answer be taken for the next command's.

### EntryLife

| Variable | Code |
| --- | --- |
| `zha`, `objects` | the state of ZHA's config entry; which Door Lock cluster its gateway holds for the lock (or that there is no gateway, no lock, or no usable cluster) |
| `entry`, `due` | the state of the lock's entry; reloads scheduled and not yet begun |
| `watch` | whether `_on_zha_state_change` is subscribed to ZHA's entry |
| `available`, `listened` | `_available` and `_listened_cluster` of the coordinator |
| `handlers[c]` | report handlers on cluster c: a listener is a subscription on an object, so one that is not taken off stays |
| `lossLogged`, `lastLine` | `_LOSS_LOGGED` holds the entry; the last line the log has about it (a history) |
| `issue` | the repair issue |
| `reserved`, `setupFloor` | the option; `setup_first_user_slot` |
| `rePaired`, `unheard` | histories: ZHA's objects changed, or the floor did, and no callback was there to hear it |

Actions. `Setup` and `RetryTimer` are `async_setup_entry` up to its first suspension
(`ConfigEntryNotReady`, or the coordinator's constructor), `FinishSetup` the rest of it:
watch, options listener, and `Listen` (`register_event_listener`). `Reload` takes Home
Assistant's setup lock and begins the unload, `FinishUnload` runs the `async_on_unload`
callbacks. `ZhaStarts` ... `ZhaDown`, `ZhaRemoved` are ZHA; each change of its entry's state calls
`Watched` in the same step, since Home Assistant runs those callbacks synchronously.
`GatewayUp` and `GatewayDown` come before the state they belong to, so a setup can see
one without the other. `SettingsStep` and `OtherSave` write the options and call
`_async_options_updated`; while the entry sets up nobody listens to them.

There is one ZHA entry, as Home Assistant allows. The migration of registry keys and of
the model is left out, and so is the capability read.

### LockActivity

| Variable | Code |
| --- | --- |
| `phase`, `sensor`, `loads` | the entry's setup and unload as far as events notice; whether `_activity_sensor` is set; which coordinator is the entry's |
| `shown`, `stored` | `OnestiActivitySensor._activity`; what the restore cache keeps of it |
| `fired` | the last `onesti_lock_activity` event |
| `wake`, `on`, `previous` | where a wake is, in which coordinator's transport, its local `previous_wake` |
| `lastWake[g]` | `_last_wake` of coordinator g's transport |
| `windows` | the wakes stamped less than `WAKE_ECHO_WINDOW_S` ago |
| `executed` | the lock commands the lock carried out |

`Decode` is `decode_operation_event` on the bitmap itself: `Slot` and `Byte` cut the fields out with
the widths the code uses, and `Bitmap` is what the lock puts together. `HandleReport` is the
whole of `_handle_report` for such an event, with `is_system_lock`, the sensor and the bus.
`BeginWake`, `CallReturns`, `Settled`, `CancelWake` and `WakeFails` are `wake()` between its
suspensions: the stamp goes on before the service call, and the `except` puts the previous
one back. A cancelled wake raises `CancelledError`, which that `except` does not catch, so
its stamp stays. Whether the lock carries the command out (`LockLocks`) is free of all that, and
once it has, it may report it any number of times (`Echo`). `RemoveSensor`, `StopListening`,
`Load`, `AddSensor` and `StartListening` are a reload in the order Home Assistant does it: the
entities go first and the listener after them.

What else stamps and sends is in PinOps; which wake belongs to which write is not needed here.
An entry that is set up without a listener, since ZHA is down, stays "setting_up": it hears nothing either way,
and its life is in EntryLife. Names, timestamps and the wording of the sensor are left out.

### LockFlows

| Variable | Code |
| --- | --- |
| `zha`, `zhaUp` | the locks `iter_onesti_locks` finds; `is_zha_loaded` |
| `entries` | the config entries with their unique ids, those of ignored locks included |
| `flows` | config flows in progress: the kind, the unique id it has set, the locks its form shows, the entry it reconfigures |
| `watching`, `asked` | `async_setup` has run; discovery flows created and not yet run |
| `viaId` | `HAS_VIA_DEVICE_ID`: Home Assistant is 2026.9 or newer |
| `loaded`, `rows` | entries that are set up; the Zigbee connections of an entry's device |
| `merged` | entries whose device row is ZHA's too (`device.config_entries` is not the entry alone) |
| `dialog`, `step`, `input` | the options dialog, the step Home Assistant runs next, whether a submitted form is attached to it |
| `task`, `error` | `_set_pin_task` or `_clear_pin_task`, `_set_pin_error` or `_clear_pin_error` |
| `submits`, `writes` | histories of the open dialog |

Actions. `UserStep`, `UserSubmit`, `ReconfigureStep`, `ReconfigureSubmit`, `DiscoveryStep` and `CardPressed`
are the flow steps, each with its aborts and its `device_gone` form. `Takes` is `_clear_the_way_for`
and `_drop_replaced_address` with the entry's new address, in the order of the code; nothing in it suspends
(an ignored entry is not loaded, so removing it waits for nothing). `Creates` is what Home Assistant does when a flow
creates an entry: it replaces one of the same unique id and ends the other flows of that id.
`BuildDeviceInfo` is what `SetUp` hands the device registry: the lock's address from Home Assistant 2026.9 on and no
connection before (`entity.py:61`; hacs.json supports 2025.6). `DropReplaced` leaves a row in `merged` alone
(`config_flow.py:240`). Through 2026.8 this code gives a device no address and so shares no row, but the code says what an
earlier install may have left, and the model starts from it: `Init` has no entry, or the entry of an
earlier install whose device carries its lock's address or none, and on the older releases may be folded into ZHA's
(`EarlierEntry`). `docs/user-guide.md:7` says of the older releases that the two are one device; that is the merged row,
not what `build_device_info` makes there.
`ZhaDevices` and `ZhaState` are the watch. `SetPinForm`, `SetPinProgress`, `SetPinDone` and their
`Clear` counterparts are the dialog's steps; a write may end within the submit, while the spinner is up, or
between two looks at it. The user interface is free: any form at any time, closed at any time, several at once.

Left out: addresses are compared exactly (the code lower-cases them), a PIN that breaks the rules (the form again, nothing
changed), the steps that name a slot, show the slots and change the settings (in PinOps), the link to ZHA's device
(`via_device_id`), an upgrade of Home Assistant with what 2026.9 makes of a merged row, and ZHA deleting one.

### BlePackets

| Variable | Code |
| --- | --- |
| `blob`, `lastSeq` | `PacketStream._blob` with its `BlobAssembler`, `_last_sequence` |
| `delivered` | the payloads handed to the session |
| `air` | notifications on their way |
| `sent`, `hurt`, `headless`, `first` | histories: what the lock sent, which payloads lost something, which lost their first packet, which came first on their connection |

`Packetize` is `packetize`, for room and header sizes that are constants. `Receive` is one call of
`PacketStream.receive` with the branch the packet takes; `Refused` is every other packet, and resets the stream.
Bytes carry the payload and the position they come from, so a payload put together from two shows. The
lock is taken to cut its payloads as `packetize` does; the app it was written for does. The cipher is left out: a
payload goes through it once and whole, after this.

### BleEnroll

| Variable | Code |
| --- | --- |
| `file`, `recorded` | the state files of `StateStore`; the lines of `failed-logins.jsonl` that count |
| `pc`, `cmd`, `target` | where a run of the tool is, its command, the address on its command line |
| `key`, `mem`, `out` | the enrollment it works on, as it knows it, and the step whose command is out |
| `taken`, `lost` | whether the lock carried that out; keys the lock took and nobody could save (histories) |
| `owner`, `applied`, `strict`, `at`, `link` | the lock: whose key it takes, the steps it has carried out, whether it checks device ids, its address, its connection |

`Ask...` is a command up to its first suspension, `Open` the connection, `LoginTaken` ... `SecondLoginRefused` are
`authenticate_owner` in `enroll`, `resume_enrollment` and `log_in`, with what each does next. `StepAnswered` is an
answer and, in the same step, the save and the next command: `_save` and `_run_step` have no suspension
between them. `StepFails` covers a refusal and a missing answer. `Stops` is Ctrl-C, a crash or the
command's end, at any suspension; `write_private_json` replaces the file in one step, so a crash leaves
the old or the new one. `ScanFinds` saves what the scan read when it began.

Left out: copies of a state file outside the state directory, commands after a login (they touch none of
this state), names and keys as bytes. An address heard during a scan counts when the scan ends.

### ReleasePublish and ReleasePromise

| Variable | Code |
| --- | --- |
| `main`, `tag`, `releases`, `latest`, `attested` | GitHub: the default branch, the version tags, drafts and releases with target, page and ZIP, `releases/latest`, the attestations |
| `pc`, `sha`, `trial` | where a run is; `github.sha`; `inputs.trial_release` |
| `rel`, `makeLatest` | the release `find_release` gave and `should_be_latest`, both read before the first write |
| `hands`, `red` | how often a person stepped in (a bound); versions that failed their proof (a history) |

`Plan` is the workflow's first three steps, `Find` is `publish` up to its first write, `EnsureTag`, `EnsureDraft`,
`EnsureAsset` and `Publish` are its writes; each may be the last thing the run does, with its effect or without
(`Stops`). An upload can arrive cut off. `ProvesPublished` is the path of a version that is out, `Broken` what
`check_published` blocks on. A dry run writes nothing and is a run that stops.

People move main, make a draft in the browser at any time, and delete or move tags, drafts and ZIPs of what is not out,
between runs. Nobody edits the text of a draft in the model: a body that is no commit's is `ByHand`, whoever wrote it, and
`ensure_draft` treats it as it treats any other text. `Build` gives each commit one ZIP; `check_published` rebuilds the ZIP of an old tag with
the `ZIP_EXCLUDE` of the commit that runs, so this takes that list as unchanged. The workflow's concurrency group (`.github/workflows/release.yml:60`) keeps runs apart. Nobody is taken to edit a
release that is public. `ReleasePromise` is what users see of all that: a version becomes public in one step, with tag,
ZIP and page of one commit, once; the latest only rises.

## 4. The runs

| Run | Shows |
| --- | --- |
| `pin_ops` | `TypeOK`, `StoreMatchesLock`, `ViewIsCurrent`, `OptionsAreOneStore`, `MasterUntouched`, `SavedIsNewest` for two writes on the master slot and a user slot, one of them shielded, with answers that can be lost, late, refused or unreadable, with renames, settings, capabilities and one reload or restart at any point |
| `pin_ops_ends` | `EveryWriteEnds` under fairness, with unreadable answers and a setup that waits for the translation file |
| `pin_ops_reload` | **refutes** the comment on `_pin_lock` ("One PIN operation at a time per lock"): the lock is one per coordinator, so after a reload two writes of one slot overlap and the older can be saved last |
| `ble_session` | `AnswersAreOwn`, `NobodyWaitsOnClosed`, typing, and `EveryExchangeEnds` under fairness, for connecting and three commands of two kinds, either firmware, refs that wrap after two, with a lock that answers in time, after the grace period, or never |
| `ble_session_reopened` | **refutes** "A Session connects once; after a disconnect, build a new one": a link lost between connect()'s last answer and connect() running again leaves the session connected |
| `ble_session_late` | **refutes** that only an answer later than the grace period can be mistaken: a cancelled or failed command starts no grace period |
| `entry_life` | `AvailableIsHeard`, `NeverSilent`, `LogTellsLoss`, `HandledOnce`, `RowsFollowFloor`, `EventsComeBack`, typing, for a ZHA that starts, fails, leaves, is removed and added in any phase of the entry's life, with the same cluster or another |
| `lock_activity` | `EchoHidden`, `RealLockShown`, `PeopleShown`, `FiredIsTrue`, `ActivitySurvives`, `NothingOnceRemoved`, typing, for three wakes that overlap, fail, are cancelled or outlive a reload, under any order of echoes and events |
| `lock_flows` | `OneHolder`, `EntryKept`, `AddressIsOwn`, `OneWritePerForm` for two flows at once over two locks and two entries, with cards, ignored locks, deletions and restarts, on either release of Home Assistant, from no entry or one of an earlier install, next to an options dialog |
| `ble_packets` | `WholeOrNothing`, `BackInStep` for three payloads of one, two, three or five packets, any notification lost, one drop of the link, one stray packet, a sequence number that wraps |
| `ble_enroll` | `KeyKept`, `FileIsTrue`, `IdSetOnce`, and `EnrollmentFinishes` under fairness, for two terminals, a lock that moves and is reset, either kind of lock |
| `release_publish` | `PublishedBound`, `NoFalseAlarm`, the refinement `ShipsWhole`, and `ResumedToTheEnd` under fairness, for four commits of three versions and a person stepping in once |

What the main properties say:

* `StoreMatchesLock`: as long as one coordinator handled every write to a slot (`OneCoordinator`), the slot shows a
  PIN exactly when the lock holds a code, at every moment at which the caller of the write the lock executed last was
  told that it went through (`Told`). Whatever else was refused, failed, was cancelled or got lost makes
  no difference: a clear that never got through leaves the slot shown as taken, and the next delivered write
  repairs what an earlier one left wrong. Where the property says nothing, the code cannot know: the lock
  executed a write whose caller was told otherwise (its answer was lost, or the *retry* was refused, which
  `coordinator.py:344-346` treats like any other refusal), or an answer without a readable status stood for a refusal.
  Across a reload it fails, which `pin_ops_reload` shows.
* `SavedIsNewest`: a save describes the write the lock executed last on that slot, as long as one coordinator handled the
  slot's writes.
* `ViewIsCurrent`: the coordinator the sensors read shows what is stored. It holds when
  the strings are cached. With a wait in `async_setup_entry` between the two
  statements it fails (listed as a hazard).
* `AnswersAreOwn`: a command is completed by its own answer, but for two exceptions the
  wire leaves open and the property names.
* `NobodyWaitsOnClosed`: no exchange is left waiting when the session closes.
* `NeverSilent`: with ZHA running and no reload due, either the listener is on the cluster
  ZHA holds, or the repair issue stands and the sensor is unavailable. `rePaired`, a history
  variable, excepts a lock paired again under a running ZHA since ZHA's entry last changed.
* `EventsComeBack`: whenever ZHA stays up with a cluster for the lock, an entry in whatever
  state ends up loaded, available and listening to that cluster.
* `RowsFollowFloor`: a loaded entry was set up for the stored floor, or reloads. `unheard`,
  a history variable, excepts a dialog submitted under a setup: the change meets no options
  listener and the rows keep the old floor until the next write of the options (listed as a
  hazard).
* `EchoHidden`: while the window of a wake is open, nothing makes the sensor show that wake's
  echo. A wake that fails puts back the stamp it replaced, so the property depends on what
  earlier wakes left and on the write lock keeping wakes of one coordinator apart. Its
  exceptions are a wake whose own call failed and a wake of a dropped coordinator.
* `RealLockShown`: the other side. A lock from a dashboard is shown unless the window of a wake
  that did not fail is open; hiding everything would satisfy `EchoHidden`.
* `PeopleShown`: no frame that names a person, a credential or an unlock is suppressed, in any window.
* `ActivitySurvives`: what the sensor shows, or will show when it is back, is changed by no step
  of a reload, and by no event that finds the entity gone.
* `OneHolder` and `EntryKept`: a flow with a unique id keeps others off, but reconfigure takes an address without one of
  its own, and a card creates its entry without looking again. Both hold because whoever takes an address
  ends the flows and the ignored entry that hold it.
* `AddressIsOwn`: a device never carries another lock's address than its entry's, and from Home Assistant 2026.9 on it carries
  that one once it is set up. Setup only ever adds to what an earlier set-up or an earlier install left, so each change of address has to
  take the old one off. A row that is ZHA's too (`merged`) is excepted: the code leaves the old address there.
* `OneWritePerForm`: the form's steps are run again by Home Assistant with the submitted input attached, by a page that
  is loaded again, and by a failed write on its way back; none of these may send a PIN twice.
* `WholeOrNothing`: a payload handed up is one the lock sent. One exception is on the wire: the end of one blob and the start
  of the next are lost together and the rest happens to fit.
* `BackInStep`: a payload that arrives undisturbed after one that did, or first on its connection, is handed up: nothing
  of a failed blob stays in the way for more than one payload.
* `KeyKept`: the lock's key is in its file. `lost` excepts what the documentation excepts: the answer to
  `UserAuthUpdate` never came, or no save of it went through.
* `FileIsTrue`: a file claims no step the lock has not done, though a scan or a second terminal may save an older copy
  over a newer one (it then claims less, and resuming does a step again).
* `IdSetOnce`: a lock that checks device ids is sent `DeviceIdSet` again only if it has not carried it out.
* `EnrollmentFinishes`: an enrollment that stopped anywhere is finished by resuming it, the one whose answer to `DeviceIdSet` was lost
  included.
* `PublishedBound`, `ShipsWhole`: `rel` and `makeLatest` are read once and used three writes later; the draft may be one
  that an earlier run or a person left.
* `NoFalseAlarm`: the blocking check never fires on a version from before the flow nor on one of its own, as long as
  `ZIP_EXCLUDE` stays what it was.
* `ResumedToTheEnd`: after a stop at any call, running the tagged commit again gets it out, unless something is in
  the way that a person has to look at (`HalfWay` names it).

Known and excepted. A reload forgets the stamps of wakes (`EchoHidden` speaks of the current coordinator's
wakes). A write the lock executed although its retry was refused, or whose unreadable answer was a refusal, leaves the slot wrong until the next
delivered write (`Told` in `StoreMatchesLock`). A floor raised while a write waits does not stop the write (`MasterUntouched` speaks of slot 0). A lock paired again
under a running ZHA is not followed (`rePaired` in `NeverSilent`), though docs/technical.md:89 speaks of re-pairs.
`PROJECT.json` lists them with the other hazards.

Every property of a passing run has a mutant in `PROJECT.json`: a plausible bug,
defined in the module as a *variation* right before the definition it replaces,
under which TLC finds the property violated.

## 5. Bounds, fairness, symmetry

*PinOps.* Two writes are what an overlap takes; each can be of any kind and on any
slot, so two on one slot and two on different slots both occur. Slots `{0, 1}` are
the master and a user slot; `reserved_slots` starts at 0 (hand-edited, below the
minimum) or 2. `MaxLoads = 2`: one reload or restart, so two coordinators. Two names, the
empty one and another. `pin_ops` and `pin_ops_ends` include answers without a readable status (`UnreadableAnswers`).
`Seen` (the VIEW) leaves out the slots of a coordinator that is
neither current, nor being built, nor running a write: no action reads them before it
overwrites them. `loads` and the fact that each write is asked for once are the only
bounds; they are guards of `Build`, `Restart` and `Ask`. The deadlock check is on:
renames and settings are always possible.

*BleSession.* Three senders, enough for a late answer to reach the second command after the one it belongs to and for the
counter (RefLimit 2) to wrap. The two refuting runs use RefLimit 127, so nothing wraps there. The
deadlock check is off: a closed session with nobody left to call it stops.

*EntryLife.* Three clusters: the one listened to, another, and one more to return to.
`MaxDue = 2`: a reload that waits reads everything afresh when it begins, so a third would
change nothing. `reserved_slots` starts at 0, 1 or 3, and a dialog sets 1 or 3. The deadlock
check is on.

*LockActivity.* Three wakes: one whose stamp another replaces, and a third that starts in between or
after a reload. `MaxLoads = 2` is one reload. All windows last equally long, so `windows` is a queue:
the oldest ends first (`WindowOver`), at any time. The six frames are one of each kind the code tells apart: a dashboard, a
credential with slot 0, a slot above one byte, an unattributed unlock, the auto-relock, and an action and a source that
are on no list. The wakes are interchangeable (`WakeSymmetry`). `Seen` leaves out what is written before it
is read again: the last bus event, the restore cache of a sensor that is there, and what belongs to a wake that is over.
The deadlock check is on.

*LockFlows.* Two locks (interchangeable, `LockSymmetry`), two entries and two flows are what one flow needs to disturb another's lock or
entry. The run starts with no entry or with one of an earlier install, on either release. `MaxSubmits = 1`: after a failed write the
form is shown again, and but for the two counters the dialog is then where it was before the form was first sent in; `WritesAsAsked` covers any number. The deadlock check is on.

*BlePackets.* Two bytes of room, the first packet one less for the blob's header: payloads of 1, 2, 4 and 8 bytes are a
single packet and blobs of two, three and five packets, one of them exactly full, one longer than the sequence number's three values.
`MaxPayloads = 3` is one before, one after, and one that must be undisturbed; `MaxExtras` and `MaxDrops` are 1; losses are unbounded. The
deadlock check is off: after the last payload nothing comes.

*BleEnroll.* Two terminals, of which one enrolls and resumes and both log in and scan: enough for a stale save. One enrollment,
two addresses, `MaxMoves = 1`, a budget of two failed logins. The theorems hold for any number of each. The deadlock check is on.

*ReleasePublish.* A release from before the flow, two commits of one version, one of the next; three releases at a time,
`MaxHands = 1`. A successful trial release is not in the run, which has no commit of version 0.0.0; the theorems cover it. The deadlock check is on.

*Fairness.* In EntryLife: Home Assistant runs the tasks it has scheduled (setup, reload,
unload) and its retry timer; nothing is assumed of ZHA. In PinOps: zigpy answers a command or times it out, a wake returns (it has a
timeout of its own), and `asyncio.Lock` wakes a waiter when it is free. The lock itself
is not assumed to do anything. In BleSession: `_ready_at` passes, `response_timeout` fires, a free
`asyncio.Lock` is handed on. Neither the lock's answers nor the link are assumed fair.
In BleEnroll: every command of the tool ends; the person resumes again and again when the tool is idle, the lock not in use and the
budget open; and connection, login, the lock's own step and the save each go through if they are tried again and again. A lock that drops
the link after each refused login would break this, as the docstring of `resume_enrollment` says. In ReleasePublish: a run ends (the job's
time limit); a commit of `Persist` is run again as long as its tag stands, and each call goes through if it is made again and again.
LockFlows and BlePackets state no liveness.

## 6. The proofs

All of these hold for every value of the constants that satisfies the named
assumptions of the module (finite or not: any set of writes, of slots, any number of
reloads).

`PinOpsProofs`

* `TypeCorrect`: `Spec => []TypeOK`. The inductive invariant `TInv` adds what typing rests
  on: a write that holds a lock, is on the radio or is stray has been asked for.
* `MasterNeverWritten`: `Spec => MasterUntouched`. `FloorProtectsMaster` gives a floor of at least 1
  for every stored value, so every asked slot is above 0 (`AboveMaster`), and only
  an asked write reaches the lock.
* `ViewStaysCurrent`: under `StringsCached`, `Spec => []ViewIsCurrent`. `ViewInv` adds that
  nothing is ever `building`, which is where the assumption is needed.
* `OptionsRefineStore`: `Spec => OptionsAreOneStore`, the refinement: initial states
  map to initial states, each step to a step of `SlotStore` or a stutter
  (`DeliverRefines`, `SetSlotNameRefines`).
* `OneAtATime`: on one coordinator at most one write is with the lock. From `LockHeld`: a
  write that is sending or waking is the holder of its coordinator's `_pin_lock`.
* `LockNeverLeftBehind`: whoever holds a `_pin_lock` is a write of that coordinator that is sending or waking (`HeldInUse`), so no answer,
  failure, cancellation or restart leaves the lock behind. This is what `EveryWriteEnds` needs beside fairness.
* `SavedStaysNewest`: `Spec => SavedIsNewest`. `StrayApart` (while a write is sending, no command given
  up on by the same coordinator is still under way) and `AcceptedIsLast` (a write
  whose answer is on its way is the last executed on its slot) are the order of the
  radio and the lock put together; neither is inductive without `LockHeld`.
* `StoreStaysTrue`: `Spec => []StoreMatchesLock`, under its own two preconditions and no further one. The property is inductive together with three facts
  (`MatchInv`): `CodesFollow`, what the lock holds for a slot is what the write it executed last for it left there; `StrayUnreported`, a command that
  may still reach the lock is no write that was reported delivered; `EndsOnce`, a write has no outcome before it is over.
  `SavedWasLast` is the heart: when a save happens, the write that is saved is the one the lock executed last, from `AcceptedIsLast`
  when its answer was readable and from `Told` when it was not.

`BleSessionProofs`

* `TypeCorrect`: `Spec => []TypeOK`. `PlacedInFlight` (a command in flight has its position in
  `sent`) is what keeps the answers in the air pointing at commands that were sent.
* `OneExchangeAtATime`: at most one task is pausing, writing or waiting. From `HolderExchanges`:
  whoever does has `_command_lock`, and what it sent is `_pending`. `ConnectAlone` (no
  sender has started before connect() has ended) covers the key exchange, which nobody
  can compete with.
* `ClosingReachesEveryone`: `Spec => []NobodyWaitsOnClosed`. It is not inductive alone:
  `_fail_pending` reaches only `_pending`, so the proof needs that whoever waits is
  pending.
* `LockNeverLeftBehind`: `LockInUse`, whoever has `_command_lock` is pausing, writing or waiting, and `_pending` is being written or waits:
  what `EveryExchangeEnds` needs beside fairness.
* `AnswersStayOwn`: `Spec => []AnswersAreOwn`. `AnswerInv` has three parts. `RefsInTurn`: under the counter the place of a command in
  `sent` tells its ref but for full turns of `RefLimit`, so two commands with one ref are a multiple of it apart.
  `PendingIsLast` and `OnceInAir`: whatever comes in is older than the pending command or its own answer, and nothing comes twice.
  `LateExplained`: under the static ref, what is still on its way is the pending command's, or one that timed out and whose
  grace period is running, or follows a command given up on. `FirmwareFirst` and `DownCarriesNothing` say that
  nothing is sent under an unread firmware and that errors come from a lost link alone.

`BlePacketsProofs` (any room and header sizes with a blob header smaller than the room and no smaller than the packet's, any number of sequence
values, any non-empty payloads, losses and drops)

* `Cuts`, `PacketIs`, `BytesJoin`, `WrapSteps` are the lemmas about `packetize`: the chunks are adjoining, none is empty, the last ends with the payload
  (`RoundedUp` is the rounding in `Count`), the sequence number steps by one modulo its values, and a packet tells its payload and its place in it.
* `AirInv`: what is on its way is in the order it was sent, and what is gone, received or lost, was sent before what is left
  (`AirIsSuffix`). `AirTail`, `AirInserted`, `AirExtended` and `AirCleared` say what each action does to that.
* `HandsUpWholePayloads`: `Spec => []WholeOrNothing`. `WholeOrNothing` speaks of what was delivered only; `BlobSound` says what it takes of the blob in
  progress: as long as one payload's bytes alone are in it, it is never longer than that payload up to its latest packet, and as long as
  that only if none is missing, so the declared length is met by the whole payload or by a glue. `HeadKnown`
  says that a packet which is not a first one meets a blob of another payload only if its own first packet was lost. The sequence number is not
  used in this proof: the length alone protects the payload.
* `StepsBack`: `Spec => []BackInStep`. `ReadyForNext`: when everything before an undisturbed payload is gone and it has not begun, no blob
  is open. `InStep`: such a payload is delivered, not begun, or the blob is exactly its bytes so far with the right sequence number
  (`InProgress`). `FirstFresh` covers the first payload of a connection.

`EntryLifeProofs` (any set of clusters, any bound on waiting reloads)

* `TypeCorrect`, `AvailableStaysHeard`, `LogStaysTrue`, `ReportsHandledOnce` follow from one
  inductive invariant, `LifeInv`. It adds: a coordinator that is being set up has no listener
  (`Handled`, without which a setup could put a second handler on a cluster); ZHA without a
  running entry has no gateway and is watched while the entry is loaded (`ZhaWatched`,
  without which a stop of ZHA could be missed); and the flag says what the log says
  (`FlagIsLine`).
* `StaysHeardOrSaysSo`: `Spec => []NeverSilent`, inductive on top of `LifeInv`.
* `RowsStayRight`: `Spec => []RowsFollowFloor`. `FloorInv` adds that a setup under way was
  constructed with the stored floor, or the change went unheard.

`LockActivityProofs` (any set of wakes, any frames of 16 bits for the slot and 8 each for action and source, any number of reloads)

* `FrameFields` and `DecodeFrame` are the lemmas about the bitmap: for every frame, what is cut out is what was put in. `FiredStaysTrue`
  and `PeopleAreShown` rest on them alone.
* `TypeCorrect`, `RemovedShowsNothing`, `ActivityKept`: from `ActInv`, whose `SensorThere` says that an unloading entry has no sensor and shows nothing.
* `EchoStaysHidden`: `Spec => EchoHidden`. `WakeInv` says what a stamp is worth: `lastWake` of a transport is a wake of its own
  that did not fail, and no window of such a wake outlasts it (`LastCovers`). A failure puts `previous` back, so the
  same has to hold of `previous` for every wake but the failing one (`PreviousCovers`), and that stays so only because no
  second wake of the coordinator begins meanwhile (`OneWaking`). `OnSetUp` excludes a wake of a coordinator whose sensor is being
  restored.
* `RealLocksAreShown`: `Spec => RealLockShown`, from `LastOwn`, the first half of that.

`LockFlowsProofs` (any sets of locks, entries and flows, any number of forms)

* `NoLockTwice`, `EntryStaysKept`, `AddressStaysOwn`: from one inductive invariant. It adds that a card's address is held by no entry
  and by no other flow, which is what a card that looks at nothing needs, and that an address is on the device of an
  entry, unless its row is ZHA's too, only while it is the entry's own.
* `WritesAsAsked`: the invariant relates `submits - writes` to the step that runs next and to what is attached to it.

`BleEnrollProofs` (any number of terminals, keys and addresses)

* `KeyStaysKept`, `FileStaysTrue`, `IdSetAtMostOnce`: the invariant says of every run, whether connected or not, that what it knows
  (`mem`) is no more than the lock has done for that key, and that only the connected run has a command out. A run that is sending
  `DeviceIdSet` to a strict lock has logged in with the factory id, so the lock did not have ours.

`ReleaseProofs` (any commits, versions, builds and number of tidying steps)

* `PublishedHangsTogether`, `NeverAlarmed`: `Knows` says at each place of a run what its earlier reads are still worth: the guards of `Find` hold until
  `Publish` because only this run and a person between runs change what they read.
* `ShippedWhole`: `Spec => ShipsWhole`, the refinement. Every action but `Publish` and `MainMoves` is a stutter.

Only model-checked: everything about liveness (`EveryWriteEnds`, `EveryExchangeEnds`, `EventsComeBack`, `EnrollmentFinishes`,
`ResumedToTheEnd`: fairness and ENABLED are outside what the prover handles; of the first two, the part that needs no fairness is
proved as `LockNeverLeftBehind`). Every invariant and every action property of a passing run
is proved.

## 7. Not modelled, and the plan

Done: `PinOps` with `SlotStore`, `BleSession`, `EntryLife`, `LockActivity`, `LockFlows`, `BleEnroll`,
`ReleasePublish` with `ReleasePromise`, `BlePackets`, each with its run and its proofs.

Worth doing next, in this order:

1. `BlePackets` under `BleSession`: what a lost notification of one answer does to the command that waits for it. Today the session's
   model loses or delivers an answer whole.
2. The migration of registry keys and of the model (`__init__.py:135`): one pass at setup, which a crash can stop half way.

Left out for good: byte layouts of single messages and the feature bits (tables), AES and key derivation (arithmetic
on blocks), `bluetooth.py` (it keeps nothing between calls), the choice between several locks in a service call, the PIN length rules, diagnostics,
redaction, localisation, tracing, the texts and images of the release tools, the end-to-end simulators, blueprints, ESPHome and shell files (configuration, no state).
