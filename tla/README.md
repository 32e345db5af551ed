# ADAM Audio for Home Assistant: TLA+ models and proofs

This directory holds TLA+ models of the Home Assistant integration in
`custom_components/adam_audio/` and of the library it uses,
`lib/pyadamaudiocontroller/`. TLC checks them on small instances, and TLAPS
proves the main safety properties for every instance.

## 1. The system

| Part | State it keeps | Operations | Talks to |
|---|---|---|---|
| `Device` (`device.py`) | connected UDP socket, last handle | a command; a request (command and matching response); the same with retries; drain; keepalive | the speaker, by datagrams |
| Wire format (`message.py`, `command.py`, `response.py`, `types.py`, ...) | none | encode, decode | `Device` |
| `AdamAudioClient` (`client.py`) | speaker state, availability, failure streak, an `asyncio.Lock` | set up, shut down, poll, one setter per parameter, identify | `Device`, in executor jobs |
| `AdamAudioCoordinator` (`coordinator.py`) | data snapshot, last success, timer | set up, refresh, notify, shut down | the client; Home Assistant's `DataUpdateCoordinator` |
| Entities of a speaker (`entity.py`, `switch.py`, `select.py`, `number.py`, `button.py`) | what Home Assistant last wrote | service calls | client and coordinator |
| Config entries (`__init__.py`, `data.py`) | registered coordinators, owner of the group | set up, unload, remove | coordinators, group entities by a dispatcher signal |
| Migrations (`__init__.py`) | none of their own: Home Assistant's registries of entries, devices and entities | rename what an old version registered | the coordinator's serial |
| Group entities (`entity.py`) | subscriptions | service calls to all online speakers | every coordinator |
| Config flow (`config_flow.py`) | a discovery that waits for the user; the entries' unique ids and addresses | manual, zeroconf, reconfigure | a temporary client; Home Assistant's entries and repair issues |
| Lovelace cards (`www/*.js`) | what was rendered | clicks, sliders, updates | Home Assistant's states and services |

Three kinds of concurrency meet here:

- **The event loop.** Coroutines interleave at every `await`: polls, service
  calls, and the set-ups and unloadings of different entries.
- **The executor.** Socket work runs in threads. A job's effect and the handling
  of its result are two steps; `client.state` is replaced by a poll in the
  thread, before availability is updated on the loop.
- **The outside.** Knobs and other controllers change the speaker at any time.
  The network loses, delays, duplicates and reorders datagrams. A SET sent long
  ago may still take effect.

What makes each part correct:

- *Device*: a read returns a value the parameter had while it was pending, or
  fails, and it always ends.
- *Client*: one task at a time on the socket; only read-back values are shown;
  availability is neither hasty nor blind; every call ends.
- *Coordinator*: entities show what the speaker is, never the placeholder state,
  and do not flap; no refresh starts on a closed socket.
- *Entries and group*: one group, under one loaded owner, on one device, that
  follows every coordinator and comes back when its owner goes.
- *Group commands*: what a speaker applied is told, what it did not is reported,
  and the group shows what the online speakers have in common.
- *Wire format*: what is encoded is decoded, and what is cut short is read as what
  was sent or not at all.
- *Config flow*: an id has one entry, a speaker that reports its serial has one
  entry, nobody's coordinator becomes another speaker, and an entry follows its
  speaker to a new address.
- *Migrations*: every device and entity keeps its registration, whatever is lost in
  a crash, and none is merged with another's.
- *Cards*: they show Home Assistant's states and pass clicks on (section 6).

`PROJECT.json` lists, under "hazards", the places in the code where these can go
wrong, each with the properties that would catch it.

## 2. Modules

| Module | Models | Built on |
|---|---|---|
| `FreshRead` | abstract: what a read promises | |
| `DeviceLink` | `device.py` over an unreliable network | implements `FreshRead` |
| `Tenures` | abstract: what a client promises those who share it | |
| `Client` | `client.py` | a speaker read as `FreshRead` promises; implements `Tenures` |
| `Coordinator` | `coordinator.py`, the refresh loop, the entities of one speaker | `Client` (extends it) |
| `GroupOwner` | `__init__.py`, the group's subscriptions | |
| `GroupCommand` | the group entities: commands to all speakers, common state | implements `Tenures`, once for each speaker |
| `Wire` | `message.py`, `command.py`, `response.py`, `types.py`, `util.py` and the receiving methods of `device.py`, as operators on bytes | |
| `DeviceWire` | the datagrams of `DeviceLink` as bytes | `DeviceLink`, `Wire` (extends both) |
| `SpeakerRegistry` | abstract: a book of speakers under unique ids | |
| `SpeakerEntries` | `config_flow.py`, `async_setup` of `coordinator.py`, the unique ids of entries | implements `SpeakerRegistry` |
| `Migration` | the migrations of `__init__.py`, the registration of entities and devices | |
| `MC*` | instances for TLC | the module they are named after |
| `*Proofs` | theorems | the module they are named after; `DeviceLinkProofs` also on `DeviceWire` and `WireProofs` |

### DeviceLink

The sets `requests` and `replies` hold datagrams that may be delivered any number
of times, in any order, or never. `rx` is the socket's receive buffer. `Ask`, `Set`
and `drain` are the calls of the client. `Match`, `Skip` and `ReceiveCut` are the
iterations of `receive_matching_response`, and `Raise` is the `except` clause of
`_request_with_retry`. A verification read has no retries, a poll's read has
`RetryAttempts`; `Ask` takes either. `window` is a history variable: the values
the parameter had since it was asked for.

Handles wrap at `HandleMax`. The one thing assumed of the network is that no
datagram outlives the `HandleMax` commands after which its handle returns
(`_command`). In the code that is 2^32 - 1 commands; without it, no protocol of
this kind could work.

`ImplementsRegister` states the refinement: mapped to its values, question,
window and outcome, `DeviceLink` is `FreshRead`.

### Wire and DeviceWire

`Wire` translates the encoders and decoders, field by field, to operators on
sequences of bytes; a decoder that raises returns the empty sequence. 32-bit fields
are pairs of 16-bit numbers, as TLC has no wider ones. `receive_matching_response`
is one round of the method's loop: a datagram is skipped, raises, or returns a
value. `Parameters` lists the object numbers, types and ranges of the setters;
`Setter` and `Getter` convert between what a caller gives and gets and what is on the
wire: mute is 5 or 1, sleep 1 or 0, and what is out of range is refused.

`DeviceLink` has four kinds of datagram. `DeviceWire` gives each kind the bytes that
stand for it (`AsBytes`), among them replies cut at every length, acknowledgements
and malformed messages, and `BytesAreTreatedSo` says that the decoder does with the
bytes what the actions of `DeviceLink` do with the kind (`Treated`). `WireAssumption`
bounds handles by their 32 bits; the run has three of them, the proofs have all.

### Client

`speaker`, `reachable` and `inflight` are the world; the rest is the client. Each
task has a control location `pc`:

- a poll is `idle`, `wait` (for the lock), `reading` (in the executor),
  `published` or `failed` (the job is done, the loop has not handled it);
- a command is `idle`, `wait`, `sent`, `answered`, `silent` or `sendFailed`,
  `sleep` (between two attempts, without the lock).

`lockQ` is the lock with its queue, which is first come, first served. The setter
stores its value in the step that confirms it, as no other task runs in between.
`async_shutdown` takes no lock, in the code and here.

A read in this module returns what the speaker is at the moment of the answer.
That is stronger than the `FreshRead` promise by one thing only: the value is
current at the answer, not merely at some time since the question. Because other
writers may change the speaker right after the answer, the properties checked
here speak of the whole lock tenure (`seen`), which contains both moments.

`ImplementsTenures` states the refinement: `Tenures` has one step for each poll and
for each attempt of a command. A poll's step is the one in which its executor job
stores the state (`PollPublish`); until `PollFinish` the mapping already shows the
verdict that is to come (`Published`). An attempt's step is the one that ends it.

### Coordinator

It extends `Client` and wraps its actions. `RefreshStarts` remembers
`prevData` and `prevSuccess` before the client is awaited, as Home Assistant's
`_async_refresh` does. `RefreshEnds` compares and, if something changed, writes
the entities. `async_notify_state` is `async_set_updated_data`: it replaces the
data, counts as a success, restarts the timer and writes the entities. `shown` is
what the entities were last written as. `timer` counts ticks to the next refresh. A
refresh stops it when it starts and restarts it when it ends, but a notification
restarts it too, also while a refresh is under way; if it then runs out before that
refresh ends, the next one waits for the debouncer (`RefreshQueues`, `queued`) and
starts right after it. When the first refresh fails, Home Assistant shuts the
coordinator down, and the model ends there: a retry makes a new coordinator.

`raced` is a history variable: a command was confirmed while a refresh was under way,
and no refresh has told anything since. It is the one excuse of `Converges`,
`GoneIsShown` and `ShownIsTold`, and it stands for a defect (section 4, item 1).

### GroupOwner

Entries move through the awaits of `async_setup_entry` and `async_unload_entry`,
each a control location in `state`. Home Assistant's lock per entry means that one
entry is in one place at a time; different entries interleave freely.
`coordinators` is the register, in insertion order, because
`next(iter(coordinators))` picks the entry to reload. `listening` tells a
coordinator that is an entry's latest from one that has been replaced.

### GroupCommand

A call on a group entity is picked up by `Command`, which fixes its speakers as
`_async_call_all` does; each speaker's attempts (`Confirm`, `Mismatch`, `NoAnswer`,
`SendFails`) then interleave with those of the others, with refreshes and with other
calls, until `Finish` does what follows the `gather`. A refresh is two steps, as in
`Coordinator`: `RefreshStarts` remembers in `before` what the coordinator holds, and
`RefreshEnds` polls, when its turn with the client comes, and compares with that.
Commands are confirmed and told in between. One lock tenure of a client is one step
here. The module `Tenures` is the common ground: `Client`
implements it with its several steps per tenure (`TenuresAreAtomic`), and here each
speaker's `state`, `available`, `failures`, calls and attempts implement it with one
(`ClientsTakeTenures`). So no call or refresh of the group does to a client what a
client does not do. That the group leaves out nothing either is not a theorem; it is
seen by comparing `RefreshEnds` and the four attempts with the actions of `Tenures`
one by one. What it does leave out is what no group entity asks for (`Identify`), the time
before the first good poll, and what `Knobs` bounds.
A refresh may report any setting of the fields in `Knobs`, and a read-back may
disagree at any time. A refresh that falls due during another one follows it at once
(`RefreshStarts` waits for nothing else).

`Unregister` and `Close` are the two halves of `async_unload_entry`, between which
the speaker is off the register and its listeners are not told yet; `RemoveGroup`
is the removal of the group entities. Loading belongs to `GroupOwner`. `applied`
and `untold` are history variables: who was read back with the call's value, and
which speakers have changed since the group was last written, in their client or in
their coordinator, without anybody being told.

### SpeakerEntries

`addr` and `told` are the world: where each speaker is, and whether it reports its
serial. Speakers move, swap addresses and are switched off at any time. `data` is
what the config entries store; `state` and `client` are an entry and its
coordinator, with the await of the first refresh as a state of its own
(`refreshing`), because the unique id is migrated after it. `_async_try_connect` is
the answer of a speaker: the flow knows from then on what it has found. It then
awaits the closing of its socket, which may take no time (the flow goes on in the
same step) or some, in which anything else may happen: it waits in `answers` until
`Flow` lets it go on. `async_step_user`, `async_step_zeroconf` and
`async_step_reconfigure` are what it does then. A discovery then waits in `pending`
until the user confirms it. `async_schedule_reload` is a task in `reloads`, which
gets the entry's lock only once a set-up is over. `Announced` are the mDNS names
that may be seen at an address: its own speaker's, and those in `Stale`.

`data[e].made` is the speaker an entry was made for. The code stores only its
hardware name, which speakers of one model may share; the model keeps the speaker
and compares names where the code does (`_is_same_speaker`).

`ImplementsRegistry` maps the entries to the book of `SpeakerRegistry`: its domain
is the ids in use, and a serial leaves it only with its entry.

Three things the model brings out that no property rules out, as nothing in the
repository says they should not be: an entry is not re-addressed by a discovery
while an earlier discovery of its speaker waits for the user (the later one aborts
as "already in progress"); a discovery during an entry's set-up changes the address
without a reload; and a reconfiguration to a speaker that reports no serial is
accepted if its model is the same.

### Migration

One entry or two for a speaker, and the three registries of Home Assistant, each
with its copy on `disk`. The three migrations of `async_setup_entry` have no await
between them and are one step, `Load`; the platforms then add entities one at a time
(`AddEntity`), taking over what is registered under the id or registering it. `Save`
writes one registry, and `Crash` starts again from what is written. `age` tells what
an old version had registered ("old"), what an earlier migration had already
renamed ("left") and what this version added ("new"). Hardware names are taken to be
unique here: two speakers that share one share ids in the code as well, before any
serial is known.

## 3. Runs

| Run | Question | Instance |
|---|---|---|
| `coordinator` | Does the lock serialise, is availability right, is what is published fresh; is anything shown that should not be; does a refresh meet a closed socket; does every call end; is a dead speaker shown as dead, and one left alone as it is? | a poll, two calls at once, each a command or `Identify`, 2 attempts, fair |
| `link` | Can a wrong reply be taken for an answer? Does the link implement the register? Does a read end while junk keeps arriving? Are bytes treated as the model says, and do encoders and decoders agree? | 2 parameters, 2 values, handles 1..2, buffer of 1, fair; fixed messages for the codec |
| `owner` | One group, one owner, one device, right subscriptions? Does the group come back? | 3 entries, one flaky and removable, fair |
| `group` | Does partial failure tell and report the right things, is the group's state true, is a removed group silent? | 2 speakers, one unloadable, a call on the voicing or an EQ control, 1 attempt, refreshes that wait while it runs |
| `entries` | Are ids unique, is a speaker entered once, does a coordinator keep its identity, does an entry keep its speaker, do repair issues go? | 2 speakers of one model, one without a serial at first and one announced where the other is, 2 addresses, 2 entries, corrections by the user overtaken by anything |
| `entries_old` | Do the entries implement the book? Does an entry follow its speaker? | the same, with serials, entries of an old version and discoveries overtaken by anything, fair |
| `migration` | Is anything registered twice, merged, lost or left behind? | 2 entries of one speaker or two, one entity each, crashes |
| `coordinator_race` | violated: a knob is shown within a poll | a command, fair |
| `coordinator_starved` | violated: polling goes on | a command, interval 2, fair |
| `owner_offline` | violated: the group comes back | one flaky, one removable entry, fair |
| `group_stale` | violated: the group shows a difference | 2 speakers, a call on a switch, 1 attempt, fair |
| `entries_twice` | violated: a speaker is never registered twice | as `entries` |

Every property of a passing run is violated by a mutant of the code, listed in
`PROJECT.json`; the mutants stand next to the definitions they change.

`WhatIsSentIsRead` and `CutIsNeverMisread` are about the codec, which has no state:
`DeviceWire` evaluates them where the device has just connected (`JustConnected`),
over the messages named under "Codec" below. The theorems of section 5 cover all
others.

### Bounds

- *Values*: two. The properties distinguish a value from another, never three.
- *Parameters*: one where commands and polls contend, two for replies to the wrong
  question. That a poll's batch is published whole or not at all needs more than
  one: with two, run `coordinator` takes several times as long (and passes); the
  theorem `Freshness` has any number.
- *Tasks*: Home Assistant runs one poll per speaker. Two calls contend with it and
  with each other, so that one is confirmed while another is still being tried; the
  theorems of `ClientProofs` and `CoordinatorProofs` have any number of calls.
- *Attempts*: two in `coordinator`, one in `group`; the code has three. Two give a
  first, a last and a sleep between them. In `group` the number only says how often a
  speaker may fail before its result is known, and the theorems have any.
- *Queued refreshes*: one, as one that waits for the debouncer stands for all: it reads
  `coordinator.data` only when it starts.
- *Threshold*: 2, as in the code. `FailureCap` equals it: above the threshold
  the streak's exact length changes nothing.
- *Handles*: 1..2, the smallest range that wraps with two commands outstanding.
- *Buffer and inspected datagrams*: one and two. Any datagram may be delivered
  next and again, so a longer buffer only fixes an order earlier; both limits are
  hit. The theorems on `DeviceLink` have any size.
- *Ticks*: one between polls; two where a command must fall between two ticks.
- *Entries of the group*: three, an owner, the entry asked to follow it, and one
  that is not asked. Nothing the group does depends on the number beyond that. One
  may be removed and be offline: with two, or with one that is asked, the group need
  not return (`owner_offline`). `OneGroup` has any number.
- *Speakers and addresses*: two of each. Two speakers can swap addresses, share a
  name and be mistaken for each other; an address can be nobody's. Two entries give
  a speaker a duplicate. In `entries`, addresses and entries are interchangeable
  (`Alike`), which its properties respect.
- *Flows*: `MaxFlows` is one: one flow waits, for its socket or for the user, while
  the others go on at once; a second discovery of the same id aborts, and one of another id
  meets the first only through the entries. `Slow` names the flows that may have to
  wait for their sockets: the user's corrections in `entries`, discoveries in
  `entries_old`. That a manual entry is overtaken, or that two flows wait at once, only
  the theorems cover; they have any number of everything.
- *Migration*: one entity per entry, as entities are renamed independently of each
  other and in one step. Two entries may share a speaker.
- *Codec*: five handles that differ in one byte, every parameter with every value its
  setter accepts and sends, messages of one or two PDUs, cut at every length.
- *Group*: two speakers, the least that can differ, and one call at a time, of one
  of two kinds (`Jobs`): the voicing, which decides who takes part in EQ commands,
  and an EQ value. One of the speakers may be unloaded (`Leaving`) and the EQ
  control be turned on the speaker itself (`Knobs`); TLC does not check two calls at
  once, which the theorems cover.

The theorems hold for every value of these constants.

### Fairness

- `Client`: weak fairness per task on what it does once started. The event loop
  runs every ready task, executor jobs end (each socket call has a timeout), and
  `asyncio.Lock` serves its waiters in order, so no strong fairness is needed. The
  poll is requested again and again; `Coordinator` shows under which conditions.
- `DeviceLink`: weak fairness of "receive or fail": the socket timeout ends a
  receive that gets nothing. Nothing is assumed of the network.
- `Coordinator`: the same per task, and on the clock and the due refresh, whether it
  starts or waits for another. Nothing says that a user stops issuing commands.
- `GroupCommand`: calls are carried out (`CallsEnd` of `Client`), an unloading
  that has begun ends, and refreshes start again and again and end. Nothing makes a
  poll or an attempt succeed.
- `GroupOwner`: Home Assistant runs its tasks and retries entries. Nothing makes a
  user act or a speaker return.
- `SpeakerEntries`: Home Assistant retries entries and runs scheduled reloads, closes
  the sockets of flows, and is not restarted for ever (or it might be before every
  flow goes on), and speakers announce themselves again and again ("zeroconf will re-trigger this flow
  on the next broadcast", `config_flow.py`). Nobody has to confirm a discovery, and
  `FollowsItsSpeaker` speaks only of a speaker that stays where it is.

## 4. What the violated runs show

1. `coordinator_race`. Home Assistant compares a refresh's result with the data
   from when the refresh *started*, and the refresh then waits for the client's
   lock. If a command is confirmed meanwhile, its value is written to the entities.
   If the parameter is then turned back on the speaker before the poll reads it,
   the poll's result equals the old data and nobody is told. Every later poll
   compares equal too, so the command's value stays on display.
   `coordinator.py:7-10` says a knob is reflected within one poll cycle.

   With two calls the same comparison hides a speaker that is gone. A refresh starts
   while `last_update_success` is False; the first call is confirmed and the speaker is
   shown available; it leaves, and the send of the second call fails and makes the
   client unavailable (`client.py:282`). The refresh fails, but its success was False
   when it started, so nobody is told, then or later. And the entities of the group
   keep the command's value like those of the speaker. The properties of the passing
   runs that this would violate make an exception for it, and for nothing wider:
   `raced` in `Coordinator`, and in `GroupCommand` `untold`, which also covers item 4.
2. `coordinator_starved`. Every confirmed command restarts the poll timer.
   Commands more often than once per interval keep the poll from running.
   `coordinator.py:55-57` says it runs every `POLL_INTERVAL` seconds.
3. `owner_offline`. When the owner's entry goes, the first registered entry is
   reloaded to take the group over. If its speaker does not answer, it retries, and
   nobody else is asked: a speaker that is loaded and online stays without a group.
   With two removable entries the same happens when that entry is itself being
   disabled or removed, because it is on the register until its platforms are
   unloaded. `__init__.py:153-156` says a remaining entry recreates the group.
4. `group_stale`. A SET that cannot be sent marks the client unavailable, its
   coordinator does not hear of it, and the group entity writes itself without that
   speaker. A good poll makes the client available again; for the coordinator
   nothing has changed, so nobody is told, and the group keeps showing the value of
   the others. `tests/test_group.py:630-633` says the group shows the difference; it
   tests a speaker that a failed *poll* made unavailable. A second way there: a
   speaker confirms early, polls mark it unavailable while the call waits for
   another one, and the notification at the end sets `last_update_success`, so its
   return is no change either.

5. `entries_twice`. A speaker that reports no serial gets its address as part of its
   id when it is entered by hand, and its mDNS name when it is discovered: it can be
   entered both ways, or by hand again at another address. `config_flow.py:58-60` says
   the same speaker is never registered twice. For speakers that report their serial
   from the start that is proved (`RegisteredOnce`).

The first needs a knob to be turned, or a speaker to leave, in the short time between
the confirmation and the poll's read; the others need no particular timing beyond the actions named.
1, 2 and 4 rest on how Home Assistant's `DataUpdateCoordinator` behaves (section 6).

## 5. Proofs

`tlapm` checks all of the following, for every value of the constants that
satisfies the named assumptions (`ClientAssumption`, `LinkAssumption`,
`CoordinatorAssumption`, `OwnerAssumption`, `GroupAssumption`, `EntriesAssumption`,
`MigrationAssumption`, `WireAssumption`).

- **ClientProofs**: `TypeCorrect`, `MutualExclusion`, `SilenceIsReported`,
  `DebounceWorks`, `Freshness`, `TenuresAreAtomic`. The invariant is built in layers. `TypeInv` adds to
  the types what each control location implies. `LockInv` says that only the head
  of the queue uses the socket, which makes mutual exclusion inductive. `AvailInv`
  adds that nothing was polled before there is a socket. `FreshInv` says that the
  history of the tenure contains what the speaker is and every answer a task
  holds; from it, what is published is in the history. `TenuresAreAtomic` maps every
  step to one of `Tenures` or to none. It needs `LockInv`: between a poll's storing and
  its verdict no other tenure ends, so the flag and the streak that the mapping
  promises are the ones that come. `CallInv` says that a command which is over has
  left nothing behind.
- **DeviceLinkProofs**: `LinkTypeCorrect`, `HandlesIsolate`,
  `LinkImplementsRegister`. The invariant says that every reply with the handle
  waited for reports a value of the window, and that every request with that
  handle is a GET for the parameter asked for, so that answering it keeps the
  invariant.
- **DeviceLinkProofs**, on the bytes: `BytesMatchTheModel`, for every handle of 32 bits
  and every buffer, takes the four kinds of datagram one by one and needs of
  `DeviceLink` only its types and that a handle has been given.
  `EncodersAgreeWithDecoders` and `CutGivesNoOtherValue` are the two properties of the
  codec; their messages are instances of the theorems that follow.
- **WireProofs**, which has no state, in layers. (1) What is in each byte of what is
  sent (`EnvelopeBytes`, `ResponseBytes`, `MessageBytes`, `CommandBytesAre`), and what the
  decoders make of a byte string of which those bytes are known (`ResponseIn`,
  `CommandIs`). (2) Values: `TextsComeBack`, every text is decoded from its UTF-8, and
  `ValuesComeBack`, so is every value of every type, whatever stands behind it.
  (3) Commands: `CommandIsUnderstood` and `QueryIsUnderstood`, every command with one
  value, and every one with none, is decoded as it was encoded, wherever it stands.
  (4) Messages of any number of responses: `MatchedAmongOthers`
  (`receive_matching_response` takes the first response to its command),
  `FirstIsTaken` (`receive_response` the first of all) and `AllAreTaken`
  (`receive_responses` every one, in order). (5) What is left of a message:
  `CutIsNoLie`, a byte string cut after any number of bytes, whatever it is, is
  skipped, refused, or read as the whole of it is; `AnswerIsReadOrRefused` says
  which, for an answer with a number.

  `FlattenSeq`, `Utf8Decode` and `ResponsesOf` are recursive functions over sequences
  of any length. `Induction`, an induction for sets of numbers, follows from the
  library's facts about well-founded relations; with it each recursion is shown to
  have a solution (`FlattenIs`, `Utf8DecodeIs`, `ResponsesAre`), which the theorems
  then follow element by element. Lengths must fit their fields (`Fits`, `Full`,
  `SentResponses`), as in the code, where `struct.pack` raises otherwise.
- **CoordinatorProofs**: `UsesClientProperly`, `CoordinatorTypeCorrect`, `NothingFabricated`,
  `NoPollAfterClose`, `EntitiesDebounce`, `WhatIsToldIsShown`. The first shows that each step of the
  coordinator is a step of `Client` or leaves it alone, so that the invariants of
  `ClientProofs` carry over. `CoordinatorInv` ties phases to the socket and to the
  first good poll. `WhatIsToldIsShown` says that in a loaded entry, however many calls
  there are, what is shown is what the coordinator was last given, unless `raced`. Its
  invariant `TellInv` says that between a poll's storing and its end the data is the
  client's, and that a refresh under way still compares with what the coordinator
  holds unless a command raced with it: a refresh that tells nobody then has nothing to tell.
- **GroupOwnerProofs**: `OneGroup`, `NoGhostsLeft`, `GroupListensRight`,
  `OwnerTypeCorrect`. `OwnerInv` says what the owner may be doing, where the group
  may live and whose device may exist. `RegisterInv` ties the register to the
  entries' states and says that nobody is on it twice, which is why taking one
  entry off it (`RemoveAtTakesOut`) leaves none behind. `ListenInv` says whom the
  group listens to while a signal is outstanding.
- **GroupCommandProofs**: `GroupTypeCorrect`, `AppliedChangesAreTold`,
  `SilentCallsAreApplied`, `RemovedGroupIsSilent`, `GroupIsTruthful`,
  `GroupTakesTenures`, for any number of speakers and of calls at once. `TypeInv` adds to the types that a call that is over has no targets
  left, without which the end of one call could not be told from that of another;
  `ReadBack` says that a speaker counted as "ok" was read back; `ChangesAreTold` is
  inductive on top of `TypeInv`. `GroupShowsTruth` is not inductive: the end of a
  call that applied only to speakers that were closed meanwhile writes one entity,
  so `TruthInv` must not let such a call excuse anything. It rests on
  `ChangesAreTold` and on `UntoldInv` (a speaker not in `untold` has a coordinator
  that agrees with its client): together they say that a refresh which tells nobody
  either leaves what the coordinator holds, and so what the group shows, or puts its
  speaker into `untold`. So the theorem says when the group is told, and that only the
  defects of items 1 and 4 of section 4 keep it from the truth for good. `SameShown` says what the
  entities' state depends on. `GroupTakesTenures` fixes one speaker and sorts the steps
  into those of its own tenures and those it does not notice; `TriesInv` says that
  a new call starts with no attempts behind it.
- **SpeakerEntriesProofs**: `TypeCorrect`, `IdsAreUnique`, `RegisteredOnce`,
  `IdentityIsKept`, `IssuesAreCurrent`, `AddressesAreTheirs`, `EntriesAreARegistry`.
  `EntriesInv` says of each entry how its id, its serial, the speaker it was made
  for and its coordinator's serial belong together (an id that is a serial is its
  own speaker's), and that ids are unique. `AnswersInv` says the same of what waiting
  flows have found, and that the entry a flow reconfigures exists; `Origin`, that what
  a flow acts on was heard at its address, now or before it had to wait.
  `IssuesAreCurrent` is about the issues that are open, not about those that should
  be: a restart drops them. `AddressesAreTheirs` is about entries with a stored serial,
  and admits a speaker that reports none, as the code does. The many actions are first
  sorted into a few kinds of step (`StepKinds`), and the invariant and the refinement are shown
  for each kind.
- **MigrationProofs**: `MigrationTypeCorrect`, `IdsStayUnique`,
  `RegistrationsAreKept`, `ProvidedStaysOwn`, `MigrationCompletes`. `ProvidedIsOwn` is
  inductive with the types, and `Completes` follows from them; the other two need
  more. `EntitiesInv` and `DevicesInv` say what a registry may hold: ids are the entry's speaker's, a serial
  only if it is known, unique, and nothing new beside what was there. They hold of
  memory and of disk separately, as a crash makes one the other and may pair any
  two moments of different files. `UpInv` says that an entry which is up looks for
  its entities and devices where they are, from its set-up until it is unloaded,
  although its speaker may tell its serial, and other entries may migrate, while
  its platforms are still adding entities.

Only model-checked: all liveness (the properties of the runs that need fairness),
which is beyond the prover. Every other property of the passing runs is a theorem.
`ImplementsTenures`, `ClientsTakeTenures` and `ShownIsTold` are the subjects of theorems
that no run lists; TLC can check them too, as a `PROPERTY` (the last as an `INVARIANT`) in
`coordinator.cfg` and `group.cfg`.

## 6. What is external

Home Assistant is not in the repository. These parts are modelled from how the
integration uses them: the `DataUpdateCoordinator` (a refresh remembers data and
success first; with `always_update=False` it tells its listeners only of a change;
`async_set_updated_data` restarts the timer), config entries (a lock per entry,
retries after `ConfigEntryNotReady`, scheduled reloads that do nothing to a
disabled or removed entry), the dispatcher (callbacks run at once), the device
registry (a removed entry's devices go), and service calls (they leave out
unavailable entities). The speaker and the network are external too.

Home Assistant's flow manager (a flow aborts when another has its id; creating an
entry ends those flows and replaces an entry with the id) and its entity and device
registries are external in the same way.

Not modelled:

- durations, and so the "about 16 seconds" of a command to a silent speaker
  (`client.py:52`), which leaves out how long it waits for a poll that has the lock;
- a failing unload of a platform: Home Assistant gives such an entry up until it is
  restarted, and what is left is not this code's doing;
- the Lovelace cards: they keep nothing but what they last drew, every update draws
  Home Assistant's states afresh, and every click is one service call (two quick
  clicks on a toggle send the same command twice);
- types and decoders of the library that nothing uses, texts with code points above
  2047, ports (part of an address), form validation;
- logging, wording, diagnostics, and the development scripts.

`PROJECT.json` gives each part's status.

## 7. Plan

Done: `Client`, `DeviceLink` and their refinement; `Coordinator`; `GroupOwner`;
`GroupCommand`; `SpeakerEntries` with its abstract book; `Migration`; `Wire`; the
proofs of section 5, which cover every safety property the runs check; the abstract
`Tenures` with the two refinements that join `Client` and `GroupCommand`.
