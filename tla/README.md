# Formal model of moonraker-pinozcam

PiNozCam watches a Klipper print with a camera. It samples frames, runs a
failure detector over them, and when enough of the last seconds' frames show a
failure it pauses or cancels the print through Moonraker and tells the user on
Telegram, Discord and a web page. The package is `src/moonraker_pinozcam/`;
the inference daemons are C++ programs under `src/src/`.

This directory holds TLA+ modules of its control logic, TLC configurations
that check them on small instances, and TLAPS proofs of all safety
properties and refinements they check, for every instance. `PROJECT.json` maps every definition to the source
lines it translates.

    tlc -workers 2 -config Lifecycle.cfg PrintLifecycle     # one check
    tlapm FrameBufferProofs.tla                             # one proof file

## 1. The system

### Threads

| thread | started by | what it does |
|---|---|---|
| main | process | starts everything, waits for the connection, makes one check of the printer, waits for a signal |
| WebSocket | `MoonrakerClient.start` | reads notifications, merges them into `client.state`, calls `on_state_change` |
| detection | `Detector.start` | `_run`: set-up, then loops: refresh settings, take a frame, infer, judge, act |
| sampler | `Detector._run` | reads the camera's slot, decodes, scores sharpness, offers the frame to the buffer |
| frame source | `framesource` | reads an MJPEG or snapshot stream into a slot that holds one frame |
| Telegram poller, handler pool | `telegram_bot` | updates, each handled on its own thread |
| Discord gateway, command worker | `discord_bot` | one connection; commands and buttons, urgent ones first |
| web server, a thread for each request | `web` | settings, zone, pages, streams, camera proxy |

### Components

| component | state it keeps | operations | talks to |
|---|---|---|---|
| failure window (`window.py`) | deque of verdicts, warm-up clock, frame counter | `add`, `decide`, `reset`, settings | called by the detection thread |
| candidate buffer (`framebuffer.py`) | candidates, epoch, closed flag, a condition variable | `put`, `take`, `bump_epoch`, `clear`, `close`, `reopen`, `depth`, `should_measure` | sampler puts, detection thread takes |
| detector (`detector.py`) | its threads, cached settings, buffer, latch `_fired_level`, undetect zone | `start`, `stop`, `_refresh`, `_consume`, `_score`, `_sample` | window, buffer, backend; calls `on_failure`, `on_camera_lost` |
| failure handling (`__main__.py`, `notify.py`) | alert counters, mute, `camera_alerted` | `on_failure`, `alert`, `new_print`, camera notices | Moonraker REST, both transports |
| confirmations (`confirm.py`) | one token per channel and action, scope | issue, consume, drop, new scope | transports' threads, `new_print` |
| print lifecycle (`__main__.py`, `moonraker.py`) | `client.state`, `previous`, the socket | connect, receive, merge, `on_state_change`, startup check | starts and stops the detector |
| frame sources (`framesource.py`) | slot, sequence number, connection | publish, `wait_next`, errors, close | sampler, web proxy |
| configuration (`config.py`) | values, generation, file stamp | load, save, reload | everything reads it |
| inference backend (`nozcam_backend.py`) | daemon process, request ids, back-off | start, handshake, infer, restart, fall back to CPU | daemon over pipes |
| undetect zone (`mask.py`) | polygon, signature of the scene | save, match, suspend | detector, web |
| multipart parser (`mjpegstream.py`) | buffered bytes | feed | frame sources |
| Telegram (`telegram_bot.py`) | offset, back-off | poll, dispatch, send | notifier |
| Discord (`discord_bot.py`) | session, heartbeats, two bounded queues | identify, resume, dispatch, send | notifier |
| web page and proxy (`web.py`) | latest frame, waiters, proxy slots | handlers, `FrameHolder` | all |
| daemons, post-processing (`src/src/**`) | model session | infer, decode boxes | backend |
| CPU selection, credentials, drawing, frame store, packaging, install scripts | none that is shared | - | - |

### Which behaviours are hard, and what makes each component correct

* **Window.** Entries age out at one end while settings, resumes and new prints
  reset it. Correct: the verdict of every frame is the one the full history
  gives.
* **Buffer.** Producer, consumers, ageing, capacity, epochs and a condition
  variable. Correct: bound and epoch kept, the best usable frame taken, a
  usable frame dropped only for better ones, no wake-up lost, none asleep on a
  closed buffer.
* **Pipeline.** Saving settings replaces the buffer or bumps its epoch while the
  sampler holds a reference to one and an epoch of it. Correct: criteria are
  never mixed, and frames go on being scored.
* **Episode.** The verdict, the latch, the request to Moonraker, the quota and
  the sends fail independently while the user pauses, mutes and saves. Correct:
  one action per episode, failed actions retried, the quota of failure alerts
  kept per print.
* **Lifecycle.** Notifications are lost with the connection, or never ordered;
  `stop()` gives up after 15 s; set-up fails; two threads call `start()`; a
  request to the printer names no print. Correct: a print is watched, an idle
  printer is not, nothing judged in one print counts in another, and the handler
  asks only for the print that was judged.
* **Confirmations.** Taps on several threads and two channels, expiry,
  replacement, a new print. Correct: single use, and only for whom, what and
  when it was offered.
* **Backend.** The daemon crashes, hangs, answers late or is refused its start,
  and another thread stops it between the two locked halves of one call.
  Correct: an answer is the one to this frame under these settings, no daemon
  is left behind, a failing one is replaced until one works.
* **Frame sources.** A reader, its waiters and `close()` share one slot. Correct:
  a waiter gets the newest frame, none twice, none from before a failure and none
  that came after the close, unless its call was under way; a failed camera is read
  again, a closed one let go.
* **Configuration.** Request threads rewrite the file, readers parse it without
  the lock, an editor outside saves at any time. Correct: nobody's change is
  written over, and what the file says at last is what the detector uses, as far
  as it looks during a run.
* **Undetect zone.** A zone, the signature it was painted under and the camera
  change apart from each other. Correct: once they rest, the zone is applied
  exactly if it fits.
* **Chat.** A gateway that loses connections, is refused an intent or a token,
  and resumes; two bounded queues with one worker. Correct: it comes back,
  controls go first and are run, and all threads end when stopped.
* **Live view.** The detection thread publishes; request threads fetch pictures,
  overwrite each other's results and send. Correct: a stream gets the failure
  pictures published while it is open, or a newer one, comes to show the camera as
  it is, and slots come back.

The hazards in `PROJECT.json` list each of these at its line, with the property
that would catch it, or with the reason why none does yet.

## 2. Modules and the code

`Composition` here is by contract: each module leaves free what another one
decides, and says which. FrameBuffer's selection and ageing are free in
FramePipeline; FailureWindow's verdict is free in Episode and PrintLifecycle;
PrintLifecycle's connection and time-outs are left out of Episode.

### FailureWindow (`window.py` and its callers in `detector.py`)

`entries`, `startedAt`, `frames` are the three fields; `Judge` is `add` followed
by `decide` in `_score`, each with its own clock reading and its own pruning;
`Refresh` is `_refresh`'s effect on the window; `Start` is `Detector.start`.
`log` is a history variable. Ratios are in tenths, so the comparison is exact
integer arithmetic instead of floating point.

### FrameBuffer (`framebuffer.py`)

Every operation. The condition variable is each consumer's phase: `idle`,
`waiting` (in `wait`), `notified` (woken, lock not yet taken again). `Take` is
one pass of `take`'s loop under the lock, so a consumer that was notified may
find the buffer empty again, or its deadline over. `BeginGrab` is the producer's
reading of `epoch` before it decodes. Two captures never have the same time: one
thread reads the camera, on a monotonic clock.

### FramePipeline (`detector.py` threads, the slot of `framesource.py`, `config.py` generations)

The sampler's four steps are apart (`WaitNext`, `PinBuffer`, `ReadEpoch`,
`Offer`), and so are the two halves of `_refresh` (`RefreshBuffer`,
`RefreshCriteria`), because the other thread runs between them. A frame is the
version of the criteria in force when its decoding began.

### Episode (`_score`'s latch, `on_failure`, `notify.alert`, camera notices)

`step` is the program counter of the detection thread in the handler; `Verdict`,
`CheckPrinting`, `Act`, `Alert`, `Send` are the places between which another
thread can run. `run` is `stopping` while `stop()` waits: the WebSocket thread
is inside `stop()`, so no further state change is handled, but the user's
saves and mutes are. `wentOut` counts the failure alerts that reached a channel:
camera notices, which the code wants outside the budget (`detector.py:486`), use it
up and are not counted against it.

### PrintLifecycle, PrintGuard (`moonraker.py` reader, `on_state_change`, startup, thread life)

The printer's job and the queue of messages in the socket are apart from what
the client has `seen`. `Connect` is the subscribe reply, told to the handler
unconditionally; one that is an error is taken for a reply without values, which
leaves the client deaf: connected, with the state of before, and told of Klipper's
restarts only. `Receive` is `_handle` and `_apply`; `Retell` stands for the events
that leave the phase as it is. `OnStateChange` is the handler; `start()` is its
test for a live thread (`StartLooks`, `MainLooks`) and the creation of a new one
(`StartCreates`, `MainCreates`), which the handler and the main thread may both be
at; `Joined` is the end of `stop()`, by the thread's end or after 15 s.
The thread's stages are those between which it looks at `_stop` or at
`client.state`. The handler's look at the state (`Check`) and the request to
Moonraker (`Request`) are two steps, between which the printer, the client and
`stop()` go on; a request names no print and hits the one the printer then has.
Job numbers are history: the code sees phases.

PrintGuard is the promise to the owner of the printer, without threads, queues
or connection: one print is guarded at a time, only its frames are evidence, it
begins without any, the printer is asked to act only for the guarded print and
only with evidence of its own, and whatever is hit is hit by such a request, which
finds the print that is there (`PrinterGoesOn` may change that meanwhile).
PrintLifecycle implements it: the print guarded is the one of the last
`new_print()` (`scope`), the evidence the prints whose frames are in the failure
window, a request under way is one that `Ask` began and `Answered` ends, and the
promise is excused from a mishap (a lost or deaf connection, a stop that timed out,
a start by main's own check) to the next `new_print()`, after a crossing of two
`start()` for good.

### Confirm, MCConfirm (`confirm.py`, the handlers in `notify.py`)

`tokens` is the store, `offers` and `fate` remember every nonce ever made.
`Press` (check of the printer's state) and `Issue` are two steps, as are the
claim of a Yes, the second check, and the request to Moonraker. The nonces are
numbers, since a random nonce is only ever compared. `NewPrint` comes some time
after the status update that causes it. MCConfirm makes the Telegram handler
threads symmetric; symmetry is sound there because that run checks only safety
and the threads are never told apart by anything but identity.

### NozcamBackend, InferenceService (`nozcam_backend.py`, `Detector.stop`)

InferenceService is the promise: a call names a frame and settings and ends
once, with the result for exactly these or with an exception. NozcamBackend is
the client and the daemon process with its two pipes, and implements it with
the same two variables, `call` and `result` (the mapping is the identity on
them; everything else is hidden).

`thread` is the detection thread. `ensure`, `between` and `failed` are where it
is in `infer()` without the lock; in `spawn`, `send` and `await` it holds it,
through the whole of a start (`stage` ping, info, warm-up) or for the frame
itself. `ExchangeFails` is the one place for a write or read that times out, a
closed pipe, an error status and a reply that does not validate: in a start it
leads to `StartFails`, the CPU fall-back included; in a frame it counts the
failure and, in a second step, stops the daemon. `stopper` is the WebSocket thread in
`Detector.stop`; its teardown waits for the lock and drops the reference in a
step of its own. `kind` joins `_kind` with whether the accelerator was found or
named: `backed` is one with the CPU behind it (`_may_fallback_to_cpu`), `alone`
one that was named, or a `bpu`, which has none even when it was found. `faulty` is
the environment: daemons fail in any way until `Heal`, and after it only the
start of an accelerator that is backed may still fail. `intruded` is history: a call begun
after `_stop` was set.

### ConfigFile (`config.py`, `_refresh`'s use of it)

`reload_if_changed` is `Poll`, `Parse` (without the lock), `Install`;
`write_options` is `BeginSave` (lock, read, put in), `Replace` (one rename),
`Reopen` (`_cp` is an empty parser now), `Reread`, `Stamp`. `Compare` and
`Apply` are `_refresh`, which takes over the options in `Live`; those in `PerRun`
come with the next run (`SetUp`: the camera), and what is in neither is read once
in the life of the service (`ai_backend`, `ai_start_delay`) or by others
(`mask_signature`). `BeginEdit` and `EndEdit` are a save from outside, which
may be seen half done (`torn`); a torn file reads as a part of itself or does
not parse. `asked` is history: what the last save of each option asked for.
`crossed` and `blind` mark the two moments in which an outside save can defeat
the code: while a request holds lines it read before, and between a request's
read and its stamp. Both are excepted by name in the properties.

### UndetectZone, MCUndetectZone (`mask.py`, `save_mask`, `save_settings`, `_check_mask_fits`)

EXTENDS ConfigFile and uses it by its actions only: the settings page is the
writer `settings` (one save for each section of a request), the zone editor the
writer `mask`. The option `detection` stands for those of that section that are
live, all but the two named above; `camera` for its section without the zone. A zone goes by the scene it was painted on and a scene by its
signature; `Geometry` is what a signature of an old release names.
MCUndetectZone gives the two scenes and the files to start with.

### FrameFeed, FrameSource (`framesource.py`, `camera.build_frame_source`)

FrameFeed is the promise to a waiter; of a waiter in `inside` the call has gone too
far to be called off by a close. FrameSource is the three
readers in one module: `kind` follows from what the camera's addresses answer.
A stream's reader has a step wherever another thread can run: `Connect` (after
the look at the stop flag), `Connected`, `Chunk` (the flag again), the parts,
`Publish`. A file has no thread: `Tick` is the clock, which does not stop for
`close()`, and a waiter looks whether it is closed (`LookAtFile`) before it reads
the clock (`NumberFile`), without the lock. `close()` is `CloseSlot`,
`SetStop`, `Interrupt`, `Join`. The mapping to FrameFeed takes `sequence` for
the newest frame and `failed`, a history variable, for the newest at the last
failure.

### DiscordGateway, TelegramPoller, ChatChannels (`discord_bot.py`, `telegram_bot.py`, `Notifier.start` and `stop`)

DiscordGateway is the gateway thread with its connection (`wire` says how far
HELLO, IDENTIFY or RESUME and READY have come), the two queues by their lengths,
and the worker. `Closed` is `_closed`: fatal codes, which a client may or may
not see, a refused intent, everything else. Messages that the `recv` under way
at `stop()` has read are still handled. `account` is what Discord and the
installation have for this bot, the WebSocket library included. TelegramPoller is `_poll` with its
count of failures. ChatChannels EXTENDS both and adds the main thread, which
starts them in order and stops them; the Telegram bot's `start()` is taken
apart, because its thread runs before `running` is set.

### LiveView (`FrameHolder`, `/stream`, `/snapshot`, `/camera`)

One place per point of a request thread at which another can run. `latest` is
`Ask`; `wait_newer` is `SendAnnotated`, `WaitOrLook`, `KeepAlive`; `_live` is
`ShowCached`, or `Fetch`, `FetchEnds` and then the fields it writes without a
lock, `WritePicture` and `WriteFlag`, and the picture it returns, which is the
cached one of that moment. `/camera` is `Acquire` to `Release`; `orphan` is a
thread whose browser has gone. `since` is history: the number published last when a
stream was opened. `visitors` are the threads that browsers turn to: a viewer and a
`/camera` thread share only the camera and the stop flag, so the run lets them in
apart (`Visits`).

### The proof modules

FrameBufferProofs, ConfirmProofs, NozcamBackendProofs and FrameSourceProofs are
about the module of that name. The others are about one part of the program
each, and extend two modules that share nothing but that part: DetectionProofs
(FailureWindow, FramePipeline), GuardProofs (Episode, PrintLifecycle),
SettingsProofs (ConfigFile, UndetectZone) and UserSideProofs (ChatChannels,
LiveView). Therefore the definitions every module has are named for their module
there: `WindowSpec`, `PipelineSpec`, `EpisodeSpec`, `LifecycleSpec`, `ViewSpec`.

## 3. The runs

All bounds are constants named in the modules. In the runs below "new" means
what the bound lets happen that a smaller one would not.

| run | states | what it shows | why the bounds are enough |
|---|---|---|---|
| `failure_window` | 51k | `VerdictIsReference`: pruning, two clock readings, resets and settings changes never give another verdict than the whole history | four frames over five ticks with count times 1 and 3: entries age out while others stay, the window is refilled after a reset, and the clock moves between `add` and `decide` |
| `frame_buffer` | 10k | `NoLostWakeup`, `TakesBestEligible`, `EvictsOnlyWhenFull` | two consumers and two places: one wake-up can be stolen, eviction happens, and captures outlive MaxAge |
| `frame_pipeline` | 63k | `ScoredBegunUnderCriteria`, and `ScoringContinues` under fairness | two saves: a second one can hit between the halves of the first, and two buffers are swapped under the sampler |
| `episode` | 191k | `QuotaPerPrint`, `ActsOncePerEpisode`, and `ActionIsRetried` under fairness | all three actions, a quota of one with an interval; the counter goes one past the quota, so that a further message would show |
| `lifecycle` | 792k | that PrintLifecycle implements PrintGuard (`ImplementsGuard`), `ActsOnJudgedPrint`, `WindowIsOnePrint`, `ScopeIsThisPrint`, and `PrintIsWatched`, `IdleIsReleased` under fairness | three scenarios: `stop()` times out and set-up fails; the connection breaks anywhere and its subscription is refused; the service starts mid-print, with that too. With two jobs a thread left over from the first can meet the second, and one can end and the next begin unseen; with two messages in the socket the client can be a whole job behind |
| `confirm` | 1.4M | `SingleUse`, `StoreIsOpenOffers`, `ClaimIsEntitled` | three handler threads on two channels, two offers and two scopes: replacement, double taps, a tap across a new print; the theorems below cover the rest |
| `backend` | 57k | `DaemonReleased`, that NozcamBackend implements InferenceService (`ImplementsService`), and `Recovers` under fairness | two frames and two settings: a wrong one would show; ids wrap after two, sooner than any late answer could; three delays, the last one repeated |
| `settings` | 360k | `StampTellsTruth`, `SavesAreKept`, and `SettingsArrive`, `ZoneSettles` under fairness | two saves by page, zone editor or outside: each can fall between any two steps of another; two live options and one per run; two scenes; a file with no zone, an old signature, and none |
| `camera_feed` | 99k | that FrameSource implements FrameFeed (`ImplementsFeed`), and `StreamResumes`, `ClosedComesToRest` under fairness | two waiters on one slot; three frames, so that one is overwritten before and after a failure; two faults, and two invalid parts end a connection |
| `chat` | 18k | `ControlWaitsForOne`, and `ControlIsRun`, `GatewayRecovers`, `ChannelsComeToRest` under fairness | either channel or none: they share only the main thread, which starts and stops one after the other; two places in each queue, so that one can be full and the other not |
| `live_view` | 105k | `NewestIsSent`, `ViewSettles`, `SlotsComeBack`, `ServerComesToRest` under fairness | a stream and a snapshot write over each other's fields; two annotated pictures, so that one can take the other's place, published at any moment of either; in behaviours of their own two browsers for one proxy slot |

`ActsOnJudgedPrint` has two parts. What the handler asks for is the print that was
judged: even when `stop()` times out nothing is started while the old thread lives,
so `_stop` stays set and a late result is discarded; and between a verdict that
counts and the handler's look at the state nothing is slow, so `stop()`, which keeps
the WebSocket thread from reading the next event, waits for it. (During an inference
`stop()` does not return at all: its teardown stops the backend, which needs the lock
the inference holds; see `Overdue`.) It holds as long as no event was lost. What is
hit is that print too, unless events were unread at the look, or had been lost, or
the print ended while the request was under way, which may take 20 s and outlive
`stop()` (`acted.late`): nothing in a request says which print it is for.

`WindowIsOnePrint` and `ScopeIsThisPrint` exclude the time from a timed-out
`stop()`, a lost or deaf connection or a start by main's own check to the next
`new_print()` (history variable `mishaps`), and everything after a crossing of two
`start()`. After a time-out a new print can find the old thread alive and get none
of its own; if it is then paused and resumed, it is taken for the old print, with
its window and scope.

One run is expected to be violated: it states what a comment says and finds that
the code does something else.

| run | the statement | what happens |
|---|---|---|
| `episode_lost_alert` | an alert that reached no channel is not counted as sent (`notify.py:440`, `__main__.py:223`) | `_within_budget` counts before the send and nothing gives it back: with a quota of one the failure is never reported |

### Observed, without a run of their own

* A request to pause or cancel names no print. The handler's look at the state
  (`__main__.py:176`) is at what the client has read: a print whose end is still in
  the socket, or that ends within the request, is not found out, and if the next has
  begun by then it is that one which is hit.
* "The subscribe reply carries current values, so state is correct from the first
  moment" (`moonraker.py:218`): a reply that is an error is taken for an empty one
  (`moonraker.py:228`). The client counts as connected, hears of no print from then
  on, and nobody subscribes again before the connection breaks; a detection thread
  of before goes on, whatever the printer does.
* The camera notice is "Deliberately outside the normal alert budget"
  (`detector.py:486`), but `__main__.py:256` calls `alert` with the default
  `budgeted=True`: with the quota used up it is suppressed (Episode's
  `CameraNotice` has that outcome), and each one sent takes the place of a failure
  alert. `QuotaPerPrint` therefore counts failure alerts only.
* An episode is latched "only ... when something actually happened"
  (`__main__.py:220`), but `on_failure` returns None when the printer was paused
  meanwhile, None is not False, the level is latched, and after the resume the
  failure goes on unpaused. `ActionIsRetried` excepts the time off.
* "Start and stop detecting with the print." (`__main__.py:261`): `stop()` gives
  up after 15 s; if the next print begins while the old thread is alive nothing
  is started, and no later event starts it. `PrintIsWatched` excepts the overrun.
* `reload_if_changed` promises that an edit is at most delayed
  (`config.py:64-71`). An outside save between a request's `read` and its stamp
  is loaded only with the next save (`blind`), and one between its reading of
  the lines and the rename is written over (`crossed`).
* Between `Reopen` and `Reread` every thread that asks for an option, without the
  lock, gets its default. `SettingsArrive` says that this passes; a `_refresh`
  that falls into it applies the defaults until the stamp.
* Removing a zone while it is suspended leaves its warning on the page
  (`detector.py:402` returns before the warning is taken back). And a zone saved
  while the camera cannot be reached keeps the signature of the one before
  (`web.py:894`), although the signature is meant to be "Recorded WITH the mask".
  `ZoneSettles` therefore speaks of the file's signature, whosever it is.
* A connection to Discord that drops between IDENTIFY and READY is taken for a
  refused intent, and typed commands stay off for good. With the intent given up
  no later IDENTIFY counts as refused, so the branch of `_closed` that gives up
  after repeated rejections is never taken (theorem `NeverGivesUpByCount`): a
  bot with a wrong token whose close code is not seen goes on connecting. The
  message's "save again to retry" has no counterpart either: `Notifier.start` is
  called once.
* A stream that is opened is first sent the last annotated picture, however old
  (`wait_newer`, `web.py:151`); `latest` promises not to (`web.py:88-92`).
  `NewestIsSent` does not ask for that picture, only for those published while the
  stream is open; from the second picture on the stream is right, as `ViewSettles`
  says.
* `ai_start_delay` and `ai_backend` are "read once per run" and "take effect at the
  next print" (`detector.py:60-61`, `510-511`), but only `Detector.__init__` reads
  them: a change waits for the next start of the service.
* A waiter that has looked whether a file's source is closed reads the clock without
  the lock (`framesource.py:576-583`) and may get one picture numbered after
  `close()`. FrameFeed allows it to a call under way.
* "Accelerator packages also own their board's aarch64 CPU fallback"
  (`nozcam_backend.py:465`), but a `bpu` that was found does not use it
  (`nozcam_backend.py:688-692`): it is started again for ever instead.
* The warm-up counter of the window never forgets: after an outage or a long
  pause one frame can decide, although the window holds only that frame. The
  code's comment asks for a minimum of frames since start, which it keeps.
* The sampler reads the epoch after it has the frame: a picture captured before
  the criteria changed, decoded after, is scored under the new ones.
  `ScoredBegunUnderCriteria` therefore speaks of the start of the decoding.
* `_score` reads the action to latch and `on_failure` reads it again to act
  (`detector.py:670`, `__main__.py`): a save in between latches a level that
  did not run. `ActionIsRetried` and `ActsOncePerEpisode` except that step.
* A print that ends and another that begins while the connection is down look
  like one print to the handler, with one window, scope and quota. The
  properties about a print's identity except a lost connection; the one that
  says who is watched does not.
* After a thread died in set-up, a repeated `printing` event starts a new one
  and, if the previous state was not `paused`, calls `new_print()` again.
* Nothing keeps the WebSocket thread out of `start()` while main is between the
  test for a live thread and the creation of the new one (`detector.py:115`,
  called from `__main__.py:331`), although the method is called "Safe to call when
  already running.": two detection threads then run at once, `_thread` is one of
  them and only that one is ever waited for. And a print that ends between main's
  look at the state and the thread's creation leaves a thread without a print. The
  model has both (mishap `crossed`) and the properties except what follows.
* A start that gets through its warm-up counts as a success and clears the
  failure count (`nozcam_backend.py`, `ensure_started`): an accelerator that
  starts but fails on every frame is restarted with the first delay for ever,
  and never replaced by the CPU. `Recovers` speaks of the time after the faults.
* A detection thread that comes out of a send more than 15 s after the stop goes
  on to `infer()`; if the teardown has stopped the backend and not yet dropped
  it, a new daemon is started that nobody stops. `DaemonReleased` excepts just
  that (`intruded`).

### Assumptions of the models

* Episode: the client is connected and `stop()` is in time. PrintLifecycle has
  both otherwise.
* Confirm: every change from idle to printing is followed by `new_print()`;
  PrintLifecycle says when that is so.
* PrintLifecycle: Moonraker keeps a subscription over a restart of Klipper. A change
  that is reported in two messages (`print_stats.state`, `is_paused`) changes the
  phase with one of them and is a `Retell` with the other.
* ConfigFile: a modification time grows with every save (two saves within the
  clock's resolution of the file system would look like one).
* DiscordGateway: a command ends at last; what a command does is Confirm's.
* LiveView: requests that arrive while the server is shutting down are refused.
* NozcamBackend: one detection thread; `stop()` on the same detector comes once.
  A daemon does one thing at a time and never answers unasked.
* One step of Python code between two shared reads is atomic; fields read under
  a lock are read together.

### Fairness

* FramePipeline: weak fairness of both threads' steps (operating-system
  scheduling); strong fairness of the camera's frame being read, of a usable
  offer and of a candidate being taken, which says that the camera keeps
  delivering and not every frame is undecodable. If it does not, there is
  nothing to score.
* Episode: while the failure lasts, the thread goes on judging it (fairness of a
  judgement with either outcome would force a latched failure to clear, since
  judging it again changes nothing); strong fairness of `Act(TRUE)` and
  `Send(TRUE)`: a service asked again and again answers at last. This is the
  most one can ask; the properties say that the program does ask again.
* PrintLifecycle: weak fairness of each thread. The client's reconnect loop has
  no end, and every slow call has a time-out of its own, so both hold. The
  connection may break infinitely often; `PrintIsWatched` and `IdleIsReleased`
  demand an outcome only if the printer stays as it is and there is, at last, a
  connection that is subscribed.
* NozcamBackend: weak fairness of the detection thread, of the teardown, of time
  and of the daemon's answer; every wait for a pipe has a deadline. Nothing says
  that a daemon answers well before `Heal`, so `Recovers` is premised on
  `<>~faulty`.
* ConfigFile, UndetectZone: weak fairness of the detection thread, of requests
  that have begun, of an editor's save that has begun, and of frames arriving.
  Nobody has to save: the properties speak of the time after the last save.
* FrameSource: weak fairness of the reader and of `close()`; strong fairness of
  the end of a chunk and of a picture being received, which says that a camera
  asked again and again delivers. Faults are bounded, so they end.
* ChatChannels: weak fairness of each thread; strong fairness of Discord's part
  (a connection, HELLO, READY or RESUMED, the refusal of a bad token), which may
  fail any finite number of times in a row. `GatewayRecovers` asks for it only of
  a good token and an installation that has the library. It takes for granted that a
  connection on which Discord never says HELLO breaks at last: the code has no
  time-out of its own for that.
* LiveView: weak fairness of each request thread, whose calls to the camera have
  time-outs, and of time passing. Writing to the browser has no time-out, so this
  assumes that a write returns: a browser that stops reading without closing keeps
  its thread, and its proxy slot, and is outside `SlotsComeBack` and
  `ServerComesToRest`. Nobody has to publish, ask or leave;
  `ViewSettles` is premised on a camera that stays as it is.

CHECK_DEADLOCK is off where the bounded system has nothing left to do: with the
last job over, the last offer or save used, detection, a source or the service
stopped for good.

## 4. The proofs

For every value of the constants, from the named assumption each module makes of
its own (`WindowAssumption`, `EpisodeAssumption`, `FileAssumption`, ...): finite
sets of threads, positive capacities, natural numbers, a set of settings that is
not empty. No theorem has a hypothesis besides these and the specification. Each
proof is the same argument: an invariant that is inductive, one step for each action
that can disturb one of its parts, and the property from the invariant. Every
invariant below was checked by TLC on the runs' instances before it was proved.

**FailureWindow.** `WindowTypeCorrect`, `WindowIsEndOfLog`, `VerdictIsOfHistory`.
`VerdictIsReference` is an action property over two states of the deque, and
nothing in it says what the deque holds. `WindowInv` does: the log is in order of
time and not of the future, the deque is its end (`EndOf`), and what was dropped
is older than any cutoff still to come (`OldBefore`). The last part needs that
the clock does not go back, and it is what a longer `count_time` would break, did
`_refresh` not reset the window with it. The lemmas show that dropping old
entries from the front of an end of the log leaves the entries in time as they
were, and that their number, on which the ratio depends, is the log's.

**FramePipeline.** `PipelineTypeCorrect`, `ScoredUnderOwnCriteria`,
`HeldUnderCriteria`. `ScoredBegunUnderCriteria` speaks of the moment of scoring
only. `PipelineInv` follows a picture to it: in flight (`InFlightIsCurrent`: if
the epoch the sampler holds is still the one of the buffer in use, the criteria
have not changed since), in the buffer, and taken (`HeldIsBegunUnderCriteria`).
That a new buffer is empty, and an epoch never comes back, needs the counts of
buffers and epochs (`BuffersAreCounted`), which also bound them by the saves.

**Episode.** `EpisodeTypeCorrect`, `QuotaIsKept`, `ActsOnce`. `QuotaPerPrint`
compares the failure alerts that went out with the quota and says nothing of one
that is allowed and not yet sent; `QuotaIsSpentFirst` adds that it is counted
already, so a print cannot send one more by being paused in between. `ActsOncePerEpisode`
needs that everything carried out is latched, or will be when the handler
returns (`DoneIsLatched`), that the handler is only entered above the latch
(`HandlesHigherLevel`), and what a save between the verdict and the action does
(`SavedSinceJudged`). The attempt corrected the model's type of `want`, which is
0 (nothing) also where that is not among the actions the user chooses from.

**PrintLifecycle, PrintGuard.** `LifecycleTypeCorrect`, `ActsOnThePrintJudged`,
`WindowHoldsOnePrint`, `ScopeIsOfPrintWatched`, `NeverTwoThreads`,
`DetectsWithThePrint` and `LifecycleImplementsGuard`. The invariant is
`LifecycleInv`; all but its types holds until two `start()` cross (`NotCrossed`).
Its parts are the facts the comments of the code rely on:

* `EventsInOrder`: while the client is connected and subscribed, the queue in the
  socket leads from the state the client knows to the printer's, one legal change
  after the other; so between two prints the client always sees an idle printer.
* `OneThread`: only the thread in `_thread` can be alive, however `stop()` ended.
* `StartsThePrint`: whoever is inside the handler's `start()` starts the print that
  is seen, and meets no thread but main's.
* `WaitsForVerdict`: a thread that was told to stop during an inference, or between
  a verdict and the handler's look at the state, is waited for, so the state the
  client knows cannot change under it. Together with `JudgedIsSeen` this is why a
  late verdict is never asked to act on the next print (`AskedIsJudged`), even when
  `stop()` times out. `HitIsJudged` follows it through the request, as far as the
  request is not late.
* `StopsWithPrint`, `PreviousIsSeen`: between two events no thread that was not
  told to stop is without a print, and `previous` is the state last seen; a job
  cancelled while paused cannot be taken for a resume.
* `PrintIsScoped`: without a mishap, scope and window are the seen print's.

`NeverTwoThreads` says that nothing crosses, and at most one thread lives, wherever
only the handler starts detection; that main's `start()` may cross the handler's is
in the model, and there the theorem would be false. `WatchInv` adds that a thread
that was told to stop is being waited for, for
`DetectsWithThePrint`: after every event handled there is a detection thread
exactly if the client believes in a print, unless set-up failed, a stop timed
out or two `start()` crossed. It is the part of `PrintIsWatched` and
`IdleIsReleased` that is not about time.
`GuardInv` adds that a thread on its way to ask has counted its frame
(`VerdictIsCounted`), for the refinement: the initial states are PrintGuard's,
and each action is one of its steps or changes nothing that it sees. A new
print is `Begin`, a judged frame `Count`, the handler's decision `Ask`, the end of
the request `Answered`, and a job of the printer's `PrinterGoesOn`; a lost or deaf
connection, a timed-out stop and main's start are `Mishap`; after one
anything may happen to the evidence and the requests until the next `Begin`, and
only `Begin` changes the print that is guarded.

**LiveView.** `ViewTypeCorrect`, `SlotsAreOfThreads`, `StreamsGoForward`. The
slots in use are the cardinality of the threads between `Acquire` and `Release`;
so no path through `/camera` loses one, and the clamp in the code at zero never
acts. `ViewInv` adds that a thread that is about to send has a picture,
although others write the fields it reads (`PicturesAreThere`), and that no stream
has been sent a number that is not published (`SentIsPublished`), from which
streams never go back.

**FrameBuffer.** `TypeCorrect`, `CapacityKept`, `OnlyCurrentEpoch`,
`CapturesAreDistinct`, `ClosedWakesAll`, `WakeupsAreKept`, and the action
properties `BestIsTaken` and `EvictionIsFair`. `Bounded` alone is not
inductive: that eviction removes one candidate needs that `Worst` is not empty,
which needs finiteness and that no two candidates tie (`DistinctCaptures`).
`NoLostWakeup` counts: the candidates held are at most the consumers notified,
as long as somebody waits; each action changes both counts by at most one, and
the lemmas say how the cardinalities of `Waiting` and `Notified` change.

**Confirm.** `TypeCorrect`, `ConfirmsOnce`, `StoreIsExact`, `ClaimsAreEntitled`.
The inductive invariant is

    IInv == TypeOK /\ StoreIsOpenOffers /\ ClaimsAreExclusive

`SingleUse` (no offer makes the printer act twice) says nothing of a thread that
is about to act, so it is not inductive. `ClaimsAreExclusive` adds that a nonce
between its claim and its call is used up, belongs to one thread, and has not
been called; that no thread can claim it again follows from the store holding
only open offers.

**NozcamBackend.** `TypeCorrect`, `StaysInStep`, `LeavesNoDaemon`, and
`BackendImplementsService`: every step of the client and the daemon is a step of
InferenceService or changes neither `call` nor `result`. The invariant is

    IInv == TypeOK /\ CallInv /\ PipeInv /\ StopInv

`InStep` says nothing of the time in which an answer is awaited, which is when a
wrong one could be read. `PipeInv` adds that the pipes then hold the request of
this call, or its answer under the settings of this daemon, or nothing;
`CallInv` that the live settings are the call's while messages are exchanged, whoever
stops what in between. So the result equals the call by construction of the
pipes and not by the comparison of ids, which the proof never uses: one exchange at
a time, with the process discarded after a failure, is enough, and the id is a
second line of defence. `StopInv` follows the teardown: without a late call the
thread is past the point at which it could start a daemon.

**ConfigFile, UndetectZone.** `FileTypeCorrect`, `StampIsTrue`, `NoSaveIsLost`,
`GenerationTellsAll` and, put together, `AppliedIsDisk`. The invariant adds to the
properties what each thread in the middle of its work knows: a writer that holds
lines holds what was asked for; a reader that has parsed under a time that is
still the file's has the file's values; between a writer's read and its stamp the
loaded values are the file's unless `blind`. `ZoneUsesFile` shows that every step
of the composition is one of ConfigFile or leaves its variables alone, so that
`ZoneFileIsTrue` follows from the theorems about the file without repeating them.
What the detector has applied is compared for the options in `Live` only: of the
others a run under way says nothing.

**FrameSource.** `SourceTypeCorrect`, `DropsCounted`, `SourceImplementsFeed`. That
the slot holds the newest frame or nothing, and nothing from before a failure, is
what has to be kept through `Clear`, `Publish` and the waiters; `DropsCounted`
needs that the frames given to waiters are those up to `lastYielded` that were
ever looked at, and how the cardinality of the overwritten ones grows. After the
close only a waiter in `inside` can see the clock go on, and it leaves with the
picture it gets.

**ChatChannels.** `ChatTypeCorrect`, `ControlsDoNotQueue`, `NeverGivesUpByCount`,
`PollingGivesUpLate`, `AlertsKeepTheirClient`. That the count of rejections stays
below its bound needs that the intent, once given up after the first of them, is
never asked for again (`IntentInv`).

**Only model-checked**: all liveness, since fairness and ENABLED are beyond the
prover. What a recursive definition computes for all inputs is beyond it too; the
modules proved about use none. `UndeliveredAlertIsRetried` is expected to fail. Every
invariant and every action property the runs check, and every refinement, is
proved.

## 5. Not modelled

* Of the components marked `partly` in `PROJECT.json`, what its note names.
* The multipart parser: a sequential function of bytes, shared with nobody.
* The order of the shutdown across components: the process ends right after.
* At all: pixels (annotation, placeholders, sharpness, image transforms),
  captions and status texts, HTTP routing and page contents, REST details,
  packaging and installation scripts, the vendored frame store (not instantiated
  by the program), vendor runtimes and tensors in the daemons.

## 6. Plan

1. **Theorems**: an abstract specification of the episode ("one action and one
   report for each level, retried until carried out"), implemented by Episode;
   safety that the liveness properties rest on, where it is still hidden in their
   runs (who may wait for whom at shutdown, which commands a full queue drops).
2. The facts about deques, cardinalities and updated functions that several proof
   modules state for themselves, in one place.
