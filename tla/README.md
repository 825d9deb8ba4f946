# Security Cam: TLA+ models, model checks and proofs

This directory models the parts of the NVR that are hard to get right and hard
to test: threads, callbacks and timers that share state with no lock, queues
that fill up, connections that fail, and things that must not be left behind.
The modules are translated from the source under `src/`; a comment at each
definition names the code, and `PROJECT.json` maps each definition to its lines.

## 1. The system

The NVR runs on a Raspberry Pi. Cameras send RTSP; an ffmpeg for each stream
posts it to the media server, which feeds the browsers and, delayed by some
seconds, the recordings. A recording is started by the motion service, by an
image that a camera uploads by FTP, or by an ONVIF pull point event. The web
back end starts and stops all this, controls cameras through ONVIF, sends audio
from a browser to a camera, and can offer the NVR through the Cloud's proxy. Its
client, an Angular application, shows the live streams and the recordings,
configures the cameras and moves them; a second one makes the first account.

| part | state it keeps | operations | interacts with |
|---|---|---|---|
| Media server, bucket brigade (`bucket-brigade.go`, `gop-cache.go`) | ring of packets, index, delay, GOP cache, list of feeders and their channels | `Input`, `CreateFeeder`, `DestroyFeeder`, `Get` | `POST /recording/:suuid` of ffmpeg, HTTP clients of `ServeHTTPStream` (the recording ffmpegs) |
| Media server, live streams (`streams.go`, `http.go`, `ffmpeg-feed.go`) | map of streams, the clients and the GOP cache of each | `addStream`, `put`, `removeStream`, `addClient`, `getGopCacheSnapshot`, `deleteClient` | ffmpeg of each camera stream, websockets of browsers |
| Media server, codec discovery and configuration | codecs by stream, configuration | `ffprobe`, JSON | feeds |
| Recordings service, HTTP (`camera-recordings-service.py`) | `recording_procs`, fifteen minute timers | `start_recording`, `end_recording`, `finish_recording` | motion scripts, pull point handler, ffmpeg |
| Recordings service, FTP (same file) | `processDict`, retrigger timers | `trigger_recording_from_ftp_file`, `finish_recording` | cameras' FTP clients, ffmpeg |
| Pull point event handler (`PullPointHandlerContainer.groovy`) | `timer` | `startTimer`, `PullPointEventTimerTask.run` | subscription thread, recordings service |
| Pull point subscription (`PullPointSubscriptionHandler.java`) | subscription, `terminate`, executor | subscribe, pull, renew, unsubscribe | camera, event handler |
| Audio to a camera (`UtilsService.groovy`, `RtspClient.groovy`) | `audioInUse`, `serverSocket`, `client`, `audioInputStreamCheckCount` | `startAudioOut`, `audio`, `audioFeedCheck`, `stopAudioOut` | browser, camera's RTSP server, ffmpeg on port 8881 |
| RTSP backchannel (`BackchannelClientHandler.groovy`) | protocol state, sequence number, authentication, keep-alive | OPTIONS, DESCRIBE, SETUP, PLAY, TEARDOWN | camera, `RtspClient` |
| Cloud proxy (`CloudAMQProxy.java`, `CloudProxyService.groovy`, timers) | `userSelectedRunning`, `running`, executors, connection, session timer, sockets by token | `userStart`, `userStop`, `start`, `stop`, `restart`, `onMessage` | Cloud's ActiveMQ, local web server, requests of the user |
| Onvif service (`OnvifService.groovy`) | device map, pull point monitors | discovery, PTZ moves and presets, masks | cameras, configuration |
| Camera processes and configuration (`Sc_processesService`, `ConfigurationUpdateService`, `CamService`, `MotionService`) | the cameras' file, services running | start and stop of the services, save of a configuration | every service |
| User administration (`UserAdminService.groovy`) | accounts, reset links and their timers | create, change, reset by link, guest account | mail, browsers |
| Camera admin page hosting (`CamWebadminHostProxy.java`, `CameraAdminPageHostingService.groovy`, its page) | the device hosted and for whom, the connections | get access, accept, list, close | browsers, cameras' web servers |
| Wifi (`wifi-setup-service/main.py`, `WifiUtilsService`) | none between requests | one `nmcli` command each | NetworkManager |
| Client: video and its feeders (`video-feeder.worker.ts`, `audio-feeder.worker.ts`, `MediaFeeder.ts`, `audio-stream.ts`, `video.component.ts`) | decoders, buffers, timeouts, stall timer, audio queue, sound settings and their cookie | messages, configure, restart, mute, volume | media server's websockets |
| Client: zooming and sizing (`VideoTransformations.ts`, `VideoSizing.ts`) | scale, offset, fingers; the size of the picture | wheel, mouse, touch, resize | pages with a picture |
| Client: audio to a camera (`AudioBackchannel.ts`) | recorder, websocket client, five minutes' timer | start, stop, audio data | `UtilsService` |
| Client: camera configuration (`config-setup`, `recording-setup`, `Camera.ts`) | the cameras being edited, the recording dialogue's form | edits, discovery, renumbering, save | Onvif service, configuration |
| Client: discovery failures and credentials (`onvif-failures`, `add-as-onvif-device`, `camera-credentials`) | devices not read, their controls, credentials, snapshots | retry, add, encrypt, snapshot | Onvif service |
| Client: recordings page (`recording-control`) | slots by date, the recording played, sound and speed | list, play, delete, download | back end |
| Client: multi camera page (`multi-cam-view`) | stream selected for each camera | select, resize | live streams |
| Client: cameras' own settings and PTZ (`camera-params`, `ptzcontrols`) | a form, the button held | load, update, restart, move, preset | cameras |
| Client: wifi, ad hoc devices and the cloud | three forms | requests | back end |
| Client: accounts, navigation, reports, idle timeout (`angular-user-idle`) | forms, menus, options in cookies, message shown, count down of each tab | requests, log off | back end, other tabs |
| Initial admin application | three forms | register, check | back end |
| Other pages, vendored and build files | none that another handler reads | | |

### What is hard, and what makes each part correct

* **Bucket brigade.** Index arithmetic modulo a ring whose delay is fixed once;
  feeders that come and go between any two packets. Correct if a recording is
  an unbroken run of packets from a keyframe on, at the delay of the start,
  and one connection's leaving does not detach another's.
* **Live streams.** Each call locks, the sequences of calls do not: handlers
  of two ffmpegs overlap, and a client registers, looks the stream up again,
  takes its snapshot and later deletes itself, in whatever stream the id then
  has. Correct if a client misses no packet, starts with what it can decode, is
  sent nothing after it left, and the stream always comes back.
* **Recordings service.** Dictionaries shared by threads with no lock, looked
  up again after a wait. Correct if every recording ends, every entry goes (an
  entry that stays locks the camera out), and a timer ends its own recording.
* **Pull point events.** A timer field shared by a subscription thread and the
  timers' own threads. Correct if the last event's recording is ended.
* **Audio to a camera.** A start that takes up to ten seconds, a stop that
  takes two, and four kinds of threads that stop. Correct if the port is free
  again when audio is not in use, and audio that nobody hears of ends.
* **Cloud proxy.** Five kinds of threads start, stop and restart one set of
  fields. Correct if a proxy the user wants always has something that will
  start it: if not, someone must go to the house.
* **Pull point subscription, Onvif, configuration.** Subscriptions that
  outlive what they were made for, and steps of a save that fail half way.
  Correct if what runs is what the saved configuration says.
* **User administration.** Links that expire while they are used. Correct if
  a link works once, for its account and only until it expires.
* **Live pages.** Messages that overlap an `await`, workers that are terminated
  and replaced, timers set by one handler and reset by another, several tabs.
  Correct if whole frames are decoded and decoding resumes, a feed that stops
  has a timer that starts it, silent or dead audio is given up, what is heard
  is what was set, and neither a microphone nor a login is left on.
* **Configuration pages.** Keys that are positions, renumbered by every edit and
  referred to from elsewhere; answers that come after the row, the dialogue or
  the list they are for has changed. Correct if what is saved is whole and what
  was entered, and what is known of a device is of that device.
* **Other pages.** Answers late, lost, refused or overtaken; pages that keep
  their component while the route goes on; two copies of one state that a
  failure sets apart. Correct if a page whose answers have come shows what the
  server has, and does what the user did.

`PROJECT.json` lists the hazards at their lines, each with the properties that
cover it or with why none does.

## 2. The modules

| module | models | runs |
|---|---|---|
| `PreambleFeed` | abstract: what the delayed stream promises its readers | (implemented by `BucketBrigade`) |
| `BucketBrigade` | ring, GOP cache and feeders of one recording stream, its POST handler | `bucket_brigade`, `full_ring` |
| `LiveStreams` | one stream id: ffmpeg loop, POST handlers, map of streams, websocket clients | `live_streams` |
| `RecordingService` | HTTP side of the recordings service, one camera | `recording_service`, `limit_ends_its_own` |
| `PullPointRecording` | event handler and its timers, composed with `RecordingService` (`INSTANCE`) | `pull_point_recording` |
| `FtpRecording` | FTP side of the recordings service, one camera | `ftp_recording` |
| `CloudProxy` | start, stop, restart, login and session timers of the cloud proxy | `cloud_proxy` |
| `AudioOut` | starts, stops and the feed check of the audio to a camera | `audio_out` |
| `VideoFeeder`, `AudioFeeder` | the two workers that feed the decoders | `live_view` |
| `LiveView` | the pages, their stall timer, and the workers as these see them | `live_view` |
| `AudioQueue` | the audio worklet's queue and what it measures of it | `live_view` |
| `AudioSettings` | volume, muting and latency control of page, stream, cookie and controls | `live_view` |
| `AudioBackchannel` | button, microphone, websocket and timers of speaking to a camera | `live_view` |
| `Session` | every tab's watch, count down, dialog and log-off | `live_view` |
| `ConfigSetup` | one visit of the table of cameras, with what a camera and the set-up of its recording are | `configuration` |
| `RecordingDialogue` | the form of the recording dialogue | `configuration` |
| `OnvifFailures` | the devices not read, retries, the dialogue that adds one | `configuration` |
| `CameraCredentials` | credentials of cameras and of Onvif, snapshots | `configuration` |
| `AdminHosting` | the page and the proxy that host a device's own pages | `configuration` |
| `RecordingControl`, `RecordingPlayer` | recordings of a stream; their sound and speed | `client_pages` |
| `VideoZoom`, `VideoSizing` | zooming and moving a picture; its size | `client_pages` |
| `MultiCamView` | the stream selected and shown of each camera | `client_pages` |
| `CameraParams`, `Ptz` | a camera's settings; moving it | `client_pages` |
| `WifiSettings`, `AdHocHosting`, `CloudProxyPage` | three forms and their requests | `client_pages` |
| `AccountForms`, `AdminForms` | forms of accounts; those of the initial admin application and, of the server, the one local account | `client_pages` |
| `Nav`, `Reporting` | the bar and its options; the report on a page | `client_pages` |
| `MC...` | the instances TLC checks (`CloudProxy` has its own cases at its end) | |
| `...Proofs` | the theorems (section 4) | |

Each of `MCLiveView`, `MCConfiguration` and `MCClientPages` holds several parts
of the client that share no state the properties tell apart. The variable `part`
names the one that moves in a behaviour; the others stay at their beginning. So
one run checks them all, its states are the sum of theirs and not the product,
and each of its properties is a conjunction of properties that the modules
define. Where a property of `PROJECT.json` has several conjuncts, its mutant
breaks one of them; the modules keep, with a comment "Mutant", forms that break
the others.

### How they correspond to the code

**BucketBrigade.** `Input` and `CreateFeeder`/`DestroyFeeder` hold `bb.mutex`
from end to end, so each is one step; `Get` takes no lock and is a step of its
own, apart from the write that follows it. `Input` is split by its outcome:
`Fill` before the delay is reached, `Relay` after, `GopCacheFull` (the error
that ends the POST), `IndexOutOfRange` (the panic on a full ring). A packet is
the number of the call that brought it; time is the choice `timeUp` of whether
the preamble time has passed. `FeedComplete` and the refinement speak of
connections whose channel has never been full; `FeedOrdered` of all.

**LiveStreams.** Each method of `Streams` holds the map's mutex and is one
step; a handler's steps are separated at each call. `Stream` objects are
numbered, so that a client's stream and the one the id has *now* can be told
apart. ffmpeg may die at any moment and posts again after it has ended.

**RecordingService, FtpRecording.** A step is one access of the shared
dictionary or one action on a process, which is where Python may switch
threads. Recordings are numbered by their `Popen`. `finish_recording` is split
at its wait: `Interrupt` (or `WindowEnds`) before, `Pop` after. The FTP side's
`processDict[...] = timer` and `timer.start()` are one step, for no window is
short enough to end between the two.

**PullPointRecording.** The subscription's thread and each timer's task are
split at every access of `timer`. They post to `RecordingService` and go on
when it has answered. Time is in ticks: within a tick threads interleave
freely, and a tick waits until they are done or waiting for an answer, which
keeps a thread from being suspended for a minute between two statements.

**CloudProxy.** Every step of `stop()`, of `restart()` and of
`resetCloudProxySessionTimeout()` is a step of the thread that runs it, which
then returns to where `after` says. A start that creates its executors is
numbered; its body, its connection and its `CloudInputProcess` go by that
number, while `connection`, `session` and `cip` are the fields that all share.
The interrupt that `shutdownNow` sends is in the guards of what a body does
next: a JMS call or a sleep of an interrupted body throws. `crossed` is a
history variable: the last `userStart` was made in the midst of a `userStop`.
The broker, external to the repository, accepts, refuses, is silent or throws.

**AudioOut.** As above, with `stopAudioOut` as the operation called by many.
The camera's RTSP session is what `RtspClient` sees of it: running, ready,
failed, stopped. `unheard` is a history variable: the checks since the last
packet or start.

**The client.** JavaScript runs one callback at a time: a step is what runs from
an event to the next suspension, and the only suspensions are an `await` and a
subscription to a request, each answered in a step of its own. A request on its
way is an element of a sequence or set, with where it is (sent, served,
answered); it is answered, refused or lost, and unless the module says otherwise
answers may overtake one another. The server is what its answers tell, unless the
module has it (`AdminForms`, `AdminHosting`).

* `VideoFeeder`: `isConfigSupported` is awaited while messages come, and what
  follows it uses `this.buffer` as it then is; a frame that was put together
  across such a wait is `spoilt`, which is what the code does. What a frame is has
  two tests, the decoder's chunk type and `isKeyFrame`; `Kinds` has the frames that
  both know, those that only one knows and those that neither does.
* `LiveView`: a view is an instance of the component; a worker is none, starting,
  feeding or dead, and what it posts is a choice.
* `AudioSettings`: the audio control reads its camera's values when it is opened
  only. A stream that is chosen on the page closes it; one that the route brings
  does not, and the control is `kept`.
* `AudioQueue`: averages and the root of the variance are used rounded only, and
  that is given exactly from integers; a sum is a function of how many samples it is of.
* `OnvifFailures`: a row of the list is where its device comes in the order of the
  devices, `Row(host)`; what is entered stays with the row.
* `AdminHosting`: requests that are cancelled by an unload are taken out of the
  sequence with `LeftOf`, any sequence of what is kept in its order.
* `VideoZoom`: one coordinate of the two, which are treated alike; a
  turn of the wheel doubles or halves the scale. The container may be resized or
  moved at any time, and is `measured` when the code measures it; `pointer` is where
  the wheel was turned. Positions are whole numbers, so where the code keeps the
  point under the mouse the model keeps that point to the unit.
* `RecordingControl`: a recording is its time, an epoch; `Day` is its day, counted
  through the years, and `DayAndMonth` what the code compares. The slots of the
  first `n` recordings are a function of `n`.
* `RecordingDialogue`: a mask file is `uploading` from the choice to the answer,
  which makes it `uploaded` or `reported`.
* `AdHocHosting`: the rows (`devices`) and the controls that show them
  (`tableForms`) are apart; a save begins by the second button whatever the rows
  have become since the first, and saves overlap.
* `ConfigSetup`: cameras and streams are sequences, a key is a
  position; `src` tells a recording that is its own stream's from one that a
  renumbering has left with another's.
* History variables say that the code has done what a property excepts: an answer
  has met a state it was not meant for (`overtaken`, `crossed`, `crossing`,
  `afCrossed`, `cpsOvertaken`, `listedLate`, `unsure`, `doubtful`, `adRaced`,
  `excused`), was an error (`afFailed`, `cpFailed`, `cpsFailed`, `ptzFailed`,
  `reported`), or the user did what no handler is for (`early`, `kept`, `dismissed`,
  `interrupted`, `noClick`, `pasted`). A property that excepts one says so in its
  comment, and section 3 lists what then happens.

### Abstractions

Names, paths, payloads, and the encoding of packets are left out. One camera
(one stream id) is modelled where the code keys everything by camera and no
step of one key touches another's entry. Not modelled inside the modelled parts: the audio stream of
a stream id (the same code as its video); the proxy's sockets by token and the
transport status shown in the browser; the bytes of the audio and its first
packet; the FLV header's parsing. HTML templates are external: a guard that
stands for a disabled button says so.

## 3. The runs

Passing runs:

| run | states | what is shown |
|---|---|---|
| `bucket_brigade` | 435598 | types; `FeedComplete`: a feed has no hole and nothing twice; `FeedOrdered`; `FeedStartsWithKeyFrame`; `FeedersAttached`; the inductive invariant; `BucketBrigade` implements `PreambleFeed` |
| `live_streams` | 2547086 | the inductive invariant; `NoGap`: the snapshot and the channel of a client meet; `StartsDecodable`; `LiveInOrder` with no GOP cache; `NoDepartedClient`; `StreamComesBack` |
| `recording_service` | 572860 | the inductive invariant; `EntryHasLimit`: a camera's entry has a limit before it that will take it; `EntryIsReleased`: so it goes though no `end_recording` comes |
| `pull_point_recording` | 272975 | the inductive invariant, that of the service with it; `NoDeadTimer`: the field is not left with a timer that will not fire; `RecordingIsTimed`: at rest, a recording has a running timer in the field that will end it, and is not left to its fifteen minutes |
| `ftp_recording` | 83964 | the inductive invariant `FtpInv`; `EntryHasWindow`, `RecordingHasWindow`: a running ffmpeg has its own window to end it, whoever took its entry; `RecordingEnds` once the uploads stop |
| `cloud_proxy` | 1108733 | the inductive invariant; `NeverForgotten`: a proxy that is wanted has a timer, a task or a thread that will start it; `KeepsTrying` |
| `audio_out` | 214366 | `PortIsFreed`: with audio not in use, the port is free or a thread is on its way to free it; the inductive invariant, with it that none is unheard for longer than the timeout; `AudioEnds` without audio |
| `live_view` | 591824 | `BuffersHold`: decoded frames are whole, the audio queue is limited and leaves something to play; `TimersWatch`: feeds, silent audio and count downs are watched, and the count down of a live page never begins; `SoundAsSet`: node, cookie and controls agree with the settings, through switches by the page and by history; `FeedsRecover`; `NothingIsLeftOn` |
| `configuration` | 2275962 | `SavedAsEntered`: one default stream, recordings distinct and their own, a page left without a question is saved, the dialogue shows what it edits and confirms what can be carried out, or an error was reported of its mask; `RightDevice`: devices, credentials, snapshots, hosted pages and connections are of the right device, with the inductive invariants of the three modules that say so; `FailuresStayListed` |
| `client_pages` | 2266163 | `ShowsWhatIs`: a page shows what the server has; `DoesAsAsked`: what is done is what the user did; `AllInPlace`: each recording listed is in the slot of its day and month, no two slots have one date, and the one played is among them; the picture covers its viewport, follows the finger, keeps the point under the mouse when the wheel turns, and fits the window; with the inductive invariants of these three parts |

Runs that show a disagreement, each with one property that a document or a
comment states and the code does not keep:

| run | what is said | what the code does |
|---|---|---|
| `full_ring` | "Using bucket brigade cachLength as indexLimit" (`bucket-brigade.go:57`) | a ring that fills before the preamble time is up stands one past its end, and the next packet panics |
| `limit_ends_its_own` | "Limit the max recording time to 15 minutes" (`camera-recordings-service.py:221`) | the timer is not cancelled by `end_recording` and ends a later recording |

Met while modelling, and kept in the models as what the code does, with no run
of their own:

* An H265 client of a stream with four byte start codes and no GOP cache never
  starts: the keyframe test compares `CodecType` and looks for H264 start codes
  (`README.md:27` says H265 is supported).
* An upload while an FTP recording is being finished resets a timer that extends
  nothing, although a recording is extended "whenever a further FTP upload is
  received" (`STRUCTURE.md:54`).
* `audioInputStreamCheckCount` is not zeroed by a start: the next session may be
  stopped at its first check, against "Stop audio input session after 3 seconds
  without a websocket message" (`UtilsService.groovy:299`).
* Deleting a stream clears every recording trigger of its camera, which may then
  be saved without what starts its recordings, against the tooltip "Cannot
  delete a stream used in recording" (`config-setup.component.ts:866`).
* Two cameras may end with one mask file: which files the others have is looked
  up when it is typed, not when the dialogue is confirmed.
* A mask whose upload failed (`recording-setup.component.ts:290`), or that was not
  sent because two cameras had one file, stays named in a field that is valid: its
  set-up can be confirmed with a mask that the server never had
  (`ConfirmedIsComplete` excepts the masks of which an error was `reported`).
* On a phone held sideways the size chosen is not asked for where a picture is
  sized by its height (`VideoSizing.ts:141`), so it may be wider than its column;
  `PictureFits` bounds it by the window there.
* The recordings page takes two recordings for one day by day and month alone
  (`recording-control.component.ts:284`, `:290`): of a stream with nothing recorded in
  between, those a year apart share the slot of the earlier year (`OfSlot`).
* Credentials of a device that could not be read are sent for whatever device its
  row then shows, against "using the credentials entered against it"
  (`onvif-failures.component.html:68`).
* The timer of 100 ms that starts a feed is not cancelled by leaving the page: a
  feed may start that nobody watches.
* An update of the local account deletes the old one before the new one is
  validated, and leaves none when that fails (`UserAdminService.groovy:155`).
* A confirming e-mail address or password is compared when it is typed, and not
  in every form again when the first is changed.
* The report's flags are never reset, and an error without a body is not shown.

What the properties except, by the variable of section 2 or the words of the comment:

* The audio control of the page, left open while the browser's history goes to
  another camera, shows the values of the last one: `setSource` (`video.component.ts:70-81`)
  does not close it as `:132-138` and `:197-203` do (`kept`, in `ControlsShowSound`).
* A camera whose keyframes the decoder's chunk type knows and `isKeyFrame` does not
  (H264 with SPS `67 42` or `67 4d`) never starts: nothing is decoded before the first
  keyframe (`video-feeder.worker.ts:82`, `:172-206`). `KeepsDecoding` speaks of
  keyframes that both know.
* After a warning of the worker a page stays as it is until something is set up
  (`warned`, in `PictureComesBack`); a microphone stays on after a stop that fails
  and the others that `MicrophoneGoesOff` names (`excused`).
* The browser's history leaves the page of the idle dialog and closes it: the count
  goes on with no warning, on a live page too (`dismissed`, in `Warned`, `LivePageStays`).
* A pull point timer's task that comes to the field while an event's start is on its
  way, and whose end is served first, leaves the new recording with no timer until
  its fifteen minutes are up (`overtaken`, in `RecordingIsTimed`).
* A stream chosen in the 100 ms before `setupVideo` is overridden by the default,
  its box staying checked (`multi-cam-view.component.ts:116`; `early`, in
  `CellsShowSelection`).
* The guest form takes what it submits for the account's state
  (`set-up-guest-account.component.ts:42`), and an error does not take it back: the change
  is not offered again (`afFailed`, in `GuestKnown`; `afCrossed`, answers that cross).
* A container that is resized while the picture is zoomed is not measured again
  (`VideoSizing.ts:54-67` resets nothing; `VideoTransformations.ts:61`, `:122`): until the
  next reset the picture need not cover it, nor keep the point under the mouse
  (`measured`, in `CoversViewPort` and `KeepsFocus`).
* A touch on a PTZ button that is cancelled sends no stop (`interrupted`), a stop may
  overtake its move (`overtaken`) or fail (`ptzFailed`): the camera goes on moving
  (`NotLeftMoving`). A touch on a preset, or a mouse dragged from it, saves or clears
  the view and leaves the switch on (`noClick`, in `SavesOnce`).
* Of the ad hoc devices, rows that were changed during a save count as saved
  (`ad-hoc-hosting-config.component.ts:152`), and a save that is answered
  by an error may have been stored (`unsure`); a control changed with no key is
  not in its row (`pasted`); both in `SavedAsShown`. Rows emptied or added
  between the two buttons are saved incomplete, and nothing keeps two saves apart,
  for the second button is disabled for a guest only
  (`ad-hoc-hosting-config.component.html:108-126`).
* A connection to a hosted camera that is listed after its hosting was closed stays
  (`listedLate`, in `ClosedWithHosting`); requests of one user that overtake each other
  may leave the tab of another device (`overtaken`, in `HostingAgrees`).
* A device tried again from the list, or added after its URL was checked, may be in
  the table twice (`excused`, in `DevicesAreDistinct`); a snapshot that is asked for
  while another is awaited may be shown in its place (`crossing`, in `ShowsItsSnapshot`).
* An answer that crosses another is taken for the later one: a list of recordings
  (`overtaken`), a loading of the cameras during a save (`crossed`, in
  `LeftWhenSaved`), the camera parameters (`crossed`; after an error, `cpFailed`), the
  access point (`doubtful`), the state of the cloud proxy (`cpsOvertaken`; after an
  error, `cpsFailed`) and `useCaching` (`unsure`, after an error too).
* Two pages that create the local account at once make two (`adRaced`, in `OneAccount`).

### Bounds, and why they are enough

* `bucket_brigade`: four slots, six packets, so that the ring fills with any
  delay up to three, starts and wraps; a GOP cache of two and channels of two,
  so that both overflow; two feeders, the least for a swap in `DestroyFeeder`.
  The proofs have no such bound. `full_ring` has three slots and one feeder.
* `live_streams`: two handlers (a dead ffmpeg's and its successor's) with one
  client, one handler with two clients (one's full channel and the other), or
  one of an H265 stream with no GOP cache.
  Two streams (one replaces the other), two packets each, a channel of one and
  a GOP cache of two, so that channels fill. A third stream or client adds no
  new pair of steps that conflict.
* `recording_service`: two requests at work and three recordings: two that
  start by the same race and one that comes after.
* `pull_point_recording`: three timers, one more than a task and an event need
  to overtake one another; two recordings, a window of one tick.
* `ftp_recording`: two connections, three recordings, up to two threads that
  wait for one ffmpeg (a reset of a recording being finished starts a second).
* `cloud_proxy`: one request, one restart task, one thread of session timers,
  one heartbeat and one queued task, over one start with every kind of event or
  two starts with the user's requests (two starts with everything are beyond
  a few minutes). The theorem covers any number of each.
* `audio_out`: one request at a time, two starts, a timeout of one check; the
  check and the two accept threads make the overlapping stops. The theorem
  covers any number of requests.
* `live_view`: two frames and two configurations awaited at once (one overtakes
  the other) with one error of the decoder; two views and two starts waiting in
  each (one too many is what the timers must get right); a queue of up to seven
  with its limits scaled to three and five, so that measuring, shortening and
  both clamps happen; two cameras and two volumes; two requests of a kind to
  speak; two tabs, counting down from three after two idle seconds. Fewer than
  the real seconds, in the same order.
* `configuration`: two cameras of one and two streams that may grow to three, and
  two edits (an edit and one that meets its renumbering); a search that finds
  nothing, or two devices, of one and of two streams (`SearchResults`); four changes in
  two dialogues, and two mask files; three devices and three discoveries, so that
  a retry, an added device and a new search meet; two cameras and three
  confirmations and snapshots together; two users and two devices to host. A
  third of each only repeats a pair.
* `client_pages`: two of whatever a page can confuse (streams, cameras, access
  points, buttons, rows, tabs) and as many requests as can cross, two or three.
  Of one stream two recordings of a day and one of the next, so that a slot has more
  than one and there is more than one slot; of the other, two a year apart
  (`DaysInYear` is two). `VideoZoom` has containers of three and of two in two
  places, three fingers and a scale up to three, which no doubling meets.
  `AdHocHosting` has one name for the rows, two rows and two saves: enough to change
  a row during a save and to have two saves answered in either order.

Deadlock is not checked: a run stops when its bounds are used up, and each of
these systems may come to rest (a POST that has ended, a service with nothing
asked of it).

### Fairness

Only what a scheduler, a timer or an operating system call owes is fair: a
thread that can go on does, a timer that has run down fires, a process that
was interrupted exits, a loop that has slept starts over. No request, upload,
event, heartbeat, packet or answer has to come. In particular:

* `LiveStreams`: the feed's loop starts ffmpeg again after each exit
  (`ffmpeg-feed.go`), and `-timeout` ends an ffmpeg whose camera is silent;
  this is why an orphaned handler ends (`Orphaned`).
* `RecordingService`: the fifteen minute timer fires; an ffmpeg that is not
  interrupted need not exit.
* `FtpRecording`: the end of a window is fair, although a camera that uploads
  for ever defers it for ever; `RecordingEnds` therefore assumes the uploads
  to stop.
* `CloudProxy`: a body's JMS calls return or throw, which is one weakly fair
  disjunction: the broker need not accept.
* `AudioOut`: the check is scheduled each second; the camera need not answer
  (`Await` ends after ten seconds).
* `VideoFeeder`: `isConfigSupported` settles. `KeepsDecoding` assumes keyframes
  that both tests know to come again and again, which is a camera's duty.
* `LiveView`, `AudioFeeder`: timers fire; a message comes from a server that is
  up, and a websocket that is closing closes.
* `AudioBackchannel`, `Session`: timers fire, requests are answered (with
  success or failure) and the storage event reaches the other tabs. A user owes
  nothing. `MicrophoneGoesOff` excepts what is stated with it: a stop that fails,
  a microphone asked for twice, a connection that comes after the timer.
* The other parts of the client have no liveness property: their answers need
  not come.

## 4. The proofs

`tlapm` checks every proof. Each theorem holds for all values of the constants
that satisfy the module's named assumption: the capacities are positive,
`CacheLength` is at least two, the bounds are numbers, the names that stand for
"none" are not those of a camera or device, and a page of the client knows
finitely many devices (`OnvifHosts`). `LiveViewAssumption` has an audio queue that
measures at least one sample and whose limit at work is below the limit it never
exceeds, as the code's numbers are. `ClientPagesAssumption` says the like of the
other pages: numbers of cameras and streams, names of their own for no button,
no settings and no row, a positive width of each container, ratios of pictures, lengths
of a day and a year, sizes in percent. All follow from an inductive invariant, which `Init`
implies, every action preserves (one lemma or step each) and from which the
property follows. Of the server's modules it is `IInv` (`FtpInv`, `AudioInv`),
which their runs check too; the client's proof modules define one for each part,
where the properties checked need more than themselves.

* **`BucketBrigadeProofs`** (`Invariance`, `TypeCorrect`, `CompleteFeeds`,
  `OrderedFeeds`, `RecordingsStartWithKeyFrame`, `AttachedFeeders`). What a
  feeder is sent next depends on what the ring has at the output index, so
  `IInv` adds `RingHoldsNewest` (below `inputIndex` the packets of this round,
  from it on those of the last) and `RingProgress` (how index, delay and count
  are related, the full ring included). `CreateFeeder` copies the GOP cache, so
  `GopIsRun` says it is a run up to the newest packet output; `FeedsFollow`
  keeps every feed behind the output. A lemma says that the output index holds
  the packet `cacheInUse` older than the newest: the arithmetic of `Mod`.
  `Refinement` shows the implementation of `PreambleFeed`: `Relay` publishes a
  packet, `CreateFeeder` joins at the start of the group of pictures that the
  GOP cache has, `Get` takes the next packet due, and every
  other step is a stutter. What is due is the first packet of snapshot and
  channel together (`Due`), so the steps rest on `FeedsFollow`; of a connection
  whose channel has been full the abstract feed says only that it never goes
  back.
* **`LiveStreamsProofs`** (`Invariance`, `TypeCorrect`, `NothingMissed`,
  `Decodable`, `InOrder`, `DepartedAreGone`). A client holds its `Stream` and the
  map another by now, so the invariant speaks of both: `MembersJoined` (a client
  is in no stream but its own, and there while it is connected), `GopIsRun` (a
  cache is a run of packets up to the newest, from a keyframe), `ChannelFollows`
  (a channel that never filled has the newest packets of its stream),
  `FeedBegins` (nothing is sent before the snapshot, and none is taken before
  the client is in the stream) and `FirstIsDecodable` (what the first packet
  sent will be). `NoGap` is then preserved by a `put`, which extends channel and
  cache by the same packet, and by the snapshot, whose end is the newest packet.
* **`RecordingServiceProofs`** (`Invariance`, `EntriesAreLimited`). `Pop`
  takes whatever entry there is and only helps; what could break
  `EntryHasLimit` is an entry stored after its limit has gone. `LaunchedOnce`
  excludes it: a recording is launched, stored and limited by one thread, in
  that order, and its limit starts after the store.
* **`RecordingTriggersProofs`**, of pull point events (`ServiceAsSpecified`,
  `ServiceInvariance`, `Invariance`, `TypeCorrect`, `FieldIsAlive`,
  `RecordingsAreTimed`, `EntriesAreLimited`). The handler does nothing to the service but post
  requests, so what it drives behaves as `RecordingService` specifies
  (`ServiceAsSpecified`), and what is proved of the service for any requests
  holds here, with a request for each timer and one for the event thread: no
  proof is made twice. `DeadTimerIsHeld` is what the handler itself needs: a
  timer in the field that does not run is about to be scheduled, replaced or
  cleared by a thread that is at work. `RecordingsAreTimed` (`RecordingIsTimed`) needs
  both sides: a start on its way has a scheduled timer in the field with time left
  (`StartIsTimed`), and a recording has that timer, or one that is about to replace
  it, or a task that will ask for its end or has asked (`RecordingIsHeld`), which
  `OwnRequests` ties to what the service does for it. Of FTP uploads (`FtpInvariance`,
  `FtpEntriesGo`, `FtpRecordingsEnd`) `FtpInv` needs, beside the two properties,
  only that what was not launched has no process and no thread.
* **`CloudProxyProofs`** (`Invariance`, `NotForgotten`). A task that finds
  the proxy running does nothing and so leaves the promise to what runs:
  `RunningIsTimed` says that this has a timer, or a thread that will set one or
  clear `running`. `StopsGoOn` says that only a request's stop is followed by
  nothing, and `StopIsKnown` that what such a stop takes away was not wanted,
  or its start crossed it. `BodiesAreStarted` keeps a body idle before its
  executor exists.
* **`LiveViewProofs`**. `BuffersAlwaysHold` (`BuffersHold`), for any number of
  messages, errors and samples. Of the frames (`VideoFeeder`): what is put together
  is the newest frame as far as it has come, or a rest whose start was dropped with
  a chunk that the decoder refused and which it will refuse too, because it waits
  for a key (`PutTogether`, `StartDropped`); a call that waits has the newest
  message or one that is spoilt, and only the newest waits unspoilt
  (`CallsWait`). Of the audio queue (`AudioQueue`): that the limit is measured
  between its clamps and what is left to play is below it needs the root of a
  variance to be a number, so that the sum of the squares is at least the square of
  the sum divided by the number of samples (`SquaresAreEnough`, by adding one
  sample at a time, `OneMore`). The sums are functions defined by recursion, which
  are shown to exist first (`SumIsThere`). Induction is by the least number for
  which a claim fails (`LeastOf`, `UpTo`: the claim is membership of a set, so no
  fact with an operator for a parameter is needed).

  `SoundIsAsSet`, for any cameras and any volumes.
  The getters of the page read the `AudioStream`, and the settings are the
  feeder's: `SinkFollowsFeeder` keeps the two together through restarts.
  `ControlsRemember` says that muted controls keep the volume that unmuting
  brings back; of controls that history has left open (`kept`) nothing is said. The
  gain node is a product, with a factor that is 0 until the first packet and 1 after;
  `GainIsSet` and `MutingIsSet` say what it comes to.
  `PageSoundsAsSet` carries it to the page with all its parts: one part moves,
  the others stay (`PartsMoveAlone`). `WhatRunsIsWatched` is `TimersWatch` for
  any views and tabs and any limits: `FeedIsWatched` is inductive with the types
  alone, of every worker that runs, whoever shows it; a silent audio feed is
  dropped because its timeout is armed whenever it is to be watched; and of the
  tabs the four conjuncts of `Session` are inductive together. Of the server's
  side of the sound, `AudioInvariance`, `PortGetsFree` and `UnheardStops` of
  `AudioOut`, for any requests and starts. `PortInField`: the only listener of
  the port is the socket in the field, because a start cannot bind the port while
  another listens. Hence a stop that closes the field's socket frees the port.
  `RequestsOpen`: no accept thread opens a socket. `UnheardIsStopped`: the checks
  since the last packet are never more than the count, whatever the count was
  left at, so a session may be stopped early but none goes unheard for longer
  than the timeout.
* **`ConfigurationProofs`**. `SavedIsEntered` (`SavedAsEntered`), for any cameras,
  streams, edits, dialogues and answers. The table is always well formed
  (`WellFormed`): the keys of a camera's streams are their places, one of them is
  the default, and a camera without a recording set-up has none of it; every
  action of the page is one of a few changes of a table that keep it so
  (`FieldUpdated`, `CameraReplaced`,
  `CamerasMoved`, `CameraDeleted`, `StreamDeleted`, `StreamAppended` and others).
  Recordings are numbered by the cardinality of the set of the streams before
  (`First`), and doing it again changes nothing (`FixUpCameraTwice`,
  `FixUpDataTwice`), so what the server was given stays as it is (`Kept`). A save
  is of what the table shows, which nothing but a load changes before it is
  answered (`SavesTheTable`), so a page that may be left unasked has the table it
  saved (`LeavesWhatWasSaved`). The recording dialogue works on a clone of its row's
  camera, and streams added since are not in it and not watched (`CloneOfItsRow`);
  the masks it may confirm were sent, are on their way or were reported (`MasksKnown`).

  `OfTheRightDevice` (`RightDevice`) and
  `FailuresAreKept` (`FailuresStayListed`). Each of the three parts has an
  inductive invariant, which `RightDevice` includes. `OnvifFailures`: whatever
  may yet come into the table is not there or is excused (`OnlyNew`), and a list
  that is shown writes to the cameras that are shown (`ListIsCurrent`); the
  table's rows shift, so the lemmas say what `RemoveAt` and `Append` leave of
  a sequence with nothing twice. `CameraCredentials`: what is being encrypted was
  confirmed for the object looked up, and nothing for a camera that is yet to
  come (`EncryptsConfirmed`); a row waits for its own snapshot only
  (`WaitsForItsOwn`). `AdminHosting`: what is left of the requests on their way,
  after one is served or a user's are cancelled, is theirs in their order
  (`Thins`), so the last answer to the user who has the hosting is of the device
  hosted (`LastIsHosted`) and each user's requests are served in order
  (`ServedInOrder`), until they overtake one another.
* **`ClientPagesProofs`**. `AsAsked` (`DoesAsAsked`), `ShowsAsIs`
  (`ShowsWhatIs`) and `LaidOut` (`AllInPlace`), for any cameras, buttons, settings, networks, devices,
  accounts and tabs and any number of requests. One part moves at a time
  (`PartsMoveAlone`), so `PartsInv` is the conjunction of eleven invariants, each
  preserved by its own part's steps. What a page shows when nothing is on its way
  was decided by what was on its way before, so none of the properties is
  inductive alone; what each invariant adds is what the requests are about to say:
  * `RecordingPlayer`: the two properties are inductive with the types.
  * `Ptz`: the last request on its way, or with none what the camera does, is a
    movement only while a button is held (`LastIsMove`, `Held`); while the
    mouse is pressed on a preset it is on no button that moves.
  * `AccountForms`: what counts as matching was confirmed; the one request on its
    way tells of the guest what the server has, or is a change that makes it what
    the page has then taken for known (`GuestTold`), from an answer that is no error
    to one that is.
  * `Nav`: the last call on its way, or with none the server, caches as the last
    click says, and the cookie has that click, which is what other tabs load
    (`ClickIsKept`).
  * `AdminForms`: what the page takes for valid has been confirmed, because each
    control revalidates the other (`Confirmed`); the SMTP page asks once and has
    no entries until it is answered (`SmtpAsks`); at most one request is past its
    validation and not yet performed, and there was then no account, or it
    updates the one (`OneAtATime`), until two are validated at once (`adRaced`).
  * `MultiCamView`: each camera has one box checked (`BoxesChecked`), and its video
    the stream checked unless an update is on its way (`CellsSet`), or the default of
    a camera whose box was too early. `Index` gives
    the default of a camera the video of that camera, by the cardinality of the
    defaults before it (`IndexIsCamera`).
  * `CameraParams`, `WifiSettings`: of the only request on its way, whose answer is
    true, and what page and device have then (`IsOf`, `IsTrue`).
  * `AdHocHosting`: with no save on its way the hash, when there is one, is of what
    the server has stored; of the saves on their way, each that is not yet stored has
    the table's rows and each that is answered has stored them (`SendsRows`), so their
    order does not matter until a row is changed among them (`HashTells`).
  * `CloudProxyPage`: three requests may be on their way, and the one sent last
    says what kind of moment it is: the state is being asked, the proxy stopped,
    started, or just started (`Tells`, five cases); what came before it only asks.
  * `Reporting`: the box is in one of three forms (`RtInv`), in each of which its
    parts are those of the last report.

  `AllInPlace` has its own conjunction of three (`PlacesInv`):

  * `RecordingControl`: slots are in the order of their dates and have the
    recordings of their day, or of the same day and month of a later year
    (`InOrder`, `OfSlot`), shown of the function that makes them one
    recording at a time (`SlottedKeeps`, `SlotsAreThere`), over a list that is in
    order and complete (a finite set has its sorted enumeration: by
    induction on its cardinality, `SortedIsThere`). Until a list is overtaken, what is
    awaited is the stream's and what is played is of the list shown (`InTime`), and
    since then the server has only got later recordings (`SlotsAreListed`).
  * `VideoZoom`: scale times distance is not linear, so the bounds of the offset are
    lemmas of their own about a product and a quotient (`QuotientAtLeast`,
    `ZoomedWithin`). They are those of the container that was measured
    (`WithinLimits`), whatever the container is by then. That the picture follows the
    finger says that limiting an offset brings two of them no further apart
    (`MovedByAtMost`). That the wheel keeps the point under the mouse: what is added to
    the offset keeps it, to the unit (`ZoomKeepsPoint`), and what magnifies about a
    point of the container is within the limits by itself (`NeedsNoLimit`), so
    limiting takes nothing back (`ZoomKeepsFocus`).
  * `VideoSizing`: the picture is styled for the window, size and ratio that are;
    sized by width or by height it then fits (`FitsByWidth`, `FitsByHeight`).

Model-checked only:

* liveness (`StreamComesBack`, `EntryIsReleased`, `RecordingEnds`,
  `KeepsTrying`, `AudioEnds`, `FeedsRecover`, `NothingIsLeftOn`), which is beyond
  the prover. Every invariant and action property that a run checks is proved.

The pages that need only to take one call out of a sequence write it with `SubSeq`:
a proof about all of them carries the definitions of each, and `SequencesExt` once
for each page that has it.

## 5. What is not modelled, and the plan

Not to be modelled: Wifi's service (no state between requests), codec discovery
(I/O), pages that show one answer, the bundled libraries, scripts that nothing
loads, module declarations, packaging.

To come, the most important first:

1. `PullPointSubscription`: the pull loop, renewal, `terminate` and the
   exception that skips the unsubscribe; composed with `PullPointRecording`'s
   `Terminate`. Properties: one loop per monitor, no subscription outlives its
   monitor but for its termination time.
2. `BackchannelSession`: the RTSP exchange of `BackchannelClientHandler`
   (authentication retried once, keep-alive, TEARDOWN). Abstract specification:
   the session of `AudioOut`. Property: no request before the answer of the
   one before, the latch is counted down once the session is set up or has
   failed. Then the composition of `AudioBackchannel` with `AudioOut`: a
   microphone that is on has a session that takes its sound.
3. `UserAdmin`: reset links, their map and their timers, with `AdminForms`'
   account. Property: one live link, used once, gone when its time is up.
4. `CamerasConfiguration`: `Sc_processesService`, `ConfigurationUpdateService`
   and the Onvif service's device map and monitors around a save that fails at
   any step. Property: what runs is what is saved, or the failure is reported.
5. The sockets by token of the cloud proxy.

A run of a disagreement gives way to the run of a new module when the runs
become too many to repeat at each change.
