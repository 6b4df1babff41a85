# DadLink in TLA+

DadLink is a voice chat: a Rust server (`src/server`, tokio tasks, WebSocket
control plane, UDP voice relay, PostgreSQL behind an admin API) and a C++ client
(`src/client`, Qt windows, PortAudio, Opus, the same SRTP-like encryption).
This directory holds TLA+ modules translated from that code, the TLC
configurations that check them on small instances, and proofs checked by TLAPS
for instances of any size.

How to run (in this directory):

    tlc -workers 2 -config ControlSequential.cfg MCControlServer.tla
    tlapm ControlServerProof.tla

`PROJECT.json` lists the runs, the broken variants that show each property can
fail, the source lines behind each definition, the findings and the hazards.

## 1. Inventory

### Server

| Component | State | Operations | Interacts with |
|---|---|---|---|
| Control connections (`network/tls.rs`) | per task: authenticated, `Session` (user, channels), outbox receiver; shared: `pending_key_exchanges` | accept, dispatch of `ControlMessage`, the `select!` loop over socket and outbox, cleanup at the end | ChannelManager, SRTP table, repositories, permission checker |
| ChannelManager (`channel_manager.rs`) | `channels`, `user_sockets`, `user_names`, each behind a tokio `RwLock` | register/unregister a user, join/leave, list, broadcast, send to one | outboxes of all tasks; read by the UDP relay |
| SRTP table and key exchange (`crypto/session_manager.rs`, `key_exchange.rs`) | sessions by user id | create, get, remove | connections write, the relay reads |
| SRTP session (`crypto/srtp.rs`) | keys, replay window | encrypt, decrypt | relay |
| UDP relay (`network/udp.rs`) | none of its own; one task | receive, register address, decrypt, re-encrypt per member, send | VoiceRouter, ChannelManager, SRTP table |
| VoiceRouter (`routing/voice_router.rs`) | four tables, each an `Arc<RwLock<HashMap>>`: address -> user, and three of channels | register/get address; join, leave and transmit channel have no caller, so that their tables stay empty | relay |
| Roles and permissions (`permissions.rs`, `db/repositories/role.rs`) | SQL tables of roles, assignments, channel overrides | can_join_channel, verify_channel_password | connections, admin API |
| Repositories and admin API (`db`, `api/admin`) | SQL | create, update, delete; statistics; audit log | database, ChannelManager for the list of who is online |
| Start-up, config, tokens (`main.rs`, `config.rs`, `auth.rs`) | configuration | start the two servers | all |

### Client

| Component | State | Operations | Interacts with |
|---|---|---|---|
| VoiceSession (`session/voice_session.cpp`) | listening and muted channels, PTT channels, hot mic, sequence counter, a jitter buffer and decoder per channel, SRTP session | capture, receive, mix, join, leave, mute, deafen, PTT, hot mic, start/stop | audio callback thread, UDP receiver thread, Qt thread |
| JitterBuffer (`audio/jitter_buffer.cpp`) | deque of packets, next sequence number | push, pop, reset, statistics | VoiceSession (push in the receiver thread, pop in the audio thread) |
| SrtpSession (`crypto/srtp_session.cpp`) | keys, replay window | encrypt, decrypt | VoiceSession |
| LockFreeQueue (`common/lock_free_queue.h`) | ring, two atomic indices | try_push, try_pop | meant for one producer and one consumer thread; included by the client, instantiated nowhere |
| UdpVoiceSocket, WebSocketClient (`network/`) | socket, receiver thread, connection flags | connect, disconnect, send, receive | server, VoiceSession, MainWindow |
| AudioEngine, mixer, codec (`audio/`) | streams, devices | start, stop, callbacks | VoiceSession, PortAudio's threads |
| Login dialog (`ui/login_dialog.cpp`, `ui_main.cpp`) | a client per button in a static pointer, timers of 100 and 500 ms, dialog flags | login, register, cancel, then the windows | WebSocketClient, VoiceSession |
| Roster (`ui/channel_roster_manager.cpp`, `ui/main_window.cpp`) | member lists, joined channels | snapshots and notices from the server | WebSocketClient, widgets |
| Hotkeys and microphone controls (`ui/hotkey_manager.cpp`, `ui/channel_widget.cpp`, `ui/main_window.cpp`) | hotkey tables, pressed keys, lights of the widgets, Mute/Deafen/Push-to-Talk, talk key | bind, unbind, key down/up, join, leave, hot microphone, reload | VoiceSession: mute, deafen, PTT, hot mic, listening |
| Admin panel (`ui/admin/`, `api/admin_api_client.cpp`) | lists of users, channels, roles; the row a dialog is about; a counter of requests | create, edit, delete, ban, search, refresh | admin API over HTTP, voice tab |
| Settings dialog (`ui/settings_dialog.cpp`) | a form | choose devices and volumes | AudioEngine |

### What is hard, and what makes each part correct

* **Control plane.** One task per connection; handlers of different tasks
  interleave at every `await`; all tables are keyed by *user*, though a user may
  have several connections; the peer can vanish in any step; `ChannelJoined` is
  written to the socket while notices wait in the outbox. Correct means: the
  manager's memberships, the task's own list, the socket table, the voice keys
  and what the clients display agree, and nothing survives the last connection.
* **ChannelManager.** Three fair locks taken in different orders. Correct means
  every call returns; `unregister_user` and `broadcast_to_channel` can block each
  other, and nothing else may.
* **Voice path.** UDP loses, repeats, reorders. The sequence number of the
  speaker survives the relay, so it is the input of the listener's replay
  window *and* of its jitter buffers. A packet passes from the receiver thread
  to the audio thread with the channel lock released in between. Correct means:
  no frame is played twice, a fresh one is not refused, the buffers stay sorted
  and bounded, and go on playing. With several speakers the window is shared by
  numbers that have nothing to do with each other.
* **LockFreeQueue.** Two threads, no lock, stale loads. Correct means a bounded
  FIFO without a data race.
* **Controls of the client.** Three tables of hotkeys, the set of pressed keys, the
  lights of the widgets and the session's own state are changed by slots that
  each update some of them; keys go down and up, and channels are reloaded, at any
  time. Correct means: the tables agree, push-to-talk is on for the keys that are
  down, no widget shows what is not so, and the window says MUTED only when it is.
* **UDP relay.** Addresses are noted packet by packet and never taken out, while users
  move and exchange them. Correct means: a speaker never hears a copy of the
  own packet.
* **Permissions.** A check is four SQL statements without a transaction, each of
  which may be overtaken by an administrator. Correct means: no row refers to a
  deleted one, and the answer was right at some moment of the check.
* **Login dialog and main window.** Timers act on whatever client a static pointer
  holds when they fire; the window shows a channel as joined when it asks; rosters
  are put together from one snapshot and from notices, which may overtake each
  other. Correct means: nothing of an attempt is left once the dialog is done, and
  when nothing is on its way the client shows what the server has.
* **Threads of a voice session.** Window, capture, playback and receive threads
  share parts without a lock; only the order in which the shutdown stops and
  joins them protects the parts. Correct means: nothing is used after it was
  freed, nothing runs or leaks afterwards, the shutdown returns.
* **Admin panel.** Requests are answered in any order, and modal dialogs leave the
  event loop running. Correct means: "Loading..." is true, and a change reported as
  done is in the lists.

## 2. Modules

| Module | Models | Composes |
|---|---|---|
| `Membership` | abstract: a user comes online, joins and leaves, vanishes from all channels in one instant | |
| `ControlServer` | connection tasks, ChannelManager, pending key exchanges, SRTP table, what clients are told | refines `Membership` |
| `ManagerLocks` | the lock protocol inside ChannelManager's methods | |
| `MCControlServer`, `MCManagerLocks`, `ControlServerProof` | instances; theorems about both | |
| `VoiceRelay` | the UDP task: one packet at a time, copies sent one by one, and the router's table of addresses | |
| `MCVoiceRelay`, `VoiceRelayProof` | instance; theorems | |
| `Directory` | users, roles, role assignments, channels, channel ACL: an action per SQL statement | |
| `PermissionCheck` | the check of a permission, query by query | extends `Directory` |
| `MCPermissionCheck`, `PermissionCheckProof` | instance; theorems | |
| `ReplayWindow` | the sliding window of both SRTP sessions, as operators | |
| `JitterBuffer` | push and pop, as operators on a record | |
| `VoicePath` | speakers, relay, listener | extends both |
| `MCVoicePath`, `VoicePathProof` | instances; theorems | |
| `BoundedFifo` | abstract: a bounded FIFO | |
| `SpscQueue` | LockFreeQueue, step by step | refines `BoundedFifo` |
| `VoiceThreads` | start, stop and shutdown of a voice session among its threads | |
| `MCSpscQueue`, `MCVoiceThreads`, `ThreadsProof` | instances; theorems about both | |
| `TalkControls` | Mute, Deafen, Push-to-Talk, the talk key, the session's mute and deafen | |
| `ChannelControls` | HotkeyManager, keyboard hook, channel widgets, PTT, hot mic and joined channels of the session | |
| `ClientControls` | the main window | extends both |
| `MCClientControls`, `ClientControlsProof` | instance; theorems | |
| `SignIn` | the login dialog with its two clients and its timers | |
| `ClientSession` | the main window, its connection, rosters and list of users, against the server | extends `SignIn` |
| `MCClientSession`, `ClientSessionProof` | instance; theorems about both | |
| `AdminApi` | the admin API client and the handlers of the server | |
| `AdminPanel` | the managers and dialogs of the admin panel | extends `AdminApi` |
| `MCAdminPanel`, `AdminPanelProof` | instance; theorems | |

### ControlServer and the code

`pc[c]` is the place of the task of connection `c`: `idle` is the `select!`,
`kxOffer` ... `kxSet` are the awaits inside the handlers, `unregister` ...
`cleanCast` those of the cleanup at `tls.rs:189-213`. `session`, `joined` are the
task's `Session`; `channels`, `sockets` are ChannelManager's maps; `pending` and
`srtp` the maps by user; `outbox` the mpsc queues. A step is the code from one
await on a shared lock to the next. Sends to a socket do not block in the model;
when the peer is gone (`~alive`) they succeed or fail, and a failing send ends
the handler where the code's `?` does. `reply` is the member list join_channel
returned, `kx` the exchange taken out of the map, `at` the channel of the
running handler. A join is four steps: the manager's list (`JoinChannel`,
`tls.rs:551`), after the await of the channel's name the task's own (`RecordJoin`,
552-556), the answer, the notices. `told` is what the messages that reached a client
last said of each member, not what the window makes of them (`ClientSession` has its
rows); `overtaken` are the channels whose `ChannelJoined` was written to the socket
while older notices of that channel waited in the outbox.

`silent` is a peer that is gone without a word: no ping is sent and no timeout set
(`tls.rs:120`), so that only a failing send ends its task. Methods of the manager are
one step each, except that `Jam` may happen when one task is to unregister while
another broadcasts: then the locks are held in opposite orders for good
(`channel_manager.rs:61/71`, 133/134, in detail in `ManagerLocks`), and `jammed`
stops every step that uses the manager.

Only the requests that change this state are actions: good `Authenticate`
(password or token do the same from here on), `JoinChannel` past its password and
permission checks (a refusal changes nothing), `LeaveChannel`,
`KeyExchangeResponse`. `HasRoom` and `MaxMail` bound the outboxes by holding back
new joins and leaves; the code has no bound. `Requests` selects the requests of an
instance. With `Overlap = FALSE` a user logs in again only after the server has
finished with the old connection. `SafetyView` leaves out `silent`, which only the
fairness reads.

### ManagerLocks and the code

`Awaited` is the list of locks each method awaits, in order, all held to the end
of the method, as the guards are in `channel_manager.rs`. tokio's `RwLock` is
external: requests are granted in the order of arrival, readers together. All
methods are there. `unregister_user` has `user_sockets` and waits for `channels`
while `broadcast_to_channel` does the opposite; a third task's call then waits too, as
every later one does. `Opposed` is this embrace; the properties say that the locks
come to a standstill in no other way, and that every call returns as long as it does
not come to it.

### VoicePath and the code

`StartPtt`, `StopPtt`, `SetHotMicChannel`, `CaptureAudio` are the sending half:
one frame goes to each target channel with a sequence number of its own, and
`start_ptt` burns a number for its presence packet (the server registers the
address and then drops the packet, which is too short to decrypt); so does
a speaker's own join, to the network no other than a short PTT. `Relay` is
`receive_loop`. `ReceivePacket`, `DecryptPacket`, `StorePacket` are the three
stretches of `on_packet_received` between which no lock is held; `StartMix` and
`MixChannel` those of `mix_channels`. `taken` and `spent` are history variables.

Numbers count per speaker, from 0, and meet in the one window of the listener.

Assumptions: every user has an SRTP session and is a member of all channels
(`ControlServer` is about these), all packets are genuine, the session is active.
The network is a set nothing leaves: a packet that is never received was lost,
one received again was repeated. A muted microphone is one that captures
nothing. One frame is captured in one step: concurrent takers of the atomic
counter get different numbers in any order. A lookup of a jitter buffer and its
`pop` are one step here; that the code keeps a raw pointer across the unlock is
part of `VoiceThreads`. Sequence number 0 is the code's sentinel
for "nothing received", which is why the window may accept it twice; two
properties exclude it, as they must.

### SpscQueue and the code

Each of `try_push` and `try_pop` is three steps: load the other thread's index
and decide, access the slot, publish the own index. A load returns the current
value or any older one the thread has not passed yet (`Loadable`); the slot
written before a released index is visible with it, which is what
acquire/release gives. The program instantiates the queue nowhere: this is the header
by itself, used as its comment says.

### ClientControls and the code

Everything here runs in the thread of the UI: slots, the callbacks of QWebSocket,
replies of the admin API and the low-level keyboard hook, so that each handler is
one action. The client is the Windows build; the other builds have no hook.
`binds` is HotkeyManager's `channel_hotkeys_` (`key`), `key_to_channel_` (`byQt`)
and `vk_to_channel_` (`byVk`), 0 and `NoKey` standing for "no entry". A key
sequence is what the code reads of it, its Qt code and what `qtKeyToVirtualKey`
makes of it: a number pad digit shares the first with the digit, some keys have
none of the second. `held` is the keyboard, `pressed` is `pressed_keys_`. `todo`
makes the loops over channels of `createDefaultChannels` and
`onAdminChannelsChanged` a turn at a time; nothing else runs meanwhile. `lit` is
what the widgets show, `labels` the hotkeys they name; a deleted widget shows nothing. The dialog for a new hotkey
is its result: while it is open the hook, replies and the session go on, which is
why `ChangeHotkey` does not ask what else is going on. A label is set whether or not
the key was registered (`main_window.cpp:910`, 1042, 1245), so that a widget may name a
key that is bound nowhere and another leave out one that is: no property on labels
holds in either direction. No step reads them, and `View` leaves them out.

`talkKey` is the talk key itself and `focused` the focus of the window: the key's
events arrive only with it (`main_window.cpp:686-702`), and a key released in another
window leaves `talking` set.

`UpdateMicrophoneState` copies the window's flags to the session, and only those
slots that call it do. A click, or `setChecked` when it changes the button, runs
the slot at once: `onMuteToggled` in push-to-talk mode calls itself for ever, which
the model calls `crashed` and after which nothing happens.

`Calm = TRUE` restricts an instance to changes of hotkeys, by dialog or by reload,
while no key is held; with `FALSE` `PttFollowsKeys` fails (see 4). `MaxHeld` bounds the keys
held at once.

### VoiceRelay and the code

`receive_loop` of `udp.rs` takes one packet after the other. Of the VoiceRouter it
calls `register_udp_address` and `get_udp_address`, the only callers there are, so
that `addr_to_user` is the one table that is ever filled, by this task alone.
What the ChannelManager and the SRTP table say is a free choice at each look, since
connections change both meanwhile (`ListMembers`, `Drop`, a failing copy). A user may
have several addresses: an old one stays in `addr_to_user`, and a copy goes to any of
them.

### Directory, PermissionCheck and the code

An action of `Directory` is one SQL statement of `db/repositories` or of the admin
API, with the `ON DELETE CASCADE`s of `migrations/001_initial_schema.sql`; a
statement that violates a constraint changes nothing and is no action.
`PermissionCheck` is the sequence of reads behind `JoinChannel` and
`RequestAllChannelRosters` (`tls.rs`, `permissions.rs`): channel and password, user,
roles with their permissions, ACL of the channel. `Effective` is what the code
makes of them. A password is right or wrong and needs no state. `seen` and
`changed` are history variables; that a statement found nothing to change is a stutter.
`Created` keeps serial numbers that are still
referred to from being given out twice, as a finite set of ids would otherwise.

### SignIn, ClientSession and the code

`SignIn` is `login_dialog.cpp` with the lambdas of `ui_main.cpp`: each of the two
buttons has a `WebSocketClient` in a static pointer (`dialogWs`), `sends` and `closes`
count the timers of 500 and 100 ms, which act on the pointer and not on the client
they were started for. `popups` are results queued for the event loop. An attempt need not end: a
connection that took longer than 500 ms, a loss, or a client dropped by an older timer
leaves it without an answer.

`ClientSession` goes on with `main_window.cpp`, `websocket_client.cpp` and
`channel_roster_manager.cpp`. `up` and `down` are the connection, and behind `down`
the calls queued to the event loop (both FIFO; only the answer to the login and the
key exchange act at once). `members`, `outbox`, `casting`, `todo` and `got` are the
server's side, in the atomicity of `ControlServer`: a change of members and its
notice are two steps, the snapshot of all rosters is read channel by channel. `userList_` counts the rows a user has in the window's list: a notice adds a row
without looking for one (`main_window.cpp:812`), `ChannelJoined` starts the list anew. The
connection of the dialog is served until its own cleanup (`EndGuest`), which acts
on the user and so may hit the main window's connection. `astray` and `unheard`
are the channels the properties exclude, with the reason at their declaration.
`MaxMail`, `MaxClicks`, `MaxMoves` and `MaxRegistrations` bound queues, clicks, moves of
the others and clicks on Register.

### VoiceThreads and the code

`gui` is the place of the window's thread in `initialize`, `start`, `stop` and
`shutdown` of `voice_session.cpp`; the shutdown runs twice (`round`), first from
the end of `main` (`ui_main.cpp:335-349`) and then from the destructor of the window, which
`main` deletes after it (358, `main_window.cpp:41-60`). `parts` are the `unique_ptr`s,
`buffers` the map `channel_buffers_`, `held` the raw pointer of `mix_channels`.
Whatever can fail in a start may fail. PortAudio is external: stopping a stream
returns when its callback has. A device that does not exist is looked up through a
null pointer (`crashed`). `Decode` and `CaptureEncodes` may find that the frame is
to be dropped.

### AdminApi, AdminPanel and the code

The managers of users, channels and roles are copies of one code over tables that
share nothing but the counter of requests, so a behaviour chooses one (`kind`).
A row has two fields, one value of which the forms cannot show (`Kept`: trimmed
text, the range of a spin box, permissions without a check box). `requests` is the
bag of replies the client waits for: QNetworkAccessManager has several
connections, so the server takes them, and the client gets their answers, in any
order; any may fail, before or after its effect. `HandleReply` is `handleReply` with
the callback it ends in. `dialog` is the modal dialog, during which answers go on
being handled. `ChangeElsewhere` is another administrator. `reported` and `missed` are
history; the rows of the voice tab are left out, as nothing goes by them. `update_user`
is two statements: name and detail are written one after the other (`users.rs:140-158`,
phase `half`), the second may fail when the first is done, and a null email, which is
what an emptied field is sent as (`Cleared`), is ignored. The Reset Password button
accepts the dialog with what it holds, past the check of its fields
(`edit_user_dialog.cpp:74`). The boxes for a user's status are shown and never sent, and
are left out. Bounds: `MaxId`, `MaxChanges`, `MaxRequests` (one less for the timer of
the dashboard).

## 3. Runs

| Run | Instance | Distinct states | Shows |
|---|---|---|---|
| `ControlSequential` | 2 users, 3 connections, 1 channel, no overlap | 1.77 million | sessions, manager, socket table, notices and voice keys agree, between the awaits of a join as well; implements `Membership` |
| `ControlOverlap` | 2 users, 2 connections, 1 channel, overlap, fairness | 122 thousand | sockets live, members served, nothing left over, users whose end is reported leave |
| `ControlStaleCleanup` | 2 users, 2 connections, 1 channel, overlap | violation | the finding of section 4 |
| `ManagerLocks` | 3 tasks, 6 methods with all orders of locks, fairness | 15 thousand | the locks come to a standstill in one way only, and otherwise every call returns |
| `VoiceRelay` | 3 addresses, 3 users, 1 channel | 1666 | no copy goes back to its origin |
| `PermissionCheck` | 1 user, 2 roles, 2 channels, 1 checking task | 436 thousand | no dangling row, answers are justified |
| `VoicePath` | 2 speakers with 3 and 2 numbers, 1 channel, window 2, target 1 (capacity 2) | 2.07 million | buffers well formed, no frame twice, refusals have one of three causes, no duplicate reaches a buffer |
| `VoiceThreads` | 2 channels, fairness | 1440 | parts outlive their use, silence after stop, everything released, the shutdown returns |
| `SpscQueue` | 4 slots, 2 values | 7424 | no race, refines `BoundedFifo` |
| `ClientControls` | 2 channels, 4 keys, 2 held at once, `Calm` | 1.76 million | tables agree, push-to-talk follows the keys, lights and the indicator are true |
| `ClientSession` | 1 other user, 2 channels, 2 clicks, 3 moves, 2 registrations | 2.11 million | the dialog leaves no timer behind; rosters, list of users and joined channels settle on the server's |
| `AdminPanel` | one table of 3 kinds, 2 ids, 2 changes, 2 requests, 4 values | 2.92 million | the busy label is true, reported changes are in the lists |

**Bounds.** Three connections let a user come back while another user watches, or
twice in a row; two overlapping connections are what the per-user tables can
confuse. One channel suffices there, as no handler is about two; the cleanup, which
announces channel by channel, is proved for any number of them. Three tasks are one more
than an embrace of two lock orders needs, so that one can queue between two others; the
methods left out take the same locks as one that is there. A window of 2
and a capacity of 2 make every branch of both algorithms happen within three
numbers: ahead, within, behind, shifted out, full, gap; a second speaker with two numbers
meets both the newest and the older bit of the window. Four slots let the ring
wrap with stale indices on both sides. Two channels and
four keys (a function key, a digit and its twin on the number pad, a key that
cannot be mapped) give every conflict of the hotkey tables; two held keys are what a
release can confuse. With three addresses two users can exchange theirs while one
of them keeps a stale one; a third user can take it over. Two roles are what an override can contradict,
two channels a tree that is deleted from above. In `ClientSession` a user can join
and leave again around the snapshot, and a click can undo another; a second
registration is what an older timer confuses. In `AdminPanel` two requests can
overtake each other, two changes make a list stale, and the four values are two
ordinary ones, the emptied text and one that the forms cannot show. The safety properties are also proved
for instances of any size.

**Views.** Three runs tell states apart by a part of the variables. `SafetyView` and the
`View` of `MCClientControls` leave out variables that no guard and no checked property
reads. `SwitchView` leaves out the deafened and muted switches of the listener: guards
read them, but only to do less.

**Deadlock** is checked for `VoiceRelay`, `PermissionCheck` and
`AdminPanel`. The others stop by design, connections being used once, sequence numbers
running out, programs crashing or ending, bounds on clicks used up; and
`ManagerLocks` because the deadlock is real.

**Fairness.** `ControlServer!FairSpec` is weak fairness of the steps a task takes
by itself once it is runnable (tokio polls every task that is woken) and of
leaving the loop once the socket has reported its end: `select!` without `biased` polls
its branches in random order, so notices cannot hide the end of the stream
forever. There is no fairness for the end of a `silent` peer, whom nothing reports, and
steps that need a lock of a `jammed` manager are not enabled. No client
request and no hang-up is fair. `FairLockSpec` of `ManagerLocks` adds
weak fairness of a grant: tokio's semaphore wakes the first waiter that fits.
`VoiceThreads!FairSpec` says that the window's thread goes on with a shutdown it has
begun, and that the operating system lets a callback that runs and the receive
thread go on; no new frame or packet, and no click, is fair.
The other specifications have no fairness and only safety properties.

## 4. Findings

**The cleanup of a connection works on the user** (run `ControlStaleCleanup`,
`tls.rs:194-203`): the end of an old connection takes the new connection of the same
user out of its channels, while the new task's session still lists them. Pending
exchanges and SRTP sessions are per user as well and go the same way. Every client
has two connections one after the other, the dialog's and the main window's, so that
this concerns every sign-in (`ClientSession!EndGuest`).

**Where the code fails and the properties say so.** A property that names an exception
fails without it; the models contain the failing behaviour.

* *Manager.* `unregister_user` and `broadcast_to_channel` take two locks in opposite
  orders (`channel_manager.rs:61/71`, 133/134). After that no method returns, and no user is
  ever taken out of a channel: `StuckOnlyWhenOpposed`, `CallsReturnUnlessOpposed` and
  `DepartedUsersLeave` name the embrace.
* *Silent peers.* Nothing notices a client that vanishes without a word
  (`tls.rs:120`): `DepartedUsersLeave` is about the others.
* *Notices.* `ChannelJoined` goes to the socket past the notices in the outbox
  (`tls.rs:565`), which then contradict the newer list: `LastWordUnlessOvertaken` excepts these
  channels until a join overtakes nothing.
* *Overlapping logins.* `SessionMatchesManager`, `ServedUsersAreReachable`,
  `VoiceKeysAgree`, `LastWordUnlessOvertaken` and the refinement of `Membership` hold without them only.
* *Replay window.* The relay encrypts with the speaker's sequence number and a
  listener has one window for all (`srtp_session.cpp:63`, 95): a fresh packet is refused
  for another speaker's of the same number, or for one a window ahead of it. `RefusalsHaveACause` names both.
* *Jitter buffer.* `push` refuses what is more than twice the target ahead and `pop` does
  not move a short buffer (`jitter_buffer.cpp:34`): after a gap of that size a buffer takes
  no frame any more. `BuffersWellFormed` says nothing of progress.
* *Jitter buffers and clicks.* Joining or leaving a channel destroys the buffer
  (`voice_session.cpp:606`, 629) to which `mix_channels` may hold a raw pointer
  (572, 579). The step is in `VoiceThreads`; no property says that it does not happen.
* *Sockets.* Nothing closes the socket of an address that was refused
  (`udp_socket.cpp:123`): `EverythingReleased` excepts it.
* *Stale addresses.* Addresses are only ever added and the first that is found is taken
  (`voice_router.rs:227`, 233): a user who moved may not hear anything.
* *Held hotkeys.* `handleKeyRelease` asks which channel a key belongs to when it comes up
  (`hotkey_manager.cpp:213`), and a hotkey that was changed while it was held is never
  released: `PttFollowsKeys` needs `Calm`.
* *Talk key.* Released in another window it leaves the microphone open
  (`main_window.cpp:695`). `IndicatorIsTrue` says that the window shows TRANSMITTING then.
* *Hotkey labels* are set even if the key was not registered (`main_window.cpp:910`).
* *Hot microphones* can stay on with their light out; `LightsAreTrue` says that a lit light is true.
* *Mute in push-to-talk mode* calls its slot without end (`main_window.cpp:505`): `crashed`.
* *Login dialog.* A request that is sent to a client that is not open is lost and nobody
  is told (`ui_main.cpp:196`); after a refused login the dialog stays disabled
  (`login_dialog.cpp:228`). `NothingLeftBehind` is about the dialogs that are accepted.
* *List of users.* Who joins at the same time is in `ChannelJoined` and in a notice, has two
  rows (`main_window.cpp:812`), and keeps one after leaving: `NobodyIsMissing` speaks of missing users only.
* *Joined channels.* One whose request was refused or not sent stays shown as joined:
  `VoiceFollowsMembership` excepts `unheard` ones.
* *Permissions.* Deleting a role removes the ACL entry that kept its holders out as well,
  and a check it overtakes grants what neither state allows: `DecisionsAreJustified`
  excepts checks during which two of the parts changed.
* *Admin panel.* A role's permissions that have no box are cleared by any edit
  (`edit_role_dialog.cpp:136-165`), the boxes for a user's status are not sent
  (`edit_user_dialog.cpp:165`), Reset Password accepts the form without its check (74), a user's
  update can fail half done (`users.rs:150`), an emptied email is ignored. No property says that a request
  holds what the administrator meant.
* *Reported changes.* A list whose requests overlapped or failed can be old, which
  `ListsShowReportedChanges` excepts. The edit of a user is always reported as a failure:
  `updateUser` looks for an `id` in an answer that has none
  (`admin_api_client.cpp:233`), and the list is not fetched again.

## 5. Proofs

All theorems hold for every value of the constants that satisfies the named
assumptions: sentinels outside their sets (`SentinelAssumption`, `NobodyAssumption`,
`NoChannelAssumption`, `NoPacketAssumption`, `NoParentAssumption`,
`NoPermissionAssumption`), Booleans (`ClientAssumption`), positive channel ids and
finitely many of them (`ChannelAssumption`, a frame takes `Cardinality` many numbers), a
positive window, buffer target and number of slots, some value and some user (`UserAssumption`).

**ControlServerProof.** The inductive invariant says for each task what its place in
the code implies: which of the fields are set (`TypedTasks`, `TaskOK`), that a table
entry of a user points to a connection that authenticated as this user and still
serves or is just about to clean that entry up (`KeysAreOwned`), and that members
are served. None of the properties is inductive alone: that nothing is left
after the last cleanup needs to know at each cleanup step what the earlier ones
removed. From it follow `TypeCorrect`, `LiveSockets`, `ServedMembers`, `NothingLeft`
for any behaviour of the clients. Under `Overlap = FALSE` the invariant is strengthened by
`Alone`/`Sequential` (at most one connection of a user is not done), which gives
`SequentialSessions` (with the channel a join is just `Entering`), `ServedReachable` and the
refinement `ImplementsMembership`: each
step of the tasks is a step of `Membership` or a stutter. `KeysAgree` needs in
addition what a task's own key exchange has come to (`ExchangesInStep`): the pending
exchange of a user is that of the connection that may still answer it, so that the
session that is stored comes from the client that answers. `LastWord` rests on
`Informed`: the list a client has or is about to be sent, with the mail of its outbox
applied in order (`EndsIn`), is right about every user except those of whom another
task still owes a notice (`Owes`: it is in the handler, or its connection is lost and
the cleanup due). A channel is `overtaken` from a join that finds mail for it in the outbox to
one that finds none. When nothing is on its way nobody owes and no mail is left.
For `ManagerLocks`: a task waits in one queue at most (`Once`), for the lock its
method needs next (`Pending`, `Asks`), has the locks it was granted and no others (`Has`,
`Owns`), and a writer is alone. If nothing can go on, someone waits for `channels` or for
`user_sockets` or for `user_names`, and following who has these leads to the embrace
(`OneEmbrace`), for any number of tasks and any of the methods.

**VoicePathProof.** Lemmas about the two algorithms first: a window that accepted a
number other than 0 refuses it from then on, whatever else it accepts
(`AcceptedOnce`, `RefusedForGood`); `lower_bound` has one answer in a sorted deque
(`InsertionPointExists`); push and pop keep a buffer sorted, bounded, not behind
its next number, and add nothing but the pushed frame (`PushedSound`, `PoppedSound`).
The invariant `PathInv` then follows a frame along its way, window, packet being
stored, buffer, ear: `Origin` (what is further on was accepted), `Remembered` (what
was accepted is refused), `Once` (it is in one place only; a buffer holds only
frames of its own channel, so a played frame is in no other). From it:
`TypeCorrect`, `BuffersStaySound`, `NoFrameTwice`, `NoDuplicateEvicts`. For
`RefusalsExplained` the invariant says that a speaker's numbers name its packets
(`Numbered`, which needs that the channels of one frame have different ranks, the
`Rank` lemmas) and that every bit of the listener's window stands for a packet it
has taken (`Vouched`), of whichever speaker. The theorem is about any number of
speakers; what it cannot say, and what is not so, is that only repeated packets are refused.

**ClientControlsProof.** `TablesInv` (types, and that the tables agree) is kept by
every step because of two lemmas about the operators of HotkeyManager:
`UnregisteredAgrees`, and `RegisteredAgrees`, which needs that a key without a
virtual key code is registered only for a channel that has no hotkey, as the window
sees to. That two virtual keys never lead to one channel (`OneKeyPerChannel`)
follows, and with it `PttInv`: under `Calm`, the pressed keys are the held ones
that have a channel, push-to-talk is on for these, and no key is held while the
widgets are made. `TalkInv` says for the push-to-talk mode what the session was last told.
From these: `TypeCorrect`, `HotkeysStayConsistent`, `PttAlwaysFollowsKeys`,
`IndicatorStaysTrue`, `LightsStayTrue`, for any channels, keys and defaults
(`ChannelAssumption`, `KeyAssumption`: keys with one virtual key code have one Qt
code, the default keys can be mapped).

**VoiceRelayProof.** `Serving` says that the address of the packet is the speaker's
from its registration to the last copy, and that the speaker is not among those who get
one; `TypeCorrect` and `NoEcho` follow.

**PermissionCheckProof.** `SubtreeClosed` says that what a deleted channel takes along
is closed under children, which with one case per statement gives
`ReferencesAlwaysHold`. For `DecisionsJustified` the invariant names the answer a
check is `Heading` for, completing what it has read from the tables as they are;
`Fresh` says that what was read is still so or listed as changed. As long as one
kind of thing changed, either nothing read so far is stale, and the heading is the
right answer of now, or the change is to something already read and the heading
stays (`HeadingRight`).

**ThreadsProof.** For `VoiceThreads`, `IInv` is the order of the shutdown written down: for each label
of the window's thread, which streams may run (`Streams`), which callback may be in a
frame (`Callbacks`), whether the socket is connected and its thread runs
(`Connection`), what exists (`Living`) and what is gone for good (`Released`).
None of the properties is inductive without it.
For `SpscQueue`: around the ring the producer's view of the head, the head, the
consumer's view of the tail and the tail come in this order (`Ordered`, by
`Between`, which says that distances add up); `LastMoves`, `FirstMoves` and
`MiddleMoves` say how the order survives a step. With `Copied` (what is being moved
is in its slot, and what was read is still there) follow `NoRace` and, through
`PublishPushes` and `PublishPops`, the `Refinement` of `BoundedFifo`, for any number of
slots.

**ClientSessionProof.** Two invariants. `SignInInv` is about the dialog: one attempt to log
in at a time, whose request, answer and end follow on each other (`LoginOnce`), and
timers that count what is due; it gives `AcceptedIsOver`.
`RosterInv` is about what is on its way. A queue *says* yes or no to a question if the last of its
messages that decides the question does (`Says`, `Never`, with lemmas for appending to
a queue and taking from it). What is listened to is what the server will have of this
user when it has handled the requests (`Follows`), which gives `VoiceFollows`. What a
roster will show when the answers, the lists being read for the snapshot and the
notices in the outbox have been applied, in the order in which they arrive (`Roster`), is
right about every user of whom no notice is owed (`Informed`); for the list of users
`Row` says the same of the channel whose answer comes last (`Listed`, `Entered`). The other parts
say that the login and the snapshot are asked for once (`Asking`, `Fresh`), which channels
the snapshot has still to read (`Scans`, `Reads`) and that a notice that is not sent
yet is true (`Casts`). From these: `RostersAreRight`, `ListIsComplete`, `TypeCorrect`, for
any users, channels and bounds.

**AdminPanelProof.** `requests` is a bag; `Copies` makes a set of it, whose cardinality the
lemmas `Adding` and `Removing` follow (the library's `BagCardinality` is a recursive sum, about
which nothing can be proved). Then `pending_requests_` counts the copies (`Counted`), from
which `BusyLabel` follows where a handler compares it with 1. For `ListsAreFresh`: a list that is not
`missed` has one request in flight at most (`AloneIn`), whose answer, once the server has
given it, has everything reported (`Recent`), and without one the list has
(`Fetched`); a success that reports a change asks again for every list it is about,
so only a ban, which changes nothing the lists show a version of, asks for fewer.
For the types, what is selected is in the list, and what an edit was opened with is a
row (`Chosen`, `Mail`). The theorems are about any values, forms, rows and any
number of requests in flight.

**Only model-checked**: the liveness properties (`DepartedUsersLeave`,
`CallsReturnUnlessOpposed`, `ShutdownReturns`), which need fairness. Every safety property of a
passing run is also a theorem, under the same restrictions as the run (`Overlap`, `Calm`).
Every inductive invariant was model-checked on the instance of its run before it was proved.

## 6. Plan

In this order:

1. *Voice session*: the replacement of the SRTP session while packets are decrypted.
2. *Control connections*: the role messages of the dispatcher, with their answers.
3. *Proofs*: an abstract roster that `ClientSession` implements.

## 7. Not modelled

Encryption, authentication tags, Opus, mixing and resampling (data without
control); the settings dialog and what the fields of the other dialogs hold, but for
what their requests contain; layout, text, logging and statistics; organizations,
metrics and the audit log of the server (written or read, never acted on); start-up,
configuration and tokens; `user_registry.rs` (not reached from `main.rs`);
`AudioMixer`, `onResetPassword`, `clearAllHotkeys`, `updateUserSpeaking` and other
functions nobody calls, the methods of VoiceRouter that join and leave channels and
choose where to transmit among them. `user_names` is written with `user_sockets`, never emptied, and read for
a line of the log only. The unbounded outbox (`tls.rs:100`) is listed as a hazard without a property:
nothing in the repository bounds it.
