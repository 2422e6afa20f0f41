# A TLA+ model of youtube-rooms

youtube-rooms is a watch-together service: a Rust server (`apps/server`, axum,
Postgres, Redis) holds one authoritative playback timeline per room, and a web
client (`apps/web`) extrapolates every viewer's player from it. This directory
models the parts of the program whose correctness is a matter of order: who may
change the timeline, on what they had seen, and in what order everybody hears;
which node owns a room; what a client's session, socket, player and panels make
of events that arrive late, twice or never.

Contents: [inventory](#inventory) · [modules](#modules-and-the-code) ·
[runs](#runs) · [bounds](#bounds) · [fairness](#fairness) ·
[proofs](#proofs) · [findings](#findings) · [what is not modelled](#not-modelled) ·
[plan](#plan)

Use: `tlc -workers 2 -config MCTimeline.cfg MCTimeline`, `tlapm
RoomCopies_proofs.tla`. `PROJECT.json` lists the runs, the source lines of each
definition, the mutants that show a property can fail, the hazards and the
theorems.

## Inventory

Paths are relative to the repository root. "Hard" names what a test hardly
reaches; "correct" what makes the component right.

| Component | State | Operations | Talks to | Hard | Correct when |
|---|---|---|---|---|---|
| Timeline (`sync/timeline.rs`) | anchor, rate, paused, version, loop, duration, hold | idle, play, pause, seek, set_rate, set_loop, load, start_playback, set_duration, clear, restart | called under the room's lock | re-anchoring; the hold against rate, loop and late durations; the end of a video | the derived position moves only by time or by a command that names a place; every change has the next version; a held cue stands at zero |
| Session handlers (`realtime/session.rs`) | role and permissions cached per socket | one handler per client message | room lock, queue rows, Redis, broadcast | several awaits per handler; decisions acted on later | stale intents rejected; one decision, one advance; clients converge |
| Auto-advance sweep (`realtime/autoadvance.rs`) | one clock reading per pass | release overdue cues, restart, pause, advance | the same lock and `advance` | stale reading and decision | cues start, ended videos are moved on from, nothing else |
| Room and socket (`realtime/room.rs`, `realtime/ws.rs`) | participants, ballots, typing, voice; per socket a broadcast receiver and a reply channel | attach, detach, subscribe, ready snapshot, teardown | hub, database, handlers | snapshot against broadcasts; overflow; reconnect; capacity; failure after attach | a connected client ends on the room's state; ballots are of people present |
| Hub (`realtime/hub.rs`, `cache.rs`, `realtime/relay.rs`) | rooms in memory, owned leases, mirror in Redis | get_or_create, claim, renew, release, drain, broadcast, forward, restore | Redis, other nodes | lease expiry, two owners, restore of an old mirror, release against a joiner | one owner at a time; versions never go back for a client |
| Queue (`db/queue.rs`, `util.rs`) | rows with a fractional position and played_at | add, add_many, remove, clear, move, shuffle, pop, mark_played, requeue | Postgres row locks | SKIP LOCKED, ties, precision floor, non-transactional requeue | an item is handed out once; the order is what users asked for |
| Room store and panels (`stores/room-store.ts`, `components/room/*.tsx`) | last timeline, queue, people, role, messages; forms and scroll | apply each server message, show, command | the socket | snapshot against broadcasts; duplicates; forms half filled in | never rolls back; shows what the room is |
| Session (`lib/api.ts`, `session-provider.tsx`) | access token, single-flight refresh, silent timer | request, refresh, sign in, rename, sign out | REST, the cookie jar | a refresh per caller; a reload during one; a lost answer | the server never takes the tab's own refresh for a theft |
| Room socket (`realtime/socket.ts`) | state, back-off timer, WebSocket, outbox | connect, close, send, reconnect | the session's tickets, the room | drops between any two steps; commands given while down | comes back; a command goes out once |
| Player (`player.tsx`, `realtime/player/*.ts`, `use-player-sync.ts`) | the engine in place, its widget, what the chrome shows, the rate pushed | build, destroy, play, pause, seek, mute, correct drift | third-party scripts and iframes, the store | late scripts, refused autoplay, stalls, events of a destroyed engine | one widget; never silent without saying so; never waits for ever |
| Clock (`realtime/clock.ts`) | probe samples, offset | seed, add sample, reset | ping/pong | asymmetric delays | the offset of the quickest probe |
| Presence and room life (`rooms/lifecycle.rs`, `db/rooms.rs`) | empty_since, participants | set_emptiness, touch_activity, close expired | teardown, joins, sweep | arrivals and departures writing out of order | an empty room closes, and no other |
| Host lifecycle (`rooms/lifecycle.rs`, `ws.rs`, `session.rs`) | host, owner, successor, roles | handover after grace, reclaim, designate, transfer | database, room info | the host returning during the grace period; a handover's statements between a reclaim's | exactly one host, in the rows and in memory; the creator while there; a handover due while there is none |
| Permissions (`rooms/permissions.rs`) | pure | resolve | sessions | cached results going stale | nobody acts on a right they lost |
| Voice (`session.rs`) | who is in the call | join, leave, signal | sockets | leave against join; politeness | exactly one polite peer in a pair |
| Tokens (`auth/*`, `db/users.rs`) | refresh families, one-shot tickets | issue, rotate, revoke, redeem | Postgres, Redis | two refreshes with one token | a token is good once; reuse revokes the family |
| Rate limit (`ratelimit.rs`) | sliding window in Redis | check | every costly handler | window boundary, Redis down | never more than the limit |
| Chat | rows, a snapshot of the latest | say, announce | sockets | the snapshot against the announcement | said once, shown once |
| Media, REST, configuration, component library | rows, parsers, forms | create/read | — | no protocol | — |

How they meet. A socket's read loop hands each message to a handler and waits
for it; a handler takes the room's lock for the in-memory part only, and awaits
Postgres, Redis and the broadcast outside it. So between any two awaits another
session's handler or the sweep may run. Results leave by `publish_timeline`:
clone under the lock, write the mirror, send to all receivers. Each socket has
a writer task that takes direct replies and broadcasts, from two queues, in no
particular order.

## Modules and the code

| Module | What it is |
|---|---|
| `Timeline` | `timeline.rs` as pure operators, one per method: old record and clock reading in, new record out |
| `TimelineMachine` | the type alone as a state machine: a clock and every method, in any order |
| `Playhead` | what viewers are promised, with no anchor and no version: the abstract specification |
| `RoomPlayback` | one room on its owner: lock, handlers, sweep, queue rows, sockets, client stores |
| `RoomLease` | one room on several nodes: lease, room objects, mirror, forwarded intents |
| `RoomLifecycle` | who runs a room and when it closes: joining and leaving statement by statement, reclaim, handover, the host's acts, the empty-room sweep |
| `RoomStore`, `RoomMessages` | the client's reducer, and the messages it may be told |
| `RoomMembers`, `RoomView` | the server's side of a room less its playback, composed with the panels one client shows |
| `Session`, `RoomSocket`, `RoomClient` | one tab: tokens and refreshes; then its socket, outbox and clock; then its pages and the room's shell |
| `ClockEstimator` | the offset a window of probes gives, as a pure function: sorting is what it leaves at an index |
| `PlayerEngine` | what the four adapters share: the engine contract, the script loaders, the widget, the events they report |
| `YouTubeEngine`, `TwitchEngine`, `KickEngine`, `MediaEngine` | each adapter, its methods as operators and its callbacks as the page runs them |
| `PlayerSync`, `Player` | the sync loop over any engine; the component that builds engines, its controls and its viewer |
| `MCTimeline`, `MCRoomPlayback`, `MCRoomLease`, `MCRoomLifecycle`, `MCRoomView`, `MCRoomClient`, `MCPlayer` | values for the constants of the runs |
| `TimelineLemmas` | what each timeline operator preserves, cited by the proofs about timelines |
| `TimelineMachine_proofs`, `RoomPlayback_proofs`, `RoomCopies_proofs`, `RoomLease_proofs`, `RoomClient_proofs`, `RoomView_proofs`, `Player_proofs` | the theorems |

How they compose: `RoomPlayback` calls `Timeline`'s operators; `RoomView`
extends `RoomMembers`, which extends `RoomMessages` and `RoomStore`;
`RoomClient` extends `RoomSocket`, which extends `Session` (a ticket is a request
like any other, so a socket can be waiting for a refresh) and is fed by the
pages; `Player` extends `PlayerSync`, which extends the four adapters.
`RoomLifecycle` stands alone: it has the same joins and leaves as `RoomMembers`,
cut at every statement, with what `RoomMembers` announces left out.

**Timeline.** Field for field; `item` stands for `source` and `queue_item_id`,
which `load` sets together from one queue row. Time and positions are integers
and a rate is an integer number of position units per time unit (quarter speeds
as the unit), so re-anchoring is exact: floating-point rounding is not modelled.
`duration = 0` is `None`. `Wire` is the record after serialisation, which skips
`cued_at`.

**RoomPlayback.** `job[a]` is the program counter of one session or of the
sweep: `at` names the next statement, `item`, `copy` and `clock` are the local
variables that survive an await, `rows` the row locks of an open transaction.
An action is what the code does between two awaits. `advance` is
`Pop`/`Find`+`MarkPlayed`/`Recall`+`Requeue`+`Pop`, then `LoadOrClear`, then
`ReadTimeline`, `Persist`, `Broadcast` (`publish_timeline`). The queue handlers
are `QueueAdd`, `LockHead`+`InsertNext` (play_next), `RemoveRow`,
`ClearPending`, `LockQueue`+`Reorder` (move and shuffle), each insertion
followed by `StartIfIdle`. Where the code computes a position in one statement
and uses it in another without a lock (`QueueAdd` reads the greatest and
`AppendRow` inserts; `MeasureHead` reads the least and `Requeue` updates), these
are two steps, and a row whose neighbour moved meanwhile may land on either side
of it. The sweep is `SweepBegin` (the clock reading),
`SweepOverdue`, `SweepEnded`, and `SweepRestart`, `SweepPause` or an advance.
A socket is `link`, `inbox` (its broadcast receiver) and `welcome` (its direct
channel, of which only the ready reply concerns the timeline). When a
statement fails after the attach (`SnapshotFails`), the session ends without the
detach: the room goes on counting the person (`connections`), and the socket is
`deaf`, its writer passing on broadcasts to a client that nobody hears, until the
client gives up on it (`GiveUp`). `view` is the
timeline in `room-store.ts`; a command in `outbox` carries the view it was
computed on. `about` is a history variable that the actions never read: the
video a vote or the sweep had decided to leave.

Abstractions, each chosen because no property here tells the difference: one
connection per person and one command in flight per client; chat rows, presence,
queue and vote-count broadcasts are left out (their failures come after the
timeline is published); positions of queue rows are an order, and two rows
that would tie stand in one of the two orders; the ratio of votes is rational, its ceiling exact; a failed handler's error
reply is not delivered. `queue_import` is in `RoomMembers`.

**RoomLease.** A timeline is its version, and the lease is `key`, the node the
Redis key names. `owned` are the nodes that believe they own the room
(`Hub.owned`), `rooms` the room objects with their timelines and people, and
`cur[n]` the one a node finds under the room's id.
`get_or_create` is a look at the map, `try_claim`, `restore` and the insert, each
a step; `release` decides and drops in separate steps; `assume_authority` is the
intent's own claim. A node that restarts draws a new id, so a dead node's key
stays under `Dead` until it `Lapses`; a lapse under a live owner is a fault, as
are a crash, a drain and a Redis error. Three ghosts name what a run may assume:
`doubt` (nodes whose belief outlived its lease, could not reach Redis, or were
claimed for while a release of their own was on its way), `astray` (a change was
made on a timeline that was not the newest, or a mirror write was lost or
overtaken), `newest` (the newest version announced).

**RoomMembers, RoomView.** One user (`Me`) is modelled with their client, the
host and others by what they do. `live` is the roles of those present as the
room's memory has them, `sess` the role and permissions each session decides
with, taken when it was made. Each handler is a step per statement or broadcast,
and lets go of what it wrote before it tells of it, so two handlers can announce
in the order opposite to their writes. A change of role is the row, the live copy
(`RoleApplied`), the list (`RoleAnnounced`) and the target's permissions
(`TargetTold`); a transfer is told to the list (`HostAnnounced`, whose broadcasts,
one per participant, are one step here), then to the old host (`HostTold`) and to
the new one; a nomination and a saved setting are written (`Designate`,
`PatchSaved`, `PatchApplied`) and announced later (`DesignateAnnounced`,
`PatchAnnounced`). `crossed` records when two did cross: for the queue until
somebody alone announces the list as it is, for the room's own record until the
last announcement under way is of the room as it is, for roles for good. `Admitted` reads a joiner's
membership and `Attaches` acts on it; `raced` records what was announced while
the client was joining, or a role that changed between the two. `store` is the reducer's
state; the panels' own state (the chat's scroll, the settings form, the theme of
the document) is in `RoomView`.

**Session, RoomSocket, RoomClient.** A refresh token is its index in `rows`, an
access token its family. `call[c]` is where a request stands; `refreshes` holds
the ones in flight, which the client's single-flight keeps to one, each taking
the server's separate statements (`Consumed`, `Rotated`). A request the page gave
up on may still reach the server (`late`, `LateArrives`); a sign-out may be done
and its answer lost (`LogoutLost`); an answer about the account is about whoever
the token it was sent with names (`sender`, `Names`), whatever the page holds by
then. `strayed` records that the client cannot know what became of a refresh the
server served: its answer was lost, the page was reloaded during it, or it was
served after the page had given it up. `wired` is what was handed to a WebSocket, `forgotten`
what a full outbox dropped.

**The player.** The adapters' methods call the page and fire events synchronously,
so a method is an operator on a configuration `[e, w, p]` of engine, widget and
React state, and an action is one task of the event loop. `eng.gen` numbers the
engines built, so a callback of a destroyed one is recognisable. A destroyed engine
is not always silent: the sync loop still holds it in the commit that brings the
next source (`StaleTick`), where Kick's adapter and the `<video>`'s still call
themselves ready, and the latter acts on the element its successor is loading.
Without a source the `<video>` is unmounted and the next one starts unmuted
(`Emptied`).

**RoomLifecycle.** `room` is its row (host, owner, nominee, closed, whether the
clock of the empty room runs, whether anybody is counted in it), `members` the
rows of `room_members`, `open` and `info` the room the hub holds, `seats`, `tabs`
and `standing` its people in order of arrival, their connections and live roles.
`socks[c].at` is the next statement of a connection's handler: `Looks`, `Enters`,
`Reclaims`, `ReclaimTold`, `ReclaimDemotes`, `Attaches`, `Upserts`, `Greets` on the
way in, `Detaches`, `Counts`, `TouchesActivity`, `SetsEmptiness`, `Releases` on the
way out, and the host's own acts while in (`Designates`, `TransfersHost`,
`SetsRole` and what each tells the room after). `sleeping` are the grace periods
running and `handovers[u].at` the next statement of one whose period is over:
`Chooses`, `HandsOver`, `HandoverTold`, `Promotes`. `races` names orders in which
the code does not keep its promises, so that each property can say which it
excuses: `unattended` (the room opened, or its timer ran out, with the host away
and nobody there), `given away` (to somebody absent) and `overtaken` (a statement
ran between two of another's and wrote last what was no longer so). Nothing is
followed past an `overtaken` order. Simplified: one handover of a person at a time;
a grace period, and the sweep's, may be over at any time, no clock is kept;
membership, hub and capacity are one step of a join; a room is not released under
somebody on the way in (`RoomLease` has that); nobody is banned and nothing is
announced (`RoomMembers` has both); statements do not fail, but a transfer does
that the index of one host refuses.

## Runs

| Run | Distinct states | What it shows |
|---|---|---|
| `timeline` | 13,100 | every order of methods up to version 5 keeps the hold, the end, the numbering, and refines `Playhead` |
| `playback` | 3.4 million | two clients with any two commands (of 18 kinds) or setting changes, a cued or idle room with two queued items, and the sweep, interleaved at every await |
| `live` | 672,609 | one viewer who may leave and come back, a failing statement, snapshot or mirror write, a one-place receiver that overflows: cues start and ended videos are moved on from |
| `player` | 105,039 | two engines in turn over five sources of four kinds, scripts that load late or fail, refused autoplay, stalls, the mutes |
| `client` | 933,838 | one tab: two sign-ins, two sockets, two commands, one page opened by a link, an expiry and one fault anywhere |
| `view` | 4.84 million | two operations by any of three users, each handler's steps interleaved, two looks or drops by the visitor |
| `lifecycle` | 2.07 million | a creator with two tabs, a member and a guest in a room for two, three joins and one act of a host or a deletion, every statement interleaved with the others, a handover and the sweep |
| `lease` | 1.11 million | two nodes, two visitors who come and go twice, an intent, and a crash, drain, lapse or Redis error anywhere |
| `permissions`, `stale_ready`, `vote_skip`, `stranded_queue` | stop at the counterexample | the [findings](#findings) |

The long ones take between 30 and 200 seconds each with two workers.

Properties, by the module that states them:

- `TimelineMachine`: `HeldAtZero`, `EndedAtTheEnd` (the sweep's test for the end
  agrees with the position observers derive), `EveryChangeIsNumbered`,
  `ImplementsPlayhead`.
- `RoomPlayback`, safety: `CopiesAgree` (a version names one timeline, among all
  copies anywhere), `HeldIsParked`, `VotesAreLive` (in `live`), `Converged` (when nothing is
  under way every connected client holds the room's timeline); actions:
  `IntentSeesPresent` (a relative intent or ready report takes effect only on the
  state its sender saw); liveness: `CueStarts`, `EndMovesOn`.
- `Player`, safety: `OneWidget` (a destroyed engine leaves nothing and draws
  nothing later), `ReadyOnce`, `SilenceIsOffered` (a start that only succeeded
  silently never looks audible); liveness: `Released` (the client never owes the
  room's wait an answer for good: the engine in place announces that it can play,
  shows an error, or has drawn a widget whose word is awaited), `Plays`, `RateConverges` (the rate remembered from
  another engine does not stick).
- `Session`: `FamilyIntact` (no refresh of the tab's own is taken for a theft
  unless it strayed). `RoomSocket`: `CommandsKept` (each command is in one place:
  on the wire once, in one outbox once, or dropped by a full one; none waits in
  an open socket), `ConfidenceIsFresh`. `RoomClient`: `ClockBounded` (a
  confident estimate is near the truth as soon as more than a fifth of the probes
  were quick, whatever delayed the others: `Robust` of `ClockEstimator`, over
  every window), liveness `ComesBack`.
- `RoomView`: `RosterConverges`, `AuthorityIsMine`, `QueueSettles`, `RoomIsShown`
  (once everything announced has arrived, what is shown is what is), `ChatOnce`,
  `NewsIsOffered`.
  `RosterConverges` promises the roles shown only when changes of roles did not
  cross: with five operations a handover overtaken by a change of roles leaves a
  quiet client with another role than the room's (a counterexample of 25 steps,
  out of reach of the run's two). `ChatOnce` needs the store to hold a snapshot
  and what each user may have under way: it fails for caps with `MaxMessages <
  MaxRecent + |Users| - 1` and three senders that cross, which the code's 300 and
  60 exclude for rooms of at most 100 people (`rooms/routes.rs:148`).
- `RoomLifecycle`: `OneHost` (one host in the rows, and once no write is under way
  the same in the room's row, in the live room and among those present; the owner
  while there), `HostIsDue` (people without their host have a handover due),
  `SweepsTheEmpty` (the sweep may close a room everybody left, and none that
  somebody is in).
- `RoomLease`: `SoleOwner`, `NewestIsMirrored` (what a new owner restores is not
  behind what people were told), liveness `SplitHeals`.
- Stated by comments of the code and refuted: `SkipHitsItsVideo`,
  `NothingStranded`, `PermissionsHonoured`, and `Converged`
  with reconnects.

Deadlock is not checked in the runs of these machines: users may stop acting,
and the clocks and budgets stop at their bounds.

## Bounds

| Bound | Values | Why enough |
|---|---|---|
| `MaxVersion`, `MaxTime` (timeline) | 5, 5 | a load, a start and three further commands, and time past the end (length 3) at either rate |
| `MaxSends` | 1 in `live`, 2 in `playback`, up to 3 in findings | two handlers in flight plus the sweep is what makes decisions overlap; a third only repeats one of them |
| `MaxTime` (room) | 1, or 3 in `live` | length, start timeout and sweep lag are all 1: a cue becomes overdue at 1, starts, and ends by 2 |
| `MaxFaults` | 0 or 1 | one failure anywhere in a chain of statements |
| `SweepLag` | 1 | a pass whose reading is older than the clock |
| `SendBuffer` | 8 (never full), 1 in `live` | overflow in `live`, where convergence is not asked |
| `Reconnecting` | empty in `playback` | a reconnect refutes `Converged` (`stale_ready`) |
| `MaxEngines`, `MaxArrivals` | 2, 2 | a source that replaces another is what makes a late callback late; a timeline may change under each |
| `NominalRates` | 400, 800 | a rate and its double, in units fine enough for the corrections of a twentieth and of a half |
| `MaxSockets`, `MaxFamilies` | 2, 2 | a socket replaced by another visit; a second sign-in over the first one's cookie |
| `MaxFaults`, `MaxAges` (client) | 1, 1 | one drop, lost answer or refusal anywhere, one expiry: a refresh needs no more to be asked for twice |
| `MaxOutbox`, `MaxCommands` | 1, 2 | the second command overflows |
| `Confident` (the code's 3) | 2 | probes before and after a reconnection can differ in number |
| `Delays`, `MaxWindow` | {1, 2, 6}, 5 | symmetric, skewed and outlying probes, odd and even halves |
| `MaxOps`, `MaxLooks` | 2, 2 | two operations cross; a drop and a return, or a drop and a scroll |
| who is there at first (view) | everybody but the client's user | leaving and coming back are operations; of an empty queue the others only add to it |
| `MaxMessages`, `MaxRecent` | 2, 2 | the window of the snapshot and the store's limit are both reached |
| `Capacity`, `MaxJoins`, `MaxActs` (lifecycle) | 2, 3, 1 | a full room; a creator who leaves, comes back or has two tabs while somebody inherits; one gift, nomination, change of role or deletion. A transfer the index refuses needs a second act (7.4 million states without a violation, too long to keep) |
| `MaxVisits`, `MaxIntents`, `MaxFaults` (lease) | 2, 1, 1 | a room released and created again while a claim of the other node is under way |

Items, clients and rates are two or three model values. Symmetry is not used:
controllers, managers, lengths, hosts and nodes differ in what they may do or
break the symmetry of a liveness property.

## Fairness

Weak fairness is given to what the runtime drives: the clock, the sweep's
interval (`autoadvance.rs:39-49`), every handler that has started, the read loop
taking a message that arrived, a join in progress, the socket writer, and the
teardown of a receiver that lagged. It is given to no user (nobody has to send,
come back or change a setting) and to no failure. `CueStarts` and `EndMovesOn`
allow the room to be empty, as the sweep skips empty rooms, and count only what
falls due before the clock's bound.

`Player`: weak fairness of the sync timer (`use-player-sync.ts`, an interval), of
a script tag that either loads or fails, of what the code itself does next when a
script has come or failed (`Constructs`, the timer of Kick's frame among it), of the
frames of a widget told to play, and of the timers that verify an autoplay; none of
the viewer and none of new timelines. No widget has to answer that it is ready: a
stream whose playlist fails is asked for again for ever (`media-engine.ts:177-180`),
an embed may say nothing, and a library chunk that fails to import rejects a promise
nobody catches (`media-engine.ts:231`, `252`). `Released` names these cases
(`WidgetsTurn`, `ImportFailed`) instead of assuming them away, and `Plays` and
`RateConverges` speak of an engine that is ready. `RoomClient`: of refreshes and refusals the server completes, of the answers a page waits for, of
the shell's effects and of each socket's timer, ticket and handshake; none of
visitors and mishaps. `RoomLease`: of each node's renewal ticker with the answers
it waits for. `RoomView` and `RoomLifecycle` have no liveness property: the first's
convergence is stated of the states in which nothing is under way, the second's of
those between writes, and it assumes no fairness.

## Proofs

Proved by TLAPS for every value of the constants that satisfies
`TimelineAssumption`, `MachineAssumption` or `RoomAssumption` (any number of
clients and items, any rates, lengths, queues, ratios and bounds), and for the
tab `SessionBoundsAssumption`, `SocketBoundsAssumption` and `VisitsAssumption`
(the bounds are natural numbers, the ones that must not be zero positive) and
`ClockAssumption` (delays and the length of the window are natural numbers), for
`RoomLease`, `LeaseConstants` (a node is neither `None` nor
`Dead`, no visitor is one of a node's tasks), and for `RoomView`,
`StoreAssumption`, `MessagesAssumption`, `MembersAssumption` and
`LooksAssumption` (finitely many users, the client's and the host's distinct,
some name and some theme; `None`, which stands for JavaScript's null, is none of
these and no room; the snapshot's window is within the store's limit; the bounds
are natural numbers), and for `Player`, `PlayerAssumption` and
`PlayerBoundsAssumption` (a source has one of the six kinds; a rate is one of the
room's, normal speed among them; only the two embeds' scripts may fail to load;
the bounds are natural numbers; nothing is asked of sources, of `HlsSupport` or of
which links are bad or live):

| Theorem | Property | Argument |
|---|---|---|
| `MachineTypes`, `CueHeldAtZero`, `EndSeen`, `ChangesNumbered` | `TypeOK`, `HeldAtZero`, `EndedAtTheEnd`, `EveryChangeIsNumbered` | inductive with the typing; each operator's effect is a lemma of `TimelineLemmas` |
| `TimelineRefines` | `ImplementsPlayhead` | refinement, step by step: a method that only re-anchors leaves the derived position (clamping is idempotent and no time has passed), and a tick moves a running one by its rate up to the end |
| `TypeCorrect` | `TypeOK` of the room | inductive as stated: no anchor, cue or sweep reading is ahead of the clock, so extrapolations are natural numbers; that a job about to insert has a row in hand is part of it |
| `HeldParked` | `HeldIsParked` | inductive with `TypeOK` |
| `VotesLive` | `VotesAreLive` | needs `OpenIsPresent` (whose socket is up or lagged is present) and `SendersArePresent` (only someone present has a command in flight): otherwise a ballot could arrive from someone gone |
| `VersionsName` | `CopiesAgree` | a step adds to the copies at most the room's own new timeline (`CopiesStep`), and a new timeline is either the old one on the wire or has a version no copy has (`TimelineStep`) |
| `IntentsSee` | `IntentSeesPresent` | from `CopiesAgree`: a version not below the room's must be the room's, and then the copy is the room's timeline |
| `Converges` | `Converged`, of behaviours in which no step takes a client back to an older timeline (`NeverBack`) | `OnTheWay`: a client that is connected has the newest timeline, or it is in its receiver, in a handler between its clone and its broadcast, or in a greeting still to be built or delivered. The hypothesis is what the run `stale_ready` refutes, and only `DeliverReady` can break it |
| `ConvergesUnlessRejoined` | the same, of behaviours in which nobody reconnects, as in the run `playback` | then nobody is greeted, so `NeverBack` follows |
| `OwnersAgree` | `SoleOwner` | inductive invariant (`LeaseInvariant`) of four parts: types; a task that may touch a room object has one (`Housed`); a task past its first step has a node (`Placed`); and a node that believes it owns the room, or is about to be told so, is the one the key names, unless it is in `doubt` (`Believed`). Without the second half of the last, an answer still under way could make a second believer |
| `LeaseTypes` | `LeaseTypeOK` | with `LeaseInvariant`: `Listed` (the list of a room object is exactly the visitors whose task is in it), which needs that a task claims only for a reason (`Claiming`), that a node's tasks are its own (`Homed`) and that a visitor at rest is on no node (`Seated`); `Alive`: only a running process works and owns |
| `MirrorIsNewest` | `NewestIsMirrored` | `Mirrored`: unless the run went `astray`, the mirror is not behind what was announced, nor behind what a task is about to announce (`publish_timeline` writes, then sends) |
| `FamiliesIntact` | `FamilyIntact` | from `ClientInv`: one refresh is in flight at most, every row belongs to a family, and, unless the tab strayed, the cookie in the jar and everything granted is unspent, except what the refresh in flight is spending |
| `CommandsOnce` | `CommandsKept` | from `ClientInv`: the wire, the dropped and the outboxes repeat nothing, share nothing and together are the commands given; counting follows |
| `ConfidenceFresh` | `ConfidenceIsFresh` | from `ClientInv`: the back-off timer, a ticket under way and a WebSocket exclude one another, so that no estimate is kept across a connection |
| `ClientTypes` | `ClientTypeOK` | a part of `ClientInv` |
| `ClockStaysBounded` | `ClockBounded` | `Robust`, for any window and delays: below |
| `ViewTypes` | `ViewTypeOK` | inductive as `Ranges`, which says of every handler what it remembers and of every frame on the wire that it fits the client's schemas, so that none is dropped |
| `News` | `NewsIsOffered` | a part of `Shown`, which ties the page to the store |
| `PlayerTypes`, `OneWidgetAlways`, `ReadyOnceAlways`, `SilenceOffered` | `PlayerTypeOK`, `OneWidget`, `ReadyOnce`, `SilenceIsOffered` | from `PlayerInv`, below |
| `NeverTwice` | the first half of `ChatOnce` | `ShownOnce`: the list, and every snapshot on its way, repeats no number, and appending looks before it appends |
| `ChatOnceAlways` | `ChatOnce`, of behaviours in which no more are in the room than `Crowd` | from `Attends`, below |
| `Roster`, `Authority`, `QueueShown`, `RoomShown` | `RosterConverges`, `AuthorityIsMine`, `QueueSettles`, `RoomIsShown` | from `Foreseen`, below |

`ClientInv` is proved one action at a time: the session's parts are untouched by
a socket's step and the socket's by a refresh, so each action has a lemma about
the parts it moves, and `ClientInvariant` combines them.

`Foreseen` says that there is a store to which the frames on the wire lead, one
reducer after the other, and which differs from the room only by what a handler
is still to announce: the room's settings unless a nomination or a saved change is
written and not announced, the queue unless somebody has saved it and not announced it, the people but for those not yet greeted, and each
role but for one that a change under way concerns (`Pending`). Receiving a frame
moves the store along and leaves the end of the way where it was (`LeadsFirst`);
sending one applies it at the end (`LeadsNext`). In a quiet room nothing is on the
way and nothing is pending, so the end is the store. It is not inductive alone:
that an announcement undoes the difference rests on `InTurn`, which says what the
handlers under way know of each other. Unless changes of roles crossed, only one
is being announced, what it gives is what the database says or will say next, and
what it announces is so in memory or about to change again; unless lists crossed,
the reader who comes last has the queue as it is; and unless changes of the room's
record crossed, the one under way announces it as it is. Proving it found three things
the run is too small to show: that the ghost `crossed` may only be cleared for
the queue by a list that is current and read by nobody else, the counterexample
to `RosterConverges` without its condition on roles, and that a snapshot must be
told from `None`.

`PlayerInv` is about a configuration: engine, widget and panel. Every method and
callback of an adapter is a function or a relation of configurations, and has one
lemma, that it preserves `Good`, whichever engine it is called on; the actions of
`Player` only choose which is called. `Good` has five parts. `Drawn` is `OneWidget`
with one thing more, that an engine still waiting for its script has drawn nothing.
`Absent`: where there is no engine, nothing waits or plays. `Told`: an engine that
has announced itself remembers it, in a flag of its own where its player may come
and go and in having a player elsewhere; without it a second event could announce
it again. `Tried`: a check of a start belongs to a player there is, and a promise of
`play()` to an element that is starting. `Hushed` is stronger than
`SilenceIsOffered`: once a start was refused and no second attempt is pending, the
panel says muted whatever the widget is. The property alone is not inductive: it
allows a start held to be refused over an audible widget and a panel that says so,
and the key M, which mutes the engine and not the panel, would break it from there.

`Attends` says what the chat will be: there is a list to which the messages shown
lead, frame by frame (`Hearing`), and once a snapshot has been taken it heeds the
log (`Heeds`). That has three parts. `Quoted`: what is in it is what was said, once.
`Complete`: of the snapshot's window, only the room's own lines and what somebody is
still to announce are missing. `FewLate` counts: of each message in the list, the
ones said before it that come after it in the list, and the ones said before it
still to be announced, are together fewer than `Crowd`. The last is what a message
pushed out of a full list rests on. What then comes after it in the list is
`MaxMessages` messages, all but those few said after it; so a whole window has gone
by, and it was not owed any longer. It needs `[]Fits`: never more than `Crowd =
MaxMessages - MaxRecent + 1` are in the room, 241 with the code's 300 and 60, where
a room takes at most 100 (`rooms/routes.rs:148` and `859`), a few more if joiners
race. Without such a hypothesis `ChatOnce` is false: with a list of two and a window
of two, of messages 2, 3 and 4 announced in the order 3, 4, 2, message 3 is pushed
out while it is in the window. The hypothesis is sufficient and not claimed to be
the weakest; the run's own instance is below it, and shows the property for two
operations only.

`Robust` is arithmetic and counting. Some member of a finite family of integers is
the least and another the greatest (`LeastAndGreatest`, from the well-foundedness of
strict inclusion), so there is a value at each index (`SortedOne`); a fifth of the
window plus one is at an index where a probe is no slower than the quick ones
(`BaselineQuick`); that probe survives, none that survives took more than half as
much again, and the median of what is within a bound is within it
(`MedianBounded`). The definitions avoid sorting a sequence, which no prover
here can unfold; over all windows of up to four probes with four delays TLC finds the
same estimates as by sorting.

Every safety property of the runs that pass but `RoomLifecycle`'s is proved, `Converged` and `ChatOnce`
under the hypotheses in the table. Model-checked only are `OneHost`, `HostIsDue` and
`SweepsTheEmpty`, and all liveness (`CueStarts`,
`EndMovesOn`, `Released`, `Plays`, `RateConverges`, `ComesBack`, `SplitHeals`), which
with fairness is out of the prover's reach.

## Findings

Disagreements between the code and what its comments say, each a run that ends
in a counterexample:

1. `stale_ready`. The ready snapshot can be overtaken by a newer broadcast, and
   the store applies it without looking at the version (`room-store.ts:91`).
   The client is then behind until the next change.
2. `vote_skip`. Two ballots at the threshold both advance; the second skips a
   video nobody voted on (`session.rs:898-933`, votes cleared at 503).
3. `stranded_queue`. An add sees a loaded timeline just before an advance that
   found no row clears it; the room is idle over a queue (`session.rs:721`).
4. `permissions`. A promotion is announced to the promoted person's client, and
   their session goes on deciding with the permissions it was made with
   (`session.rs:1128` against the comment at 1123-1126); a transferred host's too.

Disagreements met while modelling that no run is kept for:

- A measured length names neither item nor version and lands on the next video
  (`session.rs:739`; the first report for a video counts).
- An explicit transfer does not clear the successor the room holds in memory
  (`session.rs:1201-1215`), although the database does, so that "a stale name" does
  not "inherit a room from someone who never chose them" (`db/rooms.rs:331-333`);
  `ws.rs:430` reads the one in memory.
- "A room always has a host" (`lifecycle.rs:5`) has exceptions, named by
  `HostIsDue`: the room emptied before the grace period was over (`ws.rs:413-417`)
  or was opened with the host away, and somebody else comes in; it was transferred
  to somebody absent.
- A leaver writes the count it read two statements before (`ws.rs:374-378`). If it
  lands after a joiner's `set_emptiness(false)`, the sweep may close a room with
  people in it; after another leaver's, an empty room is never closed
  (`overtaken` in `RoomLifecycle`). A room nobody ever enters has no `empty_since`
  and is not closed either.
- The capacity check and the attach are two awaits (`ws.rs:131`): two joiners may
  share the last place.
- A failure after the attach leaves a participant behind, and a socket that hears
  nothing more (`ws.rs:233`, `244`).

## Not modelled

Media classification and proxying, REST validation, configuration, metrics,
styles and the vendored component library have no protocol whose order could be
wrong; voice, reactions and typing only pass messages on. Floating-point rounding
of positions, rates and queue order has no counterpart in integers. Of the parts
that are modelled, this is left out:

- **Playback.** Several tabs per person, drift reports, and the broadcast of a
  change through another node.
- **Ownership.** The room row's lookup and the capacity check (both in
  `RoomLifecycle`), and what a node that
  does not own a room does about readiness and the sweep. `drain` leaves `owned`
  as it is and the process ends. Two creators on one node may both restore, and
  the later insert may put an older timeline over a newer one: in the model, as
  a cause of `astray`.
- **Host lifecycle.** What is announced of a handover or a reclaim
  (`announce_host_change`), bans, failing statements, a room on several nodes, and
  two handovers of one person at a time. In the model, as `overtaken`: a host who
  returns after a handover's check leaves two hosts in memory; an heir who leaves
  before the handover is told leaves a room whose host is away with no timer.
- **Roles, chat, settings.** Invitations, moderation, pins, replies, optimistic
  bubbles, votes in the view. In the model, and worth knowing: a removed person is
  not disconnected and is shown to those who join later; the room's own chat lines
  are never announced, only found in the next snapshot; a settings change tells no
  session what it may now do; a switch that was refused stays flipped; what one has
  typed is overwritten by any `room_updated`; two overlapping updates of the
  settings can lose one.
- **Session and socket.** A second tab with the same cookie; what pages and forms
  contain. In the model: a refresh under way when signing out puts a token back; a
  lost answer to a refresh looks like a theft to the server; a failure at boot
  leaves one anonymous; `close` during the wait for a ticket leaves a connection
  nobody holds; commands given while authenticating overtake those kept in the
  outbox; a signed-in visitor whose refresh is refused has a socket that retries
  for ever.
- **Player.** Volume levels, the chosen quality, reports of length, auto-hiding
  chrome, full screen, theatre mode, which control the desktop's row or the
  phone's offers (the phone's volume button opens a slider and mutes nothing). In the
  model: the key M mutes the engine only; the keyboard seeks a live stream although
  the chrome does not; a mute given before YouTube is ready is dropped.

## Plan

What is here was built in this order: the timeline and the room that owns it; the
player, the tab and the panels, because every viewer depends on them and no test
reaches their orders; then ownership across nodes, and the proofs about it,
about the tab and about the panels; last, who hosts a room and when it closes. What remains worth doing, most valuable first:

1. `RoomLease` with the relayed broadcast: what a client on another node hears, and
   `CopiesAgree` across nodes.
2. Two tabs over one cookie jar in `Session`.
3. `QueueOrder`: positions, midpoints and rebalancing against a sequence, with
   dyadic positions instead of floating point.
4. Invariants of `RoomLifecycle` strong enough to prove `OneHost` for any number of
   people and tabs.
