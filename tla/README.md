# rqrev in TLA+

A verification project for `rqsrv`: a protocol tracer and a small server emulator for the MMORPG
*Royal Quest*. Paths are relative to the repository; `server/` is short for `src/server/`.

The emulator, where tasks, a thread and clients meet over shared state, and the tracer, a proxy with a
window, are modelled, checked and proved about here, down to the bytes of the packet framing and
the steps of the stream cipher. Packet layouts and drawing are not (section 5).

    emulator                                                       tracer

    ServerState -- GameClient -- Connection --.                    MitmGuiState --+-- Mitm -------.
         |                                     +-- GameServer          |                           +-- TracingProxy
         `------- LocShard -------------------'        :               `----------- MitmWindow ---'
                                      PositionFeed ....:                                |
                                                                        PacketView -- MitmSessions
    under both
                                                       Rc4        one direction of the ciphered channel
    PacketStream .... PacketFraming                               packets in a stream of bytes
                                                       RqodeDecode packets whose layout is unknown

    -- extends          .... the abstract specification that is implemented

Each module `M` on which TLC works has an `MCM` with its instances. `GameServerProofs`, `PacketFramingProofs`,
`Rc4Proofs`, `MitmProofs` (about `TracingProxy`), `WindowProofs` (about `MitmSessions`) and `RqodeProofs` hold the
theorems, `SettingsProofs` the lemmas about the window that `MitmProofs` and `WindowProofs` share, `SetInduction` those on
induction.

## 1. The system

### Components, their state, operations and hard parts

| component | state | operations | interacts through | hard to get right |
|---|---|---|---|---|
| shared state, `server/state/mod.rs` | `sessions`, `chardata`, `shard_tx`, `player_tx`, `player_rx`, each map under its own lock | `load_char_from_db` | shared by every task and the location thread | the two ends of one channel live in two maps under two locks |
| connection task, `server/connection.rs` | cipher state, `session`, `character_id`, `shard_id`, receive buffer | handshake, `process_client_data`, select between client and location | TCP; the handlers; `recv_from_shard` | a pending receive is dropped by any packet and looked up again, for another character perhaps |
| handlers, `server/handler.rs` | none | one per kind of packet | called by the connection task | order of packets is the client's choice |
| login, `server/state/login.rs` | none | `handle_auth_request`, `handle_charlist_req`, `handle_enter_world_req` | sessions, database, registries, location queue | an entry is several steps that other tasks see between; it may panic or fail half way |
| message passing, `server/state/datamap.rs` | none | `send_packet_to_shard`, `send_msg_to_shard`, `recv_from_shard` | location queue, channels | messages of two systems to one client, order of entry and movement |
| location thread, `server/locshard.rs` | ECS world, change ticks, queue | `on_msg`, `on_player_move`, systems `player_spawn` and `entity_move` | queue in, `player_tx` out | both systems run in parallel; one sends through clones and through borrowed senders; entities of closed connections stay |
| server start, `server/mod.rs` | none | `Server::init`, `add_connection` | starts the others | - |
| database, `server/db/` | constant accounts and characters | `get_characters`, `read_character` | login | listed characters that are not stored |
| chat commands, `server/cli.rs` | none | `/loc`, `/spawnmob`, `/give` | answer the caller | - |
| stream cipher, `src/cipher.rs` | RC4 box, two indices | setup, `xor_in_place`, box exchange | connection, proxy | byte wrap-around; both ends must stay aligned |
| tracing proxy, `src/mitm.rs`, `src/main.rs` | cipher state, two ring buffers, `drop_packets` | handshake by message size, reassembly, dropping | two TCP streams, the window | four key streams stay aligned while packets are dropped |
| proxy window, `src/mitm_gui.rs` | settings, packet list, event queue | edit lists, collect events, draw | shared settings, bounded event channel | binary search presumes sorted lists; full channel |
| packet layouts, `src/protocol.rs`, `src/rqode_binrw.rs` | a reader's position | derived readers and writers, `read_guess` | everything | whether a number is a length is guessed, and taken back |
| tracing output, `src/ptrace.rs`, `src/packet_view.rs` | a view keeps what it was dissected from | `dissect`, `redissect` | proxy, window | a view is made anew from itself |
| SOCKS front, `src/main.rs` | none | accept, start server or proxy | library | - |

### How a player gets into the world

1. The connection task sees 132 bytes (the game's key) and answers with cipher boxes.
2. `AuthRequest` draws a random session and stores its account.
3. `TimeSyncResponse` names a session, lists the account's characters and loads them into
   `chardata`.
4. `EnterWorldRequest` names a list position. The handler makes a channel, puts its sender into
   `player_tx`, its receiver into `player_rx`, indexes `chardata` for the location and sends
   `PlayerEnter` to that location's queue.
5. The location drains its queue: `PlayerEnter` spawns an entity, `PlayerMove` writes the position of
   every entity of that id. Then it runs its schedule. `player_spawn` sends each new player
   `PlayerLoaded` and every other player's entity, then sends the new ones to every player;
   `entity_move` sends changed positions to every player. The two run in parallel.
6. Every connection task takes messages out of its character's channel and writes packets of them.

### How a packet gets through the tracer

1. The SOCKS front connects to the real server and gives both streams to one task.
2. The game's key (132 bytes) is answered by the task's own key to the server, the server's boxes (640 bytes) by the
   task's own boxes to the game: four key streams, two with each end.
3. A read is decrypted, pushed into the ring buffer of its direction and cut into packets. A packet of `STOP` stops
   everything from there on. Each packet is compared with a copy of the settings, by its id and, if compressed, by
   the id inside; the window is told of it; it is dropped or kept. What was kept in this read is encrypted and written.
4. The window's thread takes events from the channel into its list, edits the settings, and saves them.

### What makes the components correct

* channels: messages reach only the character they are for; the connection and the location hold the
  two ends of the same channel; a replaced sender is not used.
* location: no movement before its entity; nothing it looks up is missing; new players are initialised
  before they hear of others and are announced once.
* login: no task is lost over a character its client was offered; an accepted entry ends in the world.
* positions: no client is told older news than it knows; all clients agree once walking stops.
* framing: packets come out as they were sent, in order, however the stream is cut.
* cipher: both ends stay at the same step; the table stays a permutation.
* tracer: whatever it drops, both ends can decrypt what they get, and get whole packets; the window tells the truth about what
  was sent on, and holds nothing up.
* window: lists stay searchable, a crash costs no saved settings, the list is in order.
* guessing reader: no byte is lost, and every packet is read to an end.

## 2. Modules

### The emulator

* `ServerState`: the shared maps, the channels, the location's queue. A channel is a pair of its
  owner's id and the number of the entry that made it, so that two channels of one character differ, as two
  flume channels do. `Send` and `SenderAlive` say what flume does.
* `GameClient`: what each client has been sent, and `Discipline`, what is assumed of its packet order.
  The client is not in the repository. `"any"` assumes nothing. `"relogin"` is a client that lists
  once, enters once with a listed character, and takes a character up again only after the server has
  ended its former connection. `"single"` adds that no character enters twice.
* `Connection`: one `connection_proc` task per client with the handlers it awaits. `pc` is where the task is:
  `uninit` / `ready` (the select loop), `registerRx` and `joinShard` (inside
  `handle_enter_world_req`, between its locks), `closed`, `panicked`.
* `LocShard`: the location thread. `world` is the sequence of entities in spawn order, `fresh` and
  `changed` what the filters `Spawned` and `Changed<Position>` select. `loads`, `announces`, `moves` are what the three
  loops over players have left, `spawnJob` and `moveJob` what the body now running has left to send,
  `txReaders` which systems hold the read lock of `player_tx`, `txClone` the sender cloned by
  the first loop.
* `GameServer`: the composition, its fairness and its properties.
* `PositionFeed`: the abstract promise about positions; `GameServer` implements it (`FollowsFeed`).
* `MCGameServer`: instances for TLC. `GameServerProofs`: the theorems.

| code | action |
|---|---|
| `connection_proc`, 132 bytes in `Uninit` | `Handshake` |
| select won by the client | `TakePacket`, part of every packet's action |
| `handle_auth_request` | `AuthRequest` |
| `handle_charlist_req`, `load_char_from_db` | `TimeSyncResponse` |
| `handle_enter_world_req` up to `player_tx.write().insert` / `player_rx.write().insert` / the rest | `EnterWorldRequest` / `RegisterRx` / `JoinShard` |
| `send_packet_to_shard` | `CharacterMove` |
| every other packet, and every handler that bails out | `OtherPacket` |
| `recv_from_shard`: lookup / message and write / error | `StartRecv` / `RecvFromShard` / `RecvError` |
| `Ok(0)` or an error | `Close` |
| `on_msg` | `OnPlayerEnter`, `OnPlayerMove` |
| `sch.run` | `BeginTick`, the systems' steps, `EndTick` |
| `player_spawn`, first / second loop | `LoadPlayer`, `LoadNext` / `AnnounceTo`, `AnnounceNext` |
| `entity_move` | `MoveFor`, `MoveNext` |


Every message is a step of its own, so that everything other tasks may do between two sends is explored.

Abstractions, and why they keep what the properties see:

* A position is the number of the movement that led to it. Each movement has a new one, so that
  "older" and "newer" are visible. `f32` coordinates and everything else in a packet is left out.
* Random sessions are distinct. A collision of two `u64` draws is left out.
* The slot loop of `handle_charlist_req` is one step: it only adds to `chardata`, nobody else removes
  anything, and the sole reader that could notice a half-loaded list is an entry of the same account
  on another connection, which is covered by an entry before the list.
* Taking a read lock and the first send under it are one step, and so are waiting for the write lock
  and registering the sender. Between the two no other task can see a difference, apart from the
  waiting itself; `parking_lot` may also hold back new readers while a writer waits, so the model has
  more behaviours than the code, not fewer.
* A run of the schedule that finds nothing changed does nothing and is left out, and so is an
  iteration that has no message to send.
* Several packets that arrive in one read are handled in one go; in the model the task may receive
  in between, which adds behaviours.
* `MobSpawn` is never sent by any code and has no observer.

### Packets in a stream of bytes

`PacketFraming` is `server/connection.rs` byte by byte: the handshake of `connection_proc`, the
loop of `process_client_data` with what it calls for a packet, and the write of the answer before the next
read. `mode` says where the task is: in `select!` before and after the key (`uninit`, `waiting`), in the loop
(`taking`), in an awaited handler (`handling`), in `write_all` (`writing`), returned or dead. The peer frames packets as
`write_packet` does. What a packet does to the task is a matter of its type, which is peeked together with the size
(`Known`), and of sets of bodies: `Readable` (`read_checked` accepts it), `Untraceable` (`ptrace` panics over it, at
`src/ptrace.rs:64`) and `Fatal` (its handler may panic: finding 1). Numbers are
digits to a base (256 in the code), so the 16 bit size field wraps in the
model where it wraps in the code, only earlier.

| code | action or operator |
|---|---|
| `write_packet`: size, cut to 16 bits, then the packet | `Frame`, in `Send` |
| `connection_proc`, `Uninit`: a read of 132 bytes, or of others, which are ignored | `ReadKey` |
| `read`, decrypt, `push_slice` | `ReadData` |
| a round of the loop: header, size, `temp[2..size]`, `ptrace`, `read_checked` | `Take`, `Cut` |
| `process_packet(..).await` returns or panics | `HandlerEnds` |
| less than a header or than a packet is left | `LeaveLoop` |
| `select!` takes packets of the shard | `FromShard` |
| `write_all` returns | `Written` |
| end of stream, error of a read or a write | `Close` |

`PacketStream` is what this promises, with no bytes in it: packets come out in the order they were
written, once, all of them in the end unless the connection ends, and those that can be read are handled.
`PacketFraming` implements it for the packets before the first harmful one (`DeliversStream`). Harmful are packets that
are malformed (without a type, or too long for the size field), those of `Untraceable` and those of `Fatal`: the
task may die over them, with everything behind them. An unknown packet of size 2 or 3, over which
`ptrace` panics at `src/ptrace.rs:90`, is malformed; such a packet is skipped instead if the bytes behind it, which
are taken for its type, are a known one. Both happen in the model.

### The cipher

`Rc4` is one direction of the channel: `setup` step by step, the box as bytes in the handshake, the
transformation that both sides apply to the table of `game_rx`, and `xor_in_place` as a call that copies the
indices, works through a number of bytes and stores the indices back. The two sides cut the stream into calls
in different places. `trail` is a history variable: where the sender's generator was after each byte.
What `modulus_transform` computes is a constant function of the table, of which it is only assumed that zeros stay
zeros, and the key that `setup_rand` draws is any of a set.
`server/` never calls `setup_rand` (`cipher.rs:127`, `128`): its tables are all zeros, the model's `Made` from
"fresh", and what it sends is readable on the wire. The properties hold for both.

### The tracer

`Mitm` is one task per proxied connection, with the game, the real server and TCP around it. A byte is
`<<n, part>>`, the part-th unit of the n-th packet of its sender; encrypted, it also names the RC4 box and
the step. Decrypting with another box or step gives `Garbage`. So the model sees exactly
what can go wrong with four key streams, and `Rc4` shows that equal steps give back the byte.

| code | action |
|---|---|
| `serve_socks5`: command, connect | `ReadCommand`, `Connect` |
| `do_mitm`: select over two reads | `Read`, `ReadEnd` |
| `process_game_data`, `process_server_data`: anything but the handshake / the handshake / packets | `Bail` / `ReadHandshake` / `ReadPackets` |
| `on_packet`: a packet is cut out, looked into, traced, dropped or kept | `TakePacket` |
| a slice or an `unwrap` that fails on it | `TakeBroken` |
| end of the loop, encryption | `LeaveLoop` |
| `write_all` | `Write`, `WriteFails` |
| (external) the game and the server | `Greet`, `SendPacket`, `Receive`, `CloseEnd` |

`MitmGuiState` is what the tasks share with the window: settings behind a mutex, the bounded event
channel, and the operations of `Settings`, with `slice::binary_search` as the halving it is. `MitmWindow` is the
window's thread: every edit, the packet list and its trimming, saving by a second file and
a rename, `on_exit`. `TracingProxy` composes both. `MitmSessions` follows the window alone through crashes
and restarts of the program, with the connections reduced to the events they send; there an event holds
what `PacketView` makes of a packet: dissected by layout or by guessing, containers opened, and dissected
anew from what was kept whenever the user switches between one line and many.

| code | action |
|---|---|
| `App::controls`: lists, groups, checkboxes | `ClickAdd`, `ClickRemove`, `ClickAddGroup`, `ClickEnable`, `ClickPause` |
| save button, `on_exit`, `Settings::save` | `ClickSave`, `CloseWindow`, `WriteTmp`, `Rename` |
| `App::packet_list`: `try_recv`, the list of 4000 | `TakeEvent`, `ClickClear` |
| click on a packet, `PacketView::redissect` | `ClickPretty` |
| `Settings::load` | `Start` |
| `on_packet`: `dissect`, `try_send` | `Capture` (alone), `TakePacket` (composed) |

### Packets whose layout is unknown

`RqodeDecode` is `read_guess_all` byte by byte: a tag and its payload, or a number that might be the length
of a string or of a block, decided by what follows it, and the way back when the guess was wrong. Its input is any
packet of `Packets`, or what `Contents`, sequences of elements, are written as. An empty string or block is not among
the elements, because what is written for it is the number 0, and that is what the reader makes of it.

Abstractions of this half: a packet has a type, the id inside and the id listed (`inner`, `shown`), a size and whether the
code panics on it; zlib and RSA are not computed; TCP holds up to `Room` bytes while nobody reads; each
edit in the window is one step, because the window alone writes the settings and tasks copy them
under the mutex; `on_exit` keeps the mutex while it writes the file (`locked`), and a task that has
a packet waits for it.

## 3. What TLC checks

In the game server's runs, clients `c1`, `c3` are nik's and `c2` is sam's (accounts and ids of
`MockDatabase`); character 6 is nik's, 19 is sam's. `MaxEnters` bounds entries and `MaxMoves` movements,
of all clients together; every other behaviour (packets, lists, closes, ticks, receives) is unbounded.
Runs about play begin in `Settled(players)`: logins are over, the named players are inside and every
message has been received. Such a state is reached from `Init` by logging in and entering one after the other,
letting the location finish after each; the interleavings of logins, which `login` covers, would
multiply each run without adding anything about play. `GhostSpec` has three entries behind it: the ghosts
of former connections are entities in the world.

| run | instance | checked | shows |
|---|---|---|---|
| `play` | 2 logged-in single clients, 2 entries, 1 movement, fair; 231,320 states | `TypeOK`, `SpawnAfterLoaded`, `FollowsFeed`, `EventuallySynced` | clients are initialised before they hear of others, nobody is told older news than it knows although two systems send in parallel, and in the end everybody sees everybody where they are |
| `ghosts` | 2 clients of one account with 2 characters, any order, 3 entities, 4 entries, 1 movement; 512,678 | `MovesFollowEnter`, `MessageForOwner`, `BorrowedSender` | loops with several messages to send keep a valid sender while logins wait for the registry; nobody is told about itself; movement never overtakes the entry it needs |
| `relogin` | nik and sam inside, nik comes back on `c3`, 2 movements, fair; 116,652 | `OwnChannel`, `EntersWorld` | a new connection gets its own channel, and is let in although a ghost with its id is there |
| `login` | from `Init`, any order; unknown accounts, a character listed but not stored, a location without a thread; 473,797 | `PanicsOnlyUnlisted` | a listed character never costs a task |
| `framing` | base 3, 10 bodies: 2 good, 4 malformed, one each of unknown type, unreadable, fatal to `ptrace`, fatal to its handler; 3 packets, key and packets cut into reads of up to 5 bytes in every way, fair; 56,657 | `TypeOK`, `NothingLost`, `KeyIsWhole`, `SoundUntilHarmful`, `DeliversStream` | what was sent before a harmful packet comes out as sent, once, in order, and in the end; the task dies over harmful packets only, and not before their turn; no packet is left in the buffer between two reads, and the buffer never overflows |
| `relay` | 1 connection, handshakes cut or glued at will, 3 packets of 3 kinds, one of two bytes, one compressed and one of `STOP`, a game that may close, one edit of the drop list; 513,583 | `TypeOK`, `Decryptable`, `Intelligible`, `WindowTruth`, `ListedHeldBack`, `SilentAfterStop` | both ends can decrypt what they get; it is whole packets in order; the window lists every packet that does not wait any more, and as dropped those that were not let through; what a drop list names when it is cut out never gets through; after a packet of `STOP` nothing more is let through in either direction, whatever the task was about to do |
| `two_connections` | 2 connections that panic or bail out, an event channel of 1, a window that may save and close or do nothing, fair; 30,054 | `Delivered` | neither the window, nor a full channel, nor another connection holds a packet up |
| `window` | 5 clicks and traced packets in any mixture, saves that fail, crashes and starts at any moment; 847,848 | `TypeOK`, `HighlightExact`, `FileNeverTorn`, `ListInOrder`, `ViewOfTraced`, `Tidied` | lists that are searched by halving stay sorted, the file stays whole, the list is in order and shows what was traced |
| `cipher` | 4 byte values, both directions, 8 keys and no key, 4 bytes cut into calls on both sides; 79,024 | `TypeOK`, `RoundTrip`, `Permutation` | what is decrypted is what was encrypted; the table stays a permutation |
| `decode` | 4 byte values, all packets of up to 7 bytes and all of up to 4 elements; 150,341 | `TypeOK`, `Lossless`, `Recovered`, `ReadWhole`, `Ends` | the guessing reader ends, skips nothing, reads nothing twice, and finds strings, blocks and values again up to the first number that could be a length |
| `unlisted_entry` | 1 client, any order | `CharCertainlyLoaded` violated | finding 1 |
| `default_lists` | as `window` | `CollapseExact` violated | finding 2 |

### Why the bounds suffice

* Game server: the hazards need two players (one that is there and one that joins), a third connection or entry
  for a replaced channel, a job with two messages (three entities) for a lock that is held across a step, and
  a position that was news before another one for old against new.
* Framing: sizes are 0 to 8, so that a body of 7 bytes wraps. A reader needs no more than the end of one packet,
  a whole one and the beginning of the next in one read; three packets and reads of 5 bytes have that: one that comes out,
  one that does harm, and one that must not be taken for another. The buffer is exactly
  as large as the assumption asks for. 65536 and 1000000 differ from them in size only: the theorems hold for every base.
* Tracer: three packets give one that sets a state (`STOP`, an edit), one in the same read behind it, and one in the
  other direction. The channel and the list are full after two and three events, 8192 and 4000 in the code.
* Window: the shortest path to each hazard takes at most five clicks and events (add to a list, add again, save; fill the list,
  trim it, switch a view).
* Cipher: the indices wrap after four bytes; the table is transformed in one direction and not in the other.
* Decoder: the longest guess looks at a length, a block and one element after it.

Each property is broken by a small change of one definition (the definitions marked *Mutant* in the modules, which
no specification uses).

Deadlock is not checked where the system really may stop: every client has closed its connection, the peer
has sent its packets, the packet is read, the traced connections have ended and nobody clicks.

### Fairness

* Emulator. `HandlerStep` and `LookupStep` are weakly fair: tokio polls a task that is ready. `RecvStep` is strongly fair:
  a packet of the client may drop the receive again and again, but `select!` without `biased` polls its
  branches in random order, so a receive that is possible infinitely often wins some time. The location's loop and its systems
  are weakly fair: a thread that never waits, apart from read locks that no writer keeps. Nothing is
  assumed of what clients send or when they close; that they read what they are sent is (see Framing).
* Framing. The loop is weakly fair, and so is a handler, which waits for the database and for locks only. Reads are
  strongly fair: packets of the shard may be preferred again and again, but `select!` is not biased. `write_all`
  (`server/connection.rs:159`) is weakly fair, which assumes of the peer that it reads what is written to it: while it does not, the
  task waits there and reads nothing. The same is assumed of the clients in the emulator, whose `RecvStep` contains that write.
* Tracer. Every task is weakly fair as a whole, the ends read what is sent to them, and the file system answers
  (`SaveStep`). Nobody has to use the window, and the two ends need not send anything. That the ends read is
  necessary: one task serves both directions, so that two ends that both write and never read wait for ever.
* Decoder. Its loop is weakly fair.

### Findings

1. `server/state/login.rs:140` says "Char certainly loaded at this point". Only the character list
   loads characters. After authentication a client may enter at once: indexing `chardata` panics and
   ends the connection's task, after the channel has been registered. (`unlisted_entry`)
2. `src/mitm_gui.rs:46` gives GuildAvatar (0x148) and ServerVars (0x12) as the collapse list's default, in this
   order, and `Settings::contains` searches it by halving: GuildAvatar is not found, so it is not collapsed. Only
   an Add or the save button sorts the list. (`default_lists`)

Disagreements that were met and need no model to be seen:

* `src/mitm.rs:232` says "Stop after this packet", so that the packet of `STOP` would be the last to pass. The code sets
  `drop_all` before the test at line 253, which drops that packet too. Model, `SilentAfterStop` and `SilentCorrect` are about what
  the code does, and so say more than the comment: that packet is held back with what follows. `STOP` is empty in the
  shipped code, its one entry is commented out; `relay` puts one in.
* `server/locshard.rs:249` says "Send new player data to existing players", but the loop visits new players too: two
  players spawned in one run of the schedule get each other's `EntitySpawn` twice.
* `README.md:52` says that packets to drop are configured in `src/mitm.rs`; its list `_DROP` (line 10) is read nowhere. Drop lists
  are the window's.
* `README.md:35` says `/loc` teleports the character to a location, and `README.md:36` that `/spawnmob` spawns a mob;
  `server/cli.rs:41` and `:58` only write packets to the caller: the server's state and the other players do not notice.

Not counted as findings, because the repository promises nothing there: with two open connections that
entered as one character, one of them may wait on a channel nobody sends to (so `OwnChannel` is checked for clients
that come back after their connection ended); after a second login of a character, messages
caused by its ghost may precede its `PlayerLoaded` (so `SpawnAfterLoaded` is checked
where no character enters twice); an `EntityMove` may precede `PlayerLoaded` even then; and a
key that is cut into two reads, or that arrives together with a packet, is never recognised, so that such a connection
waits for ever (no property says otherwise; `KeyIsWhole` only says that no part of a key is taken for one). `relogin`
has a player come back after the former connection ended, so that a login during the first loop of `player_spawn`
for the same character, whose sender that loop has cloned, is not exercised by it. A location without a thread makes the entry fail without an
answer: the model has it, no property calls it right or wrong. Well-framed packets that end the connection's task in
`ptrace` (`src/ptrace.rs:64`, called at `server/connection.rs:219`) are part of the model and excepted in the properties.

## 4. What is proved

Each theorem holds for every value of the constants that satisfies the named assumptions: any set of connections,
characters, packets and settings, any database, any limit. Those of `GameServerProofs` hold for any `Discipline` unless they
name the one they need. Every invariant and every action property that a passing run checks is proved, and of the two
refinements (`FollowsFeed`, `DeliversStream`) all but the fairness.

| theorem | states | inductive invariant and why it is needed |
|---|---|---|
| `TypeCorrect` (`GameServerProofs`) | `Spec => []TypeOK` | with `JoinedHasCharacter`: `CharacterMove` sends for `character[c]` and tests only `shard[c]`, so a joined connection must be known to have a character |
| `MessagesForOwner` | `Spec => []MessageForOwner` | `OwnerInv`: registries and connections know a channel under its owner's id, and what a job still has to send is about others; then no send, whenever it comes, is about the owner |
| `MovesInOrder` | `Spec => []MovesFollowEnter` | `EnterInv`: a joined connection's entry is in the queue or its entity in the world; a taken entry becomes an entity because `chardata` only grows |
| `SendersBorrowed` | `Spec => []BorrowedSender` | `SenderInv` on top of `OwnerInv`: a system between two messages of a job, without a clone, holds the read lock |
| `PanicsUnlisted` | `Spec => []PanicsOnlyUnlisted` | `ListInv`: what was listed is in memory, and stays there |
| `OwnChannelCorrect` | `Spec => []OwnChannel` if `Discipline # "any"` | `ChannelInv`: among the connections that have not ended one plays a character, the registered sender is its own, and from `joinShard` on the receiver too; a former connection's receiver may be overwritten because that connection has ended |
| `SpawnAfterLoadedCorrect` | `Spec => []SpawnAfterLoaded` if `Discipline = "single"` | `LoadedInv` on top of `KnownInv` (a character has one connection, one channel and one sender for good): every player in the world is in the first loop's list or its channel is initialised, that is, `PlayerLoaded` is queued or was shown; what `player_spawn` sends goes to initialised channels |
| `FollowsFeedCorrect` | `Spec => FollowsFeed` if `Discipline = "single"` | `OnceInv` (an entry is queued once, before its entity), `WalkInv` (world, location's queue and `walked` in order) and `ViewInv` (shown, queued and world in order); then `CharacterMove` is a `Walk`, `RecvFromShard` a `Tell` or a stutter, everything else a stutter |
| `NothingLostCorrect` (`PacketFramingProofs`) | `Spec => []NothingLost` | `RoomInv`: whenever the task reads, less than the largest packet is in the buffer |
| `KeyIsWholeCorrect` | `Spec => []KeyIsWhole` | `KeyInv`: before the key is accepted, what is on its way is its end; a read of its full length is all of it |
| `SoundUntilHarmfulCorrect` | `Spec => []SoundUntilHarmful` | `FrameInv`: as long as what was taken is well formed there are offsets at which the frames of the packets not yet taken lie in buffer and net together (`Layout`), the first at the buffer's start; a read moves the border, a take moves the start by one frame. So a size below 2 is one that its peer wrote, and a panic of `ptrace` or of a handler is over the packet whose turn it is |
| `TypeOKCorrect` | `Spec => []TypeOK` | the types of both sides; a loop is only left when no packet is in the buffer |
| `FollowsStream` | `Spec => Stream!Init /\ [][Stream!Next]_(Stream!vars)` | all of the above, and that as many packets are handled as were taken and could be handled: `Send` of a packet before the first harmful one is a `Write` of the stream, `Take` of one a `Deliver`, `Close` its `End`, all else a stutter |
| `CipherTypes` (`Rc4Proofs`) | `Spec => []TypeOK` | part of `StreamInv` |
| `RoundTripCorrect` | `Spec => []RoundTrip` | `StreamInv`: both generators are on one trail, the sender's at its end and the receiver's at the byte it decrypts next, whether their indices are in the box or in a call; each byte on the wire is the plain byte xor the trail's |
| `PermutationCorrect` | `Spec => []Permutation` | each table is zeros or injective, which swaps keep |
| `DecryptableCorrect` (`MitmProofs`) | `Spec => []Decryptable` | `KeysAligned`: the k-th byte on a wire was encrypted with the step that the reader's copy of the box will have reached there (`ArrivingAligned`, `LeavingAligned`, with the handshake's bytes, which are in clear, in front); the boxes of the four flows differ |
| `DropsCorrect` | `Spec => ListedHeldBack` | an action property on top of `LineInv`, see below: by `Moves`, only `TakePacket` puts a new packet into `Past`, and `Past` has marks of packets before the next one only, so that what was dropped cannot come back from the buffer, the wire or `out` |
| `TypeCorrect` | `Spec => []TypeOK` | `GuiType`, `ChannelType` and `Bounds` on top of `KeysAligned`: an edit gives settings again; a list that is trimmed is short enough; a task that writes has something to write and fits it into TCP's room |
| `IntelligibleCorrect` | `Spec => []Intelligible` | `LineInv`, see below |
| `SilentCorrect` | `Spec => SilentAfterStop` | `LineInv` and `DropOpen`: `drop_packets` is set only in `EncryptedChannel`, so neither a handshake nor a packet can come behind |
| `WindowTruthCorrect` | `Spec => []WindowTruth` | `HeardInv`, see below |
| `ListInOrderCorrect` (`WindowProofs`) | `Spec => []ListInOrder` | `OrderInv`: the list with the channel behind it holds events of the run in order, and every one unless the window knows that it missed one; needed because an event leaves the front of the channel for the end of the list, and both lose their oldest |
| `HighlightExactCorrect`, `FileNeverTornCorrect`, `TidiedCorrect` | `Spec => []HighlightExact`, `Spec => []FileNeverTorn`, `Spec => Tidied` | `SavedInv`: the settings in use, the copy that is being saved and the file are settings whose highlight list ascends, the file is never `Torn`, a second file that is about to be renamed is whole, and a copy that came from the button is sorted in every list; an edit keeps order because `Added` sorts and `RemoveAt` takes one element out (`Orderly`). That halving finds exactly the elements of a list in order is `SearchExact`, an induction over the rounds |
| `ViewOfTracedCorrect` | `Spec => []ViewOfTraced` | `ViewInv`: the view of every event of list and channel is what `Dissect` gives for what was traced; `Redissect` starts from what the view kept, a packet inside another included |
| `TypeCorrect` | `Spec => []TypeOK` | `BoundInv` on top of `OrderInv` and `SavedInv` |
| `TypeCorrect` (`RqodeProofs`) | `Spec => []TypeOK` | no guess goes beyond the end |
| `LosslessCorrect` | `Spec => []Lossless` | is inductive with `TypeOK`: an element, written, is the bytes it was read from |
| `RecoveredCorrect` | `Spec => []Recovered` | `Following`: as long as nothing ambiguous was read, the reader is where the last decoded element ended in what was written |
| `ReadWholeCorrect` | `Spec => []ReadWhole` | `Stuck`: a packet is given up only where no element can be read; where `Recovered` puts the reader, the next one that was written can be |

The argument for the tracer's packets. `Marks` forgets of a byte how it is encrypted and keeps to which packet it belongs and
where in it. What was let through of a direction is one row of marks (`Past`: read by the receiver, on the wire, or in `out`), and
what waits is another (`Inward`: the ring buffer and the wire behind the handshake). By `Moves` a step does one of five things
to a direction: nothing to either row, although bytes move from one place to the next (`Still`); it ends the task, and `Past` loses
its end (`Ends`); it puts a packet behind `Inward` (`Sends`) or the handshake behind `Past` (`Greets`); or it takes the first packet from
`Inward` and puts it behind `Past` or drops it (`Takes`). That these are all is where the code is in the proof, one lemma per action;
it needs that reads are decrypted to what was sent (`KeysAligned`), that a receiver gets the handshake first and in
clear (`Opening`), and that what waits before the handshake is the handshake (`Greeting`): together `Calmness`. Over these five the rows
keep their form (`Line`): `Past` is the handshake and whole packets in order, `Inward` is every packet from the next one to the last sent, and
what is in `Past` came before the next one. `Intelligible` is the part of it about the front of `Past`. `Heard` adds the window: list and
channel together have exactly the packets before the next one, in order, and as not dropped those in `Past`.

Assumptions: `BoundsAssumption`, `DatabaseAssumption` and `NoneAssumption` (`ServerState`: bounds are numbers, ids are
positive numbers, account lists are sequences of ids or 0, stored characters have ids, `None` is no
value of the other types); `FramingAssumption` (a buffer with room for an unfinished packet and a read, 65534 +
65536 of 1000000 in the code); `Rc4Assumption` (the exclusive or of bytes undoes itself, a transformation gives a table);
`GuiStateAssumption`, `MitmAssumption` and `WindowAssumption` (sizes are positive numbers, bounds are numbers, the default
settings are settings, a torn file is neither settings nor no file); `SessionAssumption` (the default highlight list is in order: it is
empty in the code; the default collapse list is not, finding 2); `RqodeAssumption` (tags are bytes with a payload, that of a
U16 has two, and there are at least two bytes). TLC evaluates all of them in the runs.

The proofs begin with lemmas about sequences, arithmetic and types, then have one lemma per action or group of actions, a
step theorem, and a temporal conclusion. Sequences are named by `PICK` where they are long expressions, so that
the provers see a variable and its length. `SetInduction` proves induction over numbers for a set in place of a formula, from the
library's facts about well-founded orders; what a recursive function computes for every argument (the halving search, what elements are
written as) is proved with it, and that a finite set of numbers has an order.

Model-checked only, because liveness under fairness and `ENABLED` are out of the prover's reach: `EntersWorld`, `EventuallySynced`,
`Delivered`, `Ends`, and of `DeliversStream` that every packet comes out in the end.

## 5. Not modelled, and what is left

Not modelled:

* the packet layouts of `src/protocol.rs`: declarations that derive macros turn into readers and writers. They decide nothing; in
  the models a packet is a member of a set, and `fits` says whether its layout reads it. How lists and strings with a
  known layout are read (`RVec`, `RString` of `src/rqode_binrw.rs`) is left out with them;
* drawing, masks and filters of the list (`should_show`), texts of `src/packet_view.rs` and `src/ptrace.rs`. Where `ptrace` panics is in
  `PacketFraming` (`TracePanics`);
* containers whose content is shorter than 4 bytes in `PacketView`: `dissect` panics over them (`src/packet_view.rs:83`), so that they never become
  views; they are the `broken` kinds of `Mitm`;
* the SOCKS protocol, TCP and zlib: libraries. RSA and `modulus_transform`, `Transform` in `Rc4`. With it goes one
  hazard: `src/mitm.rs:163` joins the decrypted blocks as the bytes of numbers, without their leading zeros;
* what a chat command makes its caller's client show: to the server it is one of `OtherPacket`'s;
* the `passthrough` mode of the proxy, in which bytes are copied and which `src/main.rs` does not switch on.

Left, in this order:

1. An abstract relay, packets without bytes, that `TracingProxy` implements; `Moves` is most of its step simulation.
2. `RString` and `RVec` with known layout, next to the guessing reader.
