# A TLA+ model of parconc-rs

The repository holds two programs. `distrib-chat` is a chat system of several
nodes written with the actor framework elfo: clients connect over TCP to any
node, choose a name, talk, whisper, publish keys and kick each other; the nodes
find each other by gossip. `timetable` solves a conference timetable by
backtracking, sequentially and in parallel, on vectors and on bit masks.

This directory models their core logic, model-checks it with TLC and proves
part of it with TLAPS. `tlc -config <run>.cfg <module>` repeats a run,
`tlapm <module>.tla` a proof; `PROJECT.json` maps every definition to its lines.

## The system

| Component | State | Operations | Hard behaviour |
| --- | --- | --- | --- |
| chat server (`distrib-chat/src/server.rs`), one actor per node | `clients`: name to `Local(addr)` or `Remote`, with a public key | requests of its clients, `Cluster*` messages of the other servers, `SyncTick`, `ClusterNodeLeft` | a name claimed on two nodes, late unregistrations, lost messages, reconciliation |
| client actor (`client.rs`), one per connection | login or main loop, name, the request it is blocked on | a line of input, a delivered message, a kick, end of the stream | a kick or an end between two steps of the login; blocking requests |
| TCP acceptor (`client.rs`) | sockets waiting for their actor | accept | none beyond I/O |
| routes and messages (`lib.rs`, `protocol.rs`) | the mailboxes | route, broadcast | order and loss |
| discovery gossip (`gossip.rs`), one actor per node | `peers`, `active_transports` | three timers, five messages, `UpdateConfig` | timeouts, broken links, restarts, second-hand liveness |
| terminal client (`bin/client.rs`), one process per user | key cache, queued whispers, sidebar, input line | handshake, commands, lines of the server, a timer | lines sent ahead of answers, stale keys, whispers that wait for a lookup |
| encryption (`crypto.rs`) | a key pair per terminal | seal, open, encode | a seal nobody can open, a text that is no key |
| timetable solvers (`timetable/src`) | the search tree | refine, search, count | cutoff, schedule of the workers, mask arithmetic |

Interaction: a terminal writes lines to its client actor and reads lines back, without
waiting; client actors send to the server of their node and block on its answer
(`ctx.request(..).resolve().await`); the server sends `DeliverToClient` and
`KickClient` to clients, and `Cluster*` messages to the servers of all connected
nodes. The gossip actors talk to each other over the same connections, hand new
addresses to `system.network`, and tell the server of their node with
`ClusterNodeLeft` that a peer is gone.

What makes each correct: a table entry never outlives its client, a name on a
node has one holder, requests are answered, kicks take effect, whispers reach
only their addressee, lines arrive in order and once, the tables agree in the
end (chat); a sealed whisper is sent once, in order, and read by its addressee alone
(terminals); all nodes become connected, no live node is taken for dead, a dead
one is reported (gossip); all solvers return exactly the valid timetables
(timetable). The hazards behind these are listed in `PROJECT.json`, each at its
line and with the properties that would catch it.

## The modules

| Module | Models |
| --- | --- |
| `ChatCluster` | servers, client actors and the network between them |
| `NameTable` | the abstract table: what a server promises about the names of its own clients |
| `ChatProperties` | the properties of `ChatCluster`, with the refinement mapping to `NameTable` |
| `MCChatCluster` | instances for TLC |
| `ChatClusterProofs`, `ChatDeliveryProofs`, `ChatOrderProofs` | theorems about `ChatCluster`: tables and requests; whispers and keys; the order of lines |
| `TerminalClient` | terminals, the actors of their connections, and a server that keeps the keys |
| `SealedMail` | the abstract mail: what a user may expect of encrypted whispers |
| `TerminalProperties` | the properties of `TerminalClient`, with the refinement mapping to `SealedMail` |
| `MCTerminal` | instances for TLC |
| `TerminalProofs`, `TerminalMailProofs` | theorems about `TerminalClient`: queues, keys and seals; the refinement of `SealedMail` |
| `DiscoveryGossip`, `MCDiscoveryGossip`, `DiscoveryGossipProofs` | the gossip actors, time and the network; instances; theorems |
| `Timetable` | the rules, the two solvers and the counter, as operators |
| `ParallelSearch`, `MCParallelSearch`, `ParallelSearchProofs` | the parallel searches over those operators, with the refinement mapping to `SearchSkeleton`; instances; theorems |
| `SearchSkeleton`, `SearchSkeletonProofs` | the parallel search of any tree; a theorem |

Definitions named as mutants in their comment are plausible bugs: each property
is shown to fail when one of them takes the place of the definition it mutates.

### ChatCluster

A server's handler is one action: it reads and writes only its own table and
sends to mailboxes, and an actor handles one message at a time. `entry[n][x]` and
`pubkey[n][x]` are the `ClientEntry` and the key of the name `x`; `mailbox[n]` is what
the clients of `n` sent, in order (the order between different clients is
arbitrary because any of them may post next); `link[n][p]` is the connection from `n`
to `p`, in order. The server may take from its mailbox or from any link next.

A session is one TCP connection. Its `phase` follows the code of the actor:
`login` (the prompt), `joining` (blocked on `RegisterClient`), `chatting` (the main loop),
`asking` (blocked on a command's request), `closed`. While blocked it reads
neither its input nor its mailbox, so a kick waits. `Close` is the end of both loops:
only the main loop is followed by `UnregisterClient`. `Kicked` and `Leave` use it. A
message to a closed session is lost: elfo starts an actor which finds no socket
and returns.

The arms of the server are kept as they are: `Unregister` ignores the client
identifier, `ClientDisconnected` removes a `Local` entry too, `Sync` only adds,
`NewClient` kicks both sides of a collision.

Abstracted: the text of a line is who typed it, its number and its addressee;
notices are all one; a kick by name and the answers carry what the properties
look at. Faults: a connection breaks and loses what is on it; a process dies
with its clients and is started again empty. A connection between two nodes is made
by `LinkUp` whenever there is none. `NodeLeft` may come at any time once a fault has
happened and not all links are up.

### TerminalClient

A terminal is one run of `distrib-chat-client`. It makes one key pair, so it also
stands for its public key: what is sealed with the key `t` is opened by `t` alone
(`EncryptMessage`, `Decrypts`). `Stray` is a well-formed key of nobody here, `Garbled` any text that is no key. `peerKeys`, `pending` and `users` are `peer_keys`, `pending_whispers`
and `users` of `App`; `asked`, `sent`, `read`, `unread` and `missed` are what the user has
entered and what the terminal has shown. `toServer` and `toTerm` are the two directions
of the socket.

`Launch` is the prompt of `main` with what follows it: the nickname with the key, and
`/users`, which is written without waiting for the answer. `WhisperTo`, `PassThrough` and `Quit`
are the commands of the input line. An `Entry` has what the code makes something of: the key text of `/pubkey`,
which may be the own key, another terminal's, `Stray` or `Garbled` and is stored as it is (`PublishKey`);
of an `/etell` typed by hand, the key that opens its ciphertext, if any (its number is 0, since it
is none of the whispers the terminal has sealed); of any other line, its first two words, which at the
prompt are a nickname and a key (`NameIn`, `KeyIn`). `published` is history: the keys a terminal has had
registered under its name. The lines of the server that change more than
the screen have an action each: `EncryptedWhisper`, `KeyLine` (which also seals and sends
what has waited), `NoKeyLine`, `UserList`, and the notices of the sidebar.

The other side is a single node. What matters here of its client actor is that it is blocked
from a request to the answer, so a line and the server's handling of it are one
action (`Register`, `GetKey`, `EncryptedTell`, ...), while messages of others wait in
`inbox` and may be relayed before or after. `Ends` and `Unregister` stay apart, as in `ChatCluster`:
between them the name is still taken. The words of commands are names too, because the
actor at its prompt takes any word for a nickname.

Left out: lines that only go to the screen, and for terminals that are not `Watching`
the lines that only change the sidebar. The timer of 5 s (`SyncTicker`) runs in every terminal from the start on, as long as
less than `Backlog` lines are on the way to or from it; this bounds the queues.

### DiscoveryGossip

Time goes in periods of 2 s, which is the interval of the heartbeat and of the
failure check. In a period every running node fires each timer once and
everything that was sent is handled (`Period` waits for that); within it any order
is possible. The 800 ms gossip timer fires two or three times in that time and
is modelled as firing once, the slowest case for discovery. `age[n][q]` is the time
since `last_seen`, in periods; the window of 6 s is `Timeout = 3`. All messages are
broadcasts to the connected nodes, the answers to a query too, as the routes
are laid. A node that is started knows its seeds only.
`told[n]` records the `ClusterNodeLeft` the server of `n` got, until the peer is seen again.

### Timetable and ParallelSearch

`Refine` and `ExpandBranches` are the children of a search state, for vectors and for
masks. A mask is the set of its one bits, but `AllTalksMask` is computed with shifts
modulo the width, since that is where the width matters. Search and count are recursive
functions on the states of a conference. `AllTimetables` is what they are measured by: the set of
all assignments of the talks to the places in which nobody's wishes meet in a slot. `ParallelSearch` has the parallel part: the work is a sequence of
branches and results in the order rayon's indexed iterators collect; any pending
branch may be taken next. It is finished (`Solve`), refined into branches for other
workers (`Fork`), or, below the cutoff, searched by its worker (`Fallback`). For the
counter the results are numbers.

`SearchSkeleton` is `skeleton.rs` for whatever `is_finished` and `refine` may be: a set of
pending branches and a bag of solutions found, no order and no cutoff (a branch may be
given away or searched at any depth). `ParallelSearch` implements it for the tree of the
timetable: `pending` is the set of states of its branches, `found` the bag of the timetables in its results.

## The runs

| Run | Instance | Shows |
| --- | --- | --- |
| `Collide` | 2 linked nodes, 3 sessions: two want one name, on two nodes, the third that name or another; one of them kicks or whispers, plainly or sealed | `LocalEntryHasOwner`, `OwnershipInv`, `NoKickBeforeLogin`, `WhisperReachesAddressee`, and that the tables implement `NameTable` |
| `Chat` | 2 linked nodes, a talker and a user who kicks and may take the talker's name, 2 lines, 1 fault | `LinesInOrder`: public lines in the order typed, none twice; `OwnershipInv` through a fault |
| `Directory` | 2 nodes linked late, a name two users want on one, of which one publishes its key again, a third user who asks for keys on the other; fair actors | `TypeOK`, `KeyProvenance`, `DirectoriesConverge`, `RequestAnswered` |
| `Service` | 2 linked nodes, 2 users who talk, whisper plainly or sealed, kick and list, fair actors | `RequestAnswered`, `KickReleases`, `LineDelivered` |
| `Hiccup` | as `Directory` with two users and 1 fault | `DirectoriesConverge` fails |
| `Unlisted` | one name held on two nodes before they are linked | `ChattersListed` fails |
| `Terminals` | 3 terminals, two of them started with one nickname; the third whispers to it twice; one of the two publishes nonsense or the other's key, types a ciphertext by hand, talks, quits, dies or kicks whoever is called `/users` | `TypeOK`, `WhispersInOrder`, `SealedAsPublished`, `ReadByAddressee`, `UnreadableHasReason`, `WhisperSettles`, `SidebarsConverge`, and that the whispers implement `SealedMail` |
| `Prompt` | 2 terminals with one nickname, nobody types | `QueryIsNoName` fails |
| `Join` | 3 nodes, one seed, started in any order; gossip and failure check, window of one period | `MeshForms`: all connected for good; `NoFalseAlarm`, `AliveIsVouchedFor` |
| `Survivor` | 2 nodes, all timers, window of 3 periods, 1 broken connection, 1 crash and perhaps a restart | `KnownIsDialled`, `MeshForms`, `DeadPeerReported` |
| `DeadPeer` | 3 meshed nodes, one of which has just died | `DeadPeerReported` fails |
| `Timetables` | all conferences of up to 4 talks and 2 different lists of wishes; three conferences with workers | `TypeOK`, `BranchesExact`, `AnswerSequential`, `ResultsExact`, `CountExact`, and that the workers implement `SearchSkeleton` |

Bounds. Two nodes are enough for every interaction of two tables, since a
`Cluster*` message is never forwarded; a third session is what hands a name on or
listens in on a whisper. `RequestAnswered` is checked twice: `Service` has the whispers, the kicks and the
list, `Directory` the refused nickname, the published key and the lookup, with and without an answer, so that between them every
request and both outcomes of a registration occur. The echo of a whisper goes to whoever holds the sender's name by then
(`server.rs`, lines 184 and 200), so it may reach a successor: `WhisperReachesAddressee` says no more. One fault at any point covers loss and restart; two
lines are what an order needs. In the gossip runs three nodes are the smallest
cluster with second-hand knowledge, which is what discovery, the false alarm and the
dead peer are about. `Join` has the shortest window and no heartbeats, which makes its
claim stronger: the rosters alone keep everybody alive while the mesh is being made.
`Survivor` adds what needs all timers and faults, for two nodes; the mesh of three
after a crash is not covered.
In `Terminals` two whispers to one name are what an order and a queue need; two terminals
with one nickname are what makes a name change hands, a key go stale, a login be refused
and `/users` a name. One entry of the disturber at any moment covers each way a lookup can fail or bring a key
of somebody else, and a ciphertext typed by hand. The timer is switched on in the terminal whose sidebar is looked at: of what it sends
elsewhere nothing is kept but an answer to the prompt, and that `Launch` has already sent. For the masks the width is four and the problems go up to four
talks, so the full word occurs. `ParallelSearch` may end, and the chat and the gossip
may be quiet, so deadlock is not checked.

Fairness. An elfo actor runs whenever its mailbox is not empty: weak fairness of
`ServeClient`, of `ServePeer` per link, and of what a client does without its user
(`Joined`, `Answered`, `Show`, `Kicked`). Interval timers fire: `SyncTick`, the ticks of the gossip
actor, `Period`. `system.network` dials the configured addresses until connected: `LinkUp`, `Dial`.
In `TerminalClient` the event loop of a terminal takes what the server has sent or sees the
stream end (`ServerLine`, `Disconnected`), the actor and the server do what is there to do
(`Actor`, `Relay`, `Unregister`), and the timer of a terminal that is looked at fires.
Nothing obliges a user to start a terminal, to type or leave, a node to be started, a link to break
or a process to die.

### What the failing runs show

- `Hiccup` (README of distrib-chat, line 407, "convergence even after network
  hiccups"): `ClusterSync` adds names and completes keys and removes nothing. When the
  `ClusterClientDisconnected` of a name is lost with its connection, or its node dies before
  sending it, the other table keeps the name as `Remote` and refuses it for ever.
- `Unlisted` (line 21, a list of "all other clients currently active"): the handler
  of `ClusterClientDisconnected` removes the entry even when it is `Local`. Two nodes that were not
  connected may each have a holder of a name; when one leaves, the other's
  entry goes, and its client goes on chatting unlisted and cannot be reached. With a third user the same can come of a late
  `UnregisterClient`, which ignores its `client_id`: a holder whose entry went that way leaves when the name has a new holder,
  and takes the entry of the new one along. The states of `Collide` include this; no property that run checks forbids it.
- `DeadPeer` (`gossip.rs`, lines 10-11): a roster lists every peer its sender takes for alive, and
  the receiver counts them all as seen just now. With two survivors each keeps
  the dead node alive in the other's table, and no `ClusterNodeLeft` is ever sent. With one
  survivor (`Survivor`) the detection works.

- `Prompt` (`bin/client.rs`, line 244, "Initial query to populate users list"): the query is written
  before the nickname is accepted. If that is taken the actor asks again, and the next
  line it reads is `/users`: the user is registered under this name, and the terminal
  goes on as if it had the nickname it was started with.

Line 19 of that README says that a name taken on any node is refused. Two users
who ask for one name on two nodes at the same time are both accepted, and both
kicked when the `ClusterNewClient` messages cross: the code and its comments say so, and
the run `Collide` contains it.

## The proofs

For every set of nodes, sessions, names and keys, every topology and every
bound. The assumptions are those on the constants: `ConstantsAssumption` (functions have their
domains, links join two different nodes), `TerminalAssumption`, `MarkersAssumption` (`Absent`, `Remote`, `NoName` and `NoKey` are no
sessions, names or keys), `TerminalMarkers` (likewise for the terminals), `GossipAssumption` (the window is at least one period, the
gossip timer runs, the dead are nodes of the mesh), `WidthAssumption` (a mask has a bit) and `CallAssumption` (the
conferences are well formed and their talks fit a mask, which is the assertion of the code).

`ChatClusterProofs`:

- `TypeCorrect`: `Spec => []TypeOK`. The type invariant is not inductive alone: what a
  client sends is well typed because it has a name from the prompt on (`Named`; `TypeInv` joins the two).
- `Ownership`, `EntriesAreOwned`, `PromptIsNeverKicked`. `LocalEntryHasOwner` is not inductive: an entry
  is made when `RegisterClient` is handled, and that its client is still waiting then must be known
  from the mailbox. `OwnershipInv` adds that a request in the mailbox matches the phase of its sender
  (`MailMatchesSender`), that a sender has one request under way (`OneRequest`), that an answer has
  somebody waiting for it (`ReplyIsAwaited`), and that no kick is on the way to a client without a
  name (`KicksNeedName`): the server kicks only `Local` entries, and these belong to clients that are
  past the prompt. That is why the `Kick` branch of the login loop, which does not unregister, loses
  nothing. There is one lemma per group of actions (client, server, peers, crash).
- `ImplementsTable`: the `Local` entries of each server implement `NameTable`. A registration is a
  `Claim`: by the invariant its client holds nothing yet. Unregistration and
  `ClusterClientDisconnected` are `Release` or stutter, a crash is `Restart`.

`ChatDeliveryProofs`, on top of these. A session keeps its name to the end (`NamesStay`), so what was
once addressed rightly stays so while it waits.

- `WhispersReachAddressee`: an inbox takes a whisper only from a server whose `Local` entry for the name is
  this session, and by `OwnershipInv` that session carries the name. `WhisperInv` says this of every
  inbox, and of mailboxes and connections that whispers travel in messages of their own kind, never as public lines.
- `KeysHaveOwners`: `KeyInv` extends `KeyProvenance` to the keys on their way (`RegisterClient`, `RegisterKeyRequest`, the
  `Cluster*` messages with a key), each published by a session that carries the name.

`ChatOrderProofs`: `LinesKeepOrder`. A public line of `t` is on its way in the mailbox of its node, on a
connection or in an inbox. `OrderInv` says that for each listener each of the three is sorted, that
what is further along is older, that all of it is younger than what the listener has heard, and
no line has a number that was not typed. `PlaceInv` keeps the ways apart: lines of `t` are only in the mailbox and
on the connections of the node of `t`, and no node is connected with itself, so there is one way
to each listener. Losing a connection or a process thins the queues and keeps their
order (`Thins`).

`SearchSkeletonProofs`: `SearchCorrect`. Whatever the schedule and wherever the cutoff, a parallel search that has
ended has found what the sequential search finds, each solution once. It assumes that `seq_search` is
the recursive function of the code (`Sequential`) and that no solution is below two branches
of a state (`Tree`). The invariant, `Whole`: each solution is either found, once, or below exactly one pending
branch. That the solvers of the timetable are such searches is `WorkersImplementSkeleton`, below.

`DiscoveryGossipProofs`, for any number of nodes, any seeds, timers and window:

- `TypeCorrect`, and `PeersAreDialled`: whatever is in the peer table is in `active_transports`, hence dialled.
  `KnownIsDialled` with the type invariant is inductive.
- `LinksCorrect`: connections join running nodes, messages are on the way on connections only, and no node
  is a peer of its own, whatever breaks or dies.
- `NobodyFalselyDead` and `NewsInTime`. `NoFalseAlarm` says nothing of what keeps a node alive
  that was never connected. `AliveIsVouchedFor` does: whoever is in the table of `n` is connected to `n`, or in the table
  of somebody connected (`EveryoneVouchedFor`), and if nothing has been heard of it for a period, then `n` has still to ask,
  its question is on the way to such a node, or a roster that names it is on the way back
  (`HeardInTime`). Since a period ends only when all timers have fired and nothing is on the way, it is
  never two. `AlarmInv` adds that messages tell the truth (`NoticesTrue`): only dead nodes are announced
  as gone, a roster names only those its sender takes for alive, and it goes on doing so
  while the roster waits, because tables only grow then (`SteadyTables`).
- `NoAlarmWhileVouched`: each broken connection costs the news of one period at most. So fewer of them
  than the window has periods make no false alarm, provided that somebody connected vouches for
  everyone all the time. The proviso cannot be dropped: a node whose only connection is broken is
  rightly given up after the window, and a roster that is lost may have been the only introduction.

`ParallelSearchProofs`, for every conference, both solvers and the counter, every cutoff and schedule. The
provers cannot apply a principle of induction, so the first part derives one for sets of
naturals, and from it that a function defined by recursion on a measure exists, is unique and satisfies its
equation (`RecursionExists`, `Follows`). The measure of a search state is `Left`, the places still to be filled. With it the
folds and the searches of the model unfold (`SeqSearchUnfolds`, ...).

- `TypeCorrect` and `SchedulesAgree`. In `SearchInv` each item of the work is worth what it is or what the sequential
  search below it returns; the worths, put together in order, are always the sequential
  answer. A step replaces one item by items that are together worth the same (`Puts`). The sums of the counter
  and the concatenations of the solvers are treated as one (`Gather`, `Join`).
- `EveryBranchExact`. `AccountInv` says that each branch `Fits`: what it has placed is placed once, no two talks of a slot
  clash, what remains is the rest, and the candidates are what of the rest clashes with nothing in the
  open slot. `Fits` speaks of the table of clashes, whether it is a table of lists or of masks, so it is
  proved once for both; for the masks it needs that shifting and subtracting give the mask of all
  talks although the arithmetic is modulo the width (`Doubling`).
- `SolversFindAll`, about the operators alone. Below a `Proper` state the vector solver finds the valid timetables that extend
  it, in the order of their talks (`Finds`): the next talk of each is a candidate, and no two branches share one. A mask state
  that `Mirrors` a vector state has branches that mirror the other's in the same order; so the
  bitmask solver returns the same sequence and the counter its length (`Agree`).
- `AnswerExact` and `NumberExact` are `SchedulesAgree` and `SolversFindAll` together.
- `WorkersImplementSkeleton`. The abstract search has a set of branches and a bag of solutions, so a step of a worker maps to one of
  the skeleton only if no other branch of the work is the same state. `ApartInv` gives the reason: any
  two branches have a place that both have filled, and differently. For the bag, a step
  adds one of each timetable found and none twice, since a branch is searched into a segment of the sequential
  answer, which has no repetitions.

`TerminalProofs`, for any number of terminals and whatever their users type:

- `TypeCorrect`: a line that comes off the socket of a terminal that chats is sent under a name
  (`Named`, with `TypeOK` the inductive `TypeInv`).
- `QueueCorrect`: `WhispersInOrder` is inductive with the type invariant. Only a command and a key
  touch the queues (`QueueFrame`): the command appends where the cache is empty, and the
  key empties the queue it finds.
- `SealedAsPublishedCorrect`, `ReadCorrect`, `UnreadableCorrect`. Users may publish any text for their name and type any
  ciphertext, so nothing says that a whisper is sealed for its addressee. What holds is that a seal has a key somebody
  of the name has had registered (`SealedAsPublished`), that what is shown as read is the reader's by name and by key
  (`ReadByAddressee`), and that what cannot be read was typed by hand, or has a key the
  reader itself or a holder before it has had registered (`UnreadableHasReason`). Each speaks of the end of a long way: a key is
  registered, looked up, cached and used for a seal that is sent, routed by name and opened, while names
  change hands. `SealInv` says of everything on that way where it comes from: `Registry` (one name per
  terminal, kept for ever; a name's holder is still connected; a key filed under a name was registered
  by a terminal which got the name), `LinesGood` (what a terminal has written), `InboxGood` (what waits at an actor),
  `ScreenGood` (what is on the way to a terminal). It holds because names are never given back
  by a terminal, what was registered stays in `published`, and ended connections stay ended (`Stable`), so that what was once
  true of a key remains true while the line that carries it waits.

`TerminalMailProofs`: `ImplementsMail`, the terminals implement `SealedMail`. A step that seals is `SealAll` by
`WhispersInOrder`: all that waits is what has been entered and not been sent. A step that shows is `Open` by
`WayInv`: for each pair of terminals t, u and each name x, the whispers of t to x that u has read, that
are on the way to its screen, that wait at its actor and that t still has on the wire come in this order,
each place sorted, and each is one that t has sent (`OnWay`). A message leaves each queue at the head and enters
the next at the end, or is lost (`PassOn`); all other steps thin the queues (`Thins`), and new whispers
are numbered after the old ones (`NewAreLast`). All this is about whispers with a number; a ciphertext typed
by hand that its reader can open is `OpenOther`, which the abstract mail allows at any time.

Only model-checked, because it is out of reach of the provers: liveness and convergence (`MeshForms`, `DeadPeerReported`,
`DirectoriesConverge`, `RequestAnswered`, `KickReleases`, `LineDelivered`, `WhisperSettles`, `SidebarsConverge`). Every invariant and
every refinement that a passing run checks is a theorem.

## Not modelled

Of the terminal client the editing of the input line, scrolling and drawing; the
primitives of `crypto.rs` (functions of libraries); argument and
configuration parsing; the TCP acceptor beyond its effect; the generator and
the benchmark driver of the timetable; rayon, elfo and elfo-network themselves, which
appear through the way the code uses them. Mailboxes are unbounded, so what a full
one does (elfo blocks the sender) is not covered. In `DiscoveryGossip` a node is its address, the clocks
of the nodes agree to within a period, and a message is not delayed beyond it. The branch of `reconfigure_network` in which `UpdateConfig` fails (lines 459-464, it
only logs) is left out: after it an address is recorded and not dialled until another one is discovered, so
`KnownIsDialled` holds for configurations that `system.network` accepts.

## Plan

1. Bounded mailboxes: server and clients that wait for each other.
2. Gossip with unequal clocks: a `ClusterNodeLeft` of another node that arrives before the own check
   (the own server is then never told).
3. `EveryoneVouchedFor` through broken connections, for the cases in which a connected node remains.
4. The tree of the timetable as an instance of `SearchCorrect`.
