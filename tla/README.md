# Verification of cs3700

The repository holds four course projects that share no code: a reliable
transport over a faulty network (`3700TCP`), a learning Ethernet bridge
(`3700Bridge`), a BGP-like router (`3700Router`) and a web crawler
(`3700Crawler`). Each comes with a simulator, `run`, that starts the programs
and plays the network between them.

## 1. Inventory

### 3700TCP

| Part | State | Operations |
|---|---|---|
| Sender (`launch_sender.py`) | `syn_number`, `ack_number`, `packets_in_flight` (packet to time sent), `sent_all_messages` | read a chunk and send it; see the end of the input; handle a response; resend packets older than 2 s |
| Receiver (`launch_receiver.py`) | `highest_acked`, `highest_received_syn`, `window_packets`, the text printed | handle one packet: reject a mangled one, ignore a known one, keep an unackable one, print what has become contiguous and ack it |
| Packet (`packet.py`, `constants.py`) | none | byte layout, flags, checksum |
| Network (`run`) | two directions, each a delay queue and a drop-tail buffer | drop, mangle, duplicate, delay with jitter, deliver |

Sender and receiver are two processes that interact only by packets. Hard:
loss, duplication, mangling and reordering in both directions; a retransmission
racing a late answer; the state a response is matched against; how the transfer
starts (nothing acked yet) and how it ends. Right means: what is printed is the
input, in order, once; the sender exits, and only when it is.

### 3700Bridge

| Part | State | Operations |
|---|---|---|
| Bridge (`bridge.py`) | `root_port`, `root_bpdu`, `forwarding_table`, `last_sent_bpdu` | one turn: take one packet of each ready port, handle the BPDUs, recompute table and root, forward the data, announce |
| Port (`port.py`) | `status`, `seen_bpdus` (BPDU to time), `last_bpdu_sent` | send a BPDU, forget BPDUs older than 1 s, recompute the status |
| Requests (`request_handler.py`) | none | store a BPDU; learn, drop, broadcast or forward a frame |
| Packets (`packet.py`, `utils.py`) | none | BPDU order, JSON conversion |
| LANs (`run`) | the ports on each LAN | broadcast after a delay, start and stop bridges |

Hard: bridges decide concurrently from what they heard at different times; the
order in which BPDUs arrive; BPDUs thrown away when another in the same turn
changes a port; a neighbour that stops; a host that moves. Right means: a port
that leads towards a better root is never treated as designated, the tree is
loop-free and connected, a frame goes where its destination is.

### 3700Router

| Part | State | Operations |
|---|---|---|
| Router (`router.py`) | one socket per neighbour with its relation | select, parse, dispatch |
| Requests (`request_handler.py`) | `forwarding_table` (announcement to neighbour), `revoked_addresses` | announce, revoke, forward a datum, dump the (aggregated) table |
| Addresses (`ipaddress.py`) | none | parse, prefix length, match, aggregate |
| Attributes (`packet.py`) | none | order of origins, of announcements |
| Neighbours (`run`) | nets each one has announced | announce, revoke, send data, ask for a dump |

Hard: routes announced again with other attributes, the same network from
several neighbours, revocation, aggregation and what it hides, the tie-breaks
between routes. Right means: the table is a function of the announcements in
force, the best route wins whatever order they came in, data crosses only paths
somebody pays for.

### 3700Crawler

| Part | State | Operations |
|---|---|---|
| Crawler (`crawler.py`) | `header_cookie`, `session_id`, one connection | ask for the login page, send the credentials, take the session |
| Answers (`http_response.py`, `utils.py`) | none | split status line, header and body; say how much of the body is missing |
| Web server (not in the repository) | tokens it has issued | the page, the redirect with its two cookies, the refusal |

The committed program logs in and stops: `extract_response_data` returns `None`
or raises, and `run` unpacks it (`crawler.py:187`). There is no frontier and no
crawl in the source. Hard: `recv` returns what it likes, and an answer is read
with at most two of them; a length counted in characters against one sent in
bytes; bytes left of one answer in front of the next; a server that closes.
Right means: the session taken is the one issued, login raises only for a
reason, no `recv` waits for ever.

## 2. Plan

Modules are written to be proved about: constants with named assumptions, one
action per operation, no recursive operators.

1. **TCP (done).** `TCPNetwork`, `TCPSender`, `TCPReceiver`, composed by
   `TCPTransfer`; abstract specification `ReliableTransfer`; proofs in
   `TCPTransferProofs`. `TCPPacket` is the packets as bytes and implements the
   wires of `TCPNetwork`; proofs in `TCPPacketProofs`.
2. **Bridge (done).** `SpanningTree`: turns, BPDUs, expiry, start and stop;
   proofs in `SpanningTreeProofs` (the exceptions of `bridge.py:172` and of the
   comparison with `None` are never raised). `Forwarding` adds hosts and frames,
   `Serialization` what a frame carries; proofs in `ForwardingProofs`.
3. **Router (done).** `Routes` (table, best route), `Aggregation` (what a dump
   says), `Router` (handlers and neighbours); proofs in `AggregationProofs` and
   `RouterProofs`.
4. **Crawler (done).** `HTTPResponse` (reading an answer), `Crawler` (the login
   and the server); proofs of both in `CrawlerProofs`.
5. **More models (open).** The router's export policy as an abstract
   specification the handlers implement.

`FoldProofs` is shared by the proofs: an induction over the subsets of a finite
set and over the naturals, that a fold over a set and a recursive function
exist, and the greatest of a set of numbers. The library's induction theorems take an
operator and cannot be instantiated, so each fold (`HandleWithdraw`, the loop of
`BestRoute`, the loops of a dump, `FlattenSeq`, `Number`) is put into a set of the subsets, or indices, for
which its claim holds, and that set is shown to be all of them.

## 3. The TCP model

`TCPNetwork` holds the two wires `s_to_r` and `r_to_s` (sequences) and the fate
of a packet. `Drop`, `Mangle`, `Duplicate` and `Jitter` name the directions a
fault may strike (the emulator has one probability for both; restricting a
fault to a direction describes the runs in which chance does so). A packet is
its kind and its sequence number: chunk *k* always travels as packet *k*, and
its text plays no part in any decision. All mangled packets are one value,
because a failed checksum is all their reader sees. Overwriting with `X` bytes
that were `X` already leaves the packet intact, which is the undamaged fate.

`TCPSender`: `packets_in_flight` is the set of numbers in flight; send times are
replaced by a timeout that may strike any packet in flight (`SlowTimeout =
FALSE`), or only when nothing is in transit (`TRUE`: the timeout is 2 s, the
delays of the provided configurations stay below 0.7 s each way). One turn of
`run` is split into its three parts; the module says why nothing is lost.

`TCPReceiver`: `window_packets` is a set of numbers, `printed` the numbers of
the chunks printed. Mangled packets, known ones, unackable ones, the first one
and later ones are five disjuncts of `HandlePacket`. `EndsRun` is the loop of
`_update_acked_packets`, `Wrap` its modulus; `WidthAssumption` keeps numbers
below it (a transfer of more than 2^32 chunks of 1375 bytes is out of scope).

`TCPTransfer` composes them. `ReliableTransfer` is the promise: the output is a
run of consecutive chunks growing at its end, starting at one of `Starts`;
finished only at the last chunk. `FaithfulCopy` takes `Starts = {1}`,
`TailCopy` all chunks.

`RoomForNext` answers for the window the receiver advertises: packets below the
last ack stay in `window_packets` for ever, yet those beyond the packet it waits
for never fill the window.

### Packets as bytes (`TCPPacket`)

`to_bytes`, `from_bytes`, the flags, the checksum and the decoding of the text,
on wires that overwrite bytes. Who sends what and when is left open: every
packet sent may be sent again, and every answer to one may be given, so its
wires show all that those of `TCPTransfer` can. The digest of `blake2b` is one
element of a raw packet, and different bytes are taken to have different
digests; that 5 overwritten bytes cannot produce another valid digest is
therefore assumed. Numbers and lengths are split into bytes and read back as
`struct` does; a number beyond its field raises.

`ReadsAsSentOrMangled` is a refinement: read through `from_bytes` and the
checksum test, the raw wires take only the steps that `TCPNetwork` allows. This
is what entitles the model above to a packet of a kind and a number. The other
properties say what bytes add: the test passes exactly for what was sent
(`ChecksumTells`), even if the length of the data is overwritten; text is
printed under its own number; the receiver dies of a character cut by a chunk
(`launch_receiver.py:161`) and of nothing else, the sender of a number that
`struct` refuses (`syn_number` never wraps, `launch_sender.py:216`).

### Runs

| Run | Question | Bounds |
|---|---|---|
| `tcp_packets` | do bytes, overwritten at will, behave as the wires above | bytes of 32 values, sequence numbers of one byte and flags of one short, 3 chunks of 2 bytes of which one ends inside a character, 3 bytes overwritten, 1 damaged packet, 1 packet per wire |
| `tcp_hostile` | what holds whatever the network does | 4 chunks, window 3, 2 packets per wire, 1 mangled or duplicated packet, any number lost, any order, timeouts at any moment |
| `tcp_ordered` | is it a faithful copy when nothing sent to the receiver is lost or overtaken | 4 chunks, window 2, 2 damaged packets, answers lost and reordered at will |
| `tcp_answers_arrive` | does the sender exit when every answer arrives | 5 chunks, window 3, 3 damaged packets, any number of losses towards the receiver |
| `tcp_first_lost` | *violated*: a lost first packet truncates the output | 3 chunks |

Windows smaller than the input make the window fill, slide and bound; a packet
can then arrive at its far edge. `MaxDamage` bounds only what makes state grow
(duplicates, and mangled packets, which draw an answer each). The buffers of
`tcp_ordered` and `tcp_answers_arrive` are larger than what can be in transit
there, so their drop-tail loses nothing.

Fairness (`FairSpec`): both processes loop for ever over `select`, so an action
that stays possible is taken (weak fairness on sending, on the end of the
input, on reading either wire); and a packet that is sent again and again is
not lost each time (strong fairness on a resend that arrives; a drop is an
independent draw of probability below 1 in the emulator). Nothing is assumed of
answers: in `tcp_answers_arrive` the network does not strike them, in
`tcp_answer_lost` it may.

Small bytes make the numbers end within the run: the last of the 3 chunks has
a number that the field cannot hold.

### Findings

* `tcp_first_lost`: the receiver prints whatever packet arrives first
  (`highest_acked` is `None`) and acks it; the sender reads that as an ack of
  all before it. One lost or overtaken first packet and the output lacks the
  beginning, with the sender exiting normally. A *mangled* first packet does no
  harm: the error report sets `highest_acked` to 0.

Three more are in section 7.

### Proofs (`TCPTransferProofs`)

For every `N`, window, buffer, damage bound and choice of faults, from the
assumptions of `TCPNetwork` only:

* `Invariance`: `IInv` is inductive. Beyond the properties themselves it needs
  that a response in transit acks nothing beyond `highest_acked` and a packet
  in transit has been sent (`WiresSound`); that the packets in flight lie at or
  after `ack_number`, itself 1 or at most `highest_acked` (`SenderSound`); and
  that the window is empty while nothing has been acked (`ReceiverSound`). The
  proof has one lemma per action; `HandleResponsePreserves` is the heart: a
  packet dropped by the filter was acked, or is put back by the resend.
* `TypeCorrect`, `PrintsConsecutiveChunks`, `ForgetsNoPacket`, `KeepsToWindow`,
  `ExitsOnlyWhenDelivered`, `StaysInReach`, `HasRoomForNext`: invariants that follow from it.
* `AcksOnlyGrow`: an action property.
* `CopiesATail`: the refinement of `ReliableTransfer` on any network.
* `CopiesFaithfully`: where no packet to the receiver is lost or overtaken and
  its buffer holds at least one (`OrderedForward`), a transfer implements
  `ReliableTransfer` from the first chunk, however packets are mangled or
  duplicated, answers lost, and timeouts strike. `FromTheFirst` carries it:
  until the receiver has responded, the packet it reads next is chunk 1 or
  mangled; from then on all it has acked is printed. It is inductive together
  with `IInv`, because what is sent ends up behind the packet read next
  (`SentBehind`), even if the buffer drops it.

Only model-checked: `SenderExits` (liveness under fairness is out of the
prover's reach).

### Proofs (`TCPPacketProofs`)

For every `Base` above 1, every width of the fields, every input that decodes,
every `MangledByte`, and whatever the emulator drops, overwrites and duplicates.
The assumptions are that a chunk's length fits its field (1375 < 2^16), that the
flags do (`32 <= Power[ShortBytes]`) and that the first number is one a field can
hold or the first it cannot. `^` means nothing to the prover, hence the
recursive function `Power`.

* Numbers: `BytesOfNumber` and `NumberOfBytes` say that `Bytes` and `Number` undo
  each other on numbers that fit (an induction over the bytes for a fold),
  `FromBytes` and `Layout` that every raw packet with a header is read as a
  packet whose own bytes are those that were read, `SentIsRead` that a packet
  sent is read as it was, `Flags` that the bits tell the three sorts apart.
* `IntactIsSent` is the argument of the checksum: if what is read passes the
  test, its digest is not spoilt, hence the one that was sent; so the bytes that
  were hashed are those of the packet sent. Its data is then as long as what was
  read, and what arrived is as long as what was sent, so no byte of it has
  escaped the test. `TestTells` adds the converse.
* `PacketInvariance`: `PacketInv` is inductive. What it needs besides the
  properties is `WiresCarry` (all that is on a wire is a packet that was sent,
  some of its bytes overwritten) and that `syn_number` has not gone beyond the
  first number that does not fit (`NumberFitsNext`). `PacketInv` has been
  model-checked on `tcp_packets` too.
* `ChecksumIsExact`, `OnlyTextPrinted`, `DeathHasCause` follow
  (`UndecodedIsCut`: a chunk of a text that decodes fails to only if it, or the
  one before it, ends inside a character).
* `BytesImplementNetwork` (`ReadsAsSentOrMangled`): every step maps to a step of
  `TCPNetwork`'s wires or to none. `Says` is the mapping of one packet;
  `FateSays` maps what the emulator makes of it, `ReadDropTail` and `ReadTail`
  carry it through the buffer. What `TCPTransferProofs` shows on those wires does
  therefore not depend on taking a packet for a kind and a number.

That a damaged digest is no valid one, and that different bytes have different
digests, is how the model defines `Digest`, and no theorem.

## 4. The Bridge models

### `SpanningTree`

One action per thing a bridge process does: `Start` (the process comes up and
announces itself), `Stop` (the simulator kills it), `Turn`. A turn is one pass
of the loop of `Bridge.launch`, in its order: read a BPDU from each port of
`read`, handle the requests up to the first that changes a status (`Handled`:
`any_port_updated or handle()` skips the others, whose BPDUs are lost), then, if
a status has changed, `CalculateRoot`, then `Announce`, if the root has changed
or the timer has run out. `UpdateRoot` keeps the code's `update_port(..) or
update_bpdu(..)`: when the port changes, the BPDU does not. `Raises` is the two
exceptions of the calculation; they would end the process (`"crashed"`).

`inbox[b][p]` is a socket. It holds announcements rather than BPDUs, each the
set of BPDUs that one `send_bpdus` sends to that socket (one, except where a
bridge has two ports on a LAN); they are read one at a time, in the order of the
ports that sent them.

| Constant | Stands for | Why it is harmless |
|---|---|---|
| `Capacity` | what a socket holds; more is lost | UDP loses too. `bridge_churn` has 1, so much is lost; the liveness runs hold what can be under way |
| `Expires` | a BPDU may be forgotten at any turn that reads its port | no clock: `TRUE` has more behaviours than the one second of the code. The liveness runs assume that a running bridge repeats its BPDUs before the others forget them (`FALSE`): a repeat is due after 0.5 s and taken at the end of the next turn, a BPDU expires after 1 s |
| `Prompt` | a bridge repeats its BPDUs only after all earlier ones have been read | 0.5 s against turns of milliseconds; keeps the state space small, `FALSE` in `bridge_churn` |
| `MaxCost` | no root is adopted farther than this | a stopped root's BPDUs may count up without end; 3 LANs are more than any path here |

Fairness (`FairSpec`): every bridge of the configuration is started, a socket
that holds a BPDU is read (the loop selects over all of them), and a BPDU is
repeated when the timer has run out. Stops are not forced.

### `Forwarding`

Extends `SpanningTree` by hosts and data frames. `HandleFrame` is
`ForwardingRequest.handle`: learn the source, refuse on a disabled port, look
the destination up, send on one port, or on all active ones. `TurnAndForget`
is a turn, after which the table holds no host if a status has changed. Frames have
queues of their own, so they overtake BPDUs in every way. `HostsWait` lets hosts
wait until each LAN has one designated port; `frames_line` has `FALSE`. The
properties about frames that were sent early hold there because the network has
no circle. A fair scheduler reads every frame (`ForwardingFairness`).

A frame carries a message, a JSON object. A bridge reads it with
`IncrementallyDeserialize(BPDU, Any)` and writes what it has read, and so does
the next one (`Serialization`): a message of a host that happens to have the
fields of a BPDU is read as one, and `int()` may change its values (`"03"`, `3.7`).
`Truncated` is `int()` on the values of a model. `ContentKept` says that
whatever has happened, the next bridge reads what the first one would have read;
`TableIsRight` that a table files a host behind its LAN, or behind the one it
has left, whatever overtakes what.

A status change replaces the table by one with entries for bridges only, made
from the BPDUs heard; no frame is sent to a bridge, so these are left out and
the table of the model is empty.

### Findings

* `bridge_row`: three bridges in a chain, the highest in the middle. Since the
  first change of the root port leaves `root_bpdu` behind, a bridge can go on
  announcing an old root, and the only path between two LANs can stay disabled.

Five more, three of them about frames, are in section 7.

### Proofs (`SpanningTreeProofs`)

For every set of bridges with natural identities, every assignment of ports to
LANs, every `Capacity`, `MaxCost`, `MayStop`, `Expires` and `Prompt`:

* `Invariance`: `IInv` is inductive. Its heart is `PortInv`: a port that is not
  disabled has heard of no root *nearer* than the one its bridge believes in
  **now**. `status` alone only says what held against the BPDU last sent, which
  may be older than the root; hence also `last_sent = Sendable(root_bpdu)`, which
  holds because every change is announced in the same turn. `BelievesOf` says
  that a `None` port goes with the default BPDU, which excludes the `TypeError`;
  `Audible` and `Genuine` say of every BPDU heard or under way that another port
  of that LAN sent it and that its root exists within its cost.
  `HandlingKeepsPorts` and `CalculatedRootHandled` carry the argument through
  the three parts of a turn; `TurnKeepsInvariant` joins them.
* `TypeCorrect`, `RaisesNothing`, `LowestStaysOpen`, `ClaimsAreSound` follow.

That a set of numbers has a least one (`LeastNatural`), which `FirstOf` needs,
comes from the well-foundedness of `<` on the naturals. Only model-checked: that
the tree settles, is connected and free of loops (liveness).

### Proofs (`ForwardingProofs`)

For every network, every choice of hosts and messages, every order of BPDUs and
frames, every stop and move; nothing is needed of the spanning tree:

* `ForwardingInvariance`: `FInv` is inductive. It says of every frame under way
  that the hosts and the number are ones there are, that its message has the
  names and JSON values of the host's, and that a bridge reads in it what it
  would read in the host's own. `ForwardingTypeCorrect` and `KeepsContent`
  follow. `ReadsWhatWasRead` is the lemma behind the latter: a message that a
  bridge has written is read as the one it has read. It rests on
  `IntAssumption` (`int()` of what `int()` returned changes nothing).
* `FilesHostsRightly`: `TableIsRight`, in networks in which no way leads from a
  port of a bridge to another one except through that bridge (`NoCircle`; true
  of the network of `frames_line`). The argument is that each bridge passes a
  frame on to ports on the far side of the one it came by (`LeadsOn`), so a
  frame always comes from where its sender is or was. With a circle the
  theorem's hypothesis fails, as it must: see `frames_circle` in section 7.

* `DeliversOnce`: `AtMostOnce`, in the same networks. `OnceInv`, inductive with
  `FInv`, says of the copies of one frame that there is one in a queue, and that
  no LAN is `Ahead` of two of them or ahead of one and behind the other
  (`Parted`); and that the LAN of a host is ahead of no copy once the frame has
  been there. `AheadIsNear` carries it: what is ahead of the port a frame comes
  to next is what the port it left by leads to, and two ports of a bridge lead
  to different LANs (`NearsApart`). Copies on one LAN (`SiblingsParted`), on two
  ports of a bridge (`BranchesParted`) and elsewhere (`OldAndNewParted`) stay
  parted, whether the table is right or wrong. A frame may follow a host that
  has moved, hence `at = HomeOf`; a host never moves back.

Only model-checked: that frames die out and arrive (liveness).

## 5. The Router model

`Routes` is the table: a sequence of entries `[msg, from]` in the order of the
Python dictionary (a key stored again keeps its place and gets the new value),
`Stored`, `Withdrawn`, prefix match, and the choice of a route as the code makes
it (`Keeps`, `BestRoute`, a fold over the table) beside a reference definition
taken from the comments (`Rank`, `IsBest`). `Aggregation` is the loop of
`_aggregate_msg_group` as a fold, with `SameCoverage` and `Coalesced` as what it
promises. Addresses have `Width` bits instead of 32.

`Router` composes them with the neighbours: `Announce`, `Withdraw`, `SendData`,
`SendDump` post a packet to that neighbour's inbox; `HandleUpdate`,
`HandleWithdraw`, `HandleData`, `HandleDump` are the four handlers. Sockets are
read in any order, each in its own order; `MaxInFlight` bounds what is unhandled
in all. `sent` is what the last handler sent (empty after a neighbour's step),
`told` what a neighbour has been told, which only the properties read.
`Repeats`, `Endpoints` and `Asks` let a run leave out repeated announcements,
data or dumps.

What the properties take for granted, in their comments too:

* `BestRouteTaken` is what holds although `__gt__` of the origins is no order:
  the rules before the origin decide first, and the lowest neighbour among
  routes of one origin. That the origin counts as the comments say
  (`BestRouteOfAll`) is false (section 7).
* `ToldRoutesWork`: export goes by who announced a route, forwarding by who has
  the best one, so being told of a network does not mean that data for it is
  passed on. The routes for an address are *open* to its sender (it may be told
  of them) or *hidden* (its own; for a peer or provider, those of peers and
  providers). Whatever the preferences and lengths of prefixes: data for what
  its sender was told of is answered; it goes to another neighbour if an open
  route beats all hidden ones, and does not if a hidden one beats all open ones.
  Between equals the origin and the address decide, and it may go either way.
  In `router_policy` the peer's route for a network is preferred to the
  customer's, and that of the customer has been exported to the provider: its
  data is refused, and passed on once the peer has withdrawn. That it is always
  passed on (`ToldIsPassedOn`) is false (section 7).
* `DumpIsExact` takes no neighbour to announce a network together with its two
  halves with the same attributes; else it is false (section 7).
* `RoutedIsTold` allows for a withdrawal that was passed on although another
  neighbour still has that network: the others forget a route that works. It
  may be meant so, hence no finding.

`revoked_addresses` is written and never read by the program.

`DropsOnlyUnrouted` is about the silence of `request_handler.py:248`: data is
dropped without a word only when no neighbour has announced a network for it.
It holds where no network is announced twice with other attributes by one
neighbour: the table is keyed by the whole update, and `router_repeat`
(section 7) shows what happens else.

### Proofs (`AggregationProofs`, `RouterProofs`)

For every set of neighbours with their relations and announcements, every order
of packets and every `MaxInFlight`:

* `RouterInvariance`: `RInv` is inductive. It is the types, that no message is
  twice in the table, that an entry's sender has announced it, and that packets
  on their way are from what their neighbour may announce. `RouterTypeCorrect`
  follows.
* `RouteIsBest` (`BestRouteTaken`): the rules form an order except for the
  origin (`BetterIsOrder`); the loop over the table never gives up an entry for
  a worse one (`GivesWayToBetter`), so at each index it holds one that nothing
  before it beats (`BestOfOneMore`, `LoopFindsBest`).
* `TableInvariance`: `CurInv`, inductive with `RInv`, says for each neighbour
  that its entries, with the updates and withdrawals in its inbox applied in
  order, become what it announces now. `TableCurrent` is the case of an inbox
  without any; `DataDelivered` (`NoMisdelivery`) and `OnlyUnroutedDropped`
  (`DropsOnlyUnrouted`) follow with `RouteIsBest`. `WithdrawnSetLeaves` is what
  the loop of a withdrawal does, in whatever order it takes the networks.
* `ToldRouted`, `RoutedTold` (`ToldIsRouted`, `RoutedIsTold`): what a neighbour
  has been told, related to the entries it may be told of.
* `ToldWork` (`ToldRoutesWork`): with `ToldRouted` there is an open route, so
  there is an answer; the route taken is beaten by none (`RulesAreAlike`), so it
  is open where an open one beats all hidden ones and hidden where a hidden one
  beats all open ones; and data is passed on exactly over an open one.
* `DumpExact`, `DumpCoalesced` (`DumpIsExact`, `DumpIsCoalesced`), from `RInv` and
  `DumpIs`, for every width of an address and every table. Two networks that match
  and have no common address are the halves of one (`MatchedHalves`), so a
  combination says what the combined said (`CombinedIs`), and each round of the
  loop keeps what the list says (`RoundKeeps`). `last_edited` has a place in the
  list, and all behind it has been compared with everything: each round moves
  that place to the front or shortens the list (`Place`, `RoundComesNearer`), so
  the rounds of `AggregateGroup` are enough for the `while` loop to end, with
  nothing left that matches (`GroupIs`). `AggregatedIs` puts the neighbours'
  lists together: none takes an entry of another. A shift by n bits is a
  division by `Power[n]`; `PowerIs` is all the proof needs to know of it.

Hypotheses, each named in the theorems that need it:

* `SeparateNeighbors`: no two neighbours announce the same message. An update's
  path begins with the system of its sender, so the simulator cannot make two
  such; the table, keyed by the message, would hold one entry for both.
* `OneUpdateEach`: a neighbour announces a network anew only after a withdrawal,
  or with the same attributes. Without it the claims are false: `router_repeat`.
* `SeparateNetworks`: announcements with the same attributes, path included, are
  of one neighbour, and no address is of two of their networks. Without it a dump
  may say something else: `router_nested`.

The runs satisfy them: `router_policy` has different paths for each neighbour,
and repeats with the attributes of before; in `router_tables` networks that overlap
have different attributes.

## 6. The Crawler model

`HTTPResponse` is how an answer is read: bytes of a few kinds, among them the
two bytes of a character that is not ASCII, the status line, the loop over the
header lines, the dictionary that keeps the last line of a key, and what is left
to read. `Crawler` is `Crawler.run`: `GetLoginPage`, `ReadHeader` and `ReadRest`
(the first and the second `recv` of `deserialize_response`, each with all that
follows up to the next one), `ExtractResponseData`, which always raises. `recv`
returns any part of what is under way, waits if there is nothing, and returns
nothing after a close.

The server is not in the repository. `ServePage` and `ServeLogin` answer as
`3700Crawler/README.md` records (a page with a token, a redirect that sets
`csrftoken` and `sessionid`, in this order if `SessionLast`), with the header
lines of a page in any order; `CloseConnection` may come at any time. User and
password are right or wrong from the start (`valid`).

Fairness: the client has nothing else to do than its next step, and a server that
has not closed answers; neither closing nor the size of a `recv` is forced.

`SessionIsIssued` and `LoginEnds` hold whatever `recv` cuts off. They hold with
little to spare: see `crawler_wide`, `crawler_cut` and `crawler_cookies` below.
After the login `full_cookie` names the CSRF token without its key and keeps the
one of the page, while `3700Crawler/README.md` shows `csrftoken=...; sessionid=...`
with the new one; no request of the program ever uses it.

### Proofs (`CrawlerProofs`)

For every size of the first `recv`, every page (`Filler`, `WideChars`), any cut
and any moment of a close:

* `CrawlerInvariance`: `CInv` is inductive. `TypesInv` says that every byte under
  way and in the header that has been read is one the server writes to this user
  (`Allowed`): the session is among them only for a user it knows, and a token
  is the page's own. `StagesInv` adds that before the login there are only bytes
  of a page, `LengthsInv` that no more than a page is left when the reply comes.
  It needs nothing of where an answer is cut: `HeaderOfBytes` says that what
  `deserialize_response` takes from any part of an answer comes from its bytes.
* `CrawlerTypeCorrect` (`CrawlerTypeOK`) and `LoginIsIssued` (`SessionIsIssued`)
  follow.
* `LoginRaisesForCause` (`RaisesForCause`), with `WholeInv`: undisturbed, what is
  under way is one whole answer or nothing. `WholeAnswer` reads an answer byte
  by byte: its line ends are those the server wrote, the loop stops at the empty
  one, the last line of a key counts. `PageRead` and `RedirectRead` apply it to
  the page with its lines in any order and to the redirection. The theorem
  assumes `SessionLast`, which is what the server does (`3700Crawler/README.md`);
  without it the property is false, `crawler_cookies`.

`CInv` and `WholeInv` have been model-checked on all four configurations too.
Only model-checked: `LoginEnds` (liveness).

## 7. Runs

| Run | Question | Bounds |
|---|---|---|
| `tcp_*` | see section 3 | |
| `bridge_churn` | what holds whatever is lost, expires or stops | ring of 3 bridges, sockets of 1 announcement, bridge 1 may stop |
| `bridge_settle` | do bridges settle on a connected tree without a loop | 2 bridges in parallel, one with two ports on one LAN (a circle of two bridges, and a bridge that hears itself, as in `intermediate-3.conf`), the other the only way to a third LAN |
| `bridge_row` | *violated*: is every LAN reached in the end | 3 bridges in a chain |
| `frames_line` | are frames delivered, once, unchanged, and gone in the end | 2 bridges in a row, 2 frames between hosts at the ends, bridge 2 may stop, host `h` may move; one message that reads as a BPDU and one that nearly does |
| `router_policy` | do table, export and forwarding agree, is nothing dropped that has a route | a customer with 2 networks, a peer with a preferred route for one of them, a provider with the default route, repeats, dumps, data; 2 packets in flight |
| `router_tables` | is the best route taken, is a dump exact | 2 customers, 5 overlapping routes that differ in length, path, preference, origin and self-origin; one pair can be combined (longer groups: theorem `DumpCoalesced`) |
| `crawler_login` | does a login end, with the right session | a first `recv` of at most 40 bytes, a page of 27 that it may return whole or cut anywhere, two characters of two bytes in it, three header lines in any order |

Three bridges make a ring, a chain with a middle, and a root with two
neighbours; longer chains repeat these. Two frames are one to teach the tables
and one to use them. Two neighbours with the same network, and three relations,
are all that the conditions of the handlers tell apart.

### Further configurations

These state what a document of the repository says, or a reader may expect of
the code, and TLC finds violated; they are kept beside the project with their properties. Run them with
`tlc -config <name>.cfg <module>`.

| Configuration, module | Property | What it shows |
|---|---|---|
| `tcp_answer_lost`, `TCPTransfer` | `SenderExits` | a packet whose ack was lost is in `window_packets` or equals `highest_acked` and is never acked again; the sender resends for ever |
| `tcp_window_grows`, `TCPTransfer` | `ReceiverWindowBounded` | `_in_ackable_range` is true of all numbers below `highest_acked`, so packets received again stay in `window_packets` |
| `bridge_elect`, `MCSpanningTree` | `EventuallyElected` | with two bridges, one may believe in itself for ever: the first change updates its port only |
| `bridge_stop`, `MCSpanningTree` | `EventuallyConnected` | BPDUs expire when their port reads another one, so a port disabled by a stopped bridge that was alone with it stays disabled |
| `tcp_wide_numbers`, `MCPacket` | `AwaitedNumberFits` | `MAX_UNSIGNED_INT` is `2^33 - 1` and called the maximum unsigned 32-bit integer (`constants.py:47-48`); a number the receiver waits for need not fit the header |
| `frames_circle`, `MCForwarding` | `FramesDieOut` | two parallel bridges, tree finished, tables empty: a source is learnt from frames on a disabled port before they are refused, and a known destination is sent to whatever its port's status; two frames teach the bridges a loop |
| `frames_content`, `MCForwarding` | `ContentUntouched` | a message with the fields of a BPDU comes out of a bridge with other values |
| `frames_move`, `MCForwarding` | `MovedHostIsFound` | a source that is in the table is not learnt again |
| `router_origin`, `MCRouter` | `BestRouteOfAll` | `__gt__` of the origins is not an order; UNK wins over IGP (`request_handler.py:284` says IGP < EGP < UNK) |
| `router_repeat`, `MCRouter` | `NoMisdelivery` | a network announced again with another path has two entries, and its withdrawal removes the first: data still goes to a neighbour that has withdrawn the network |
| `router_unanswered`, `MCRouter` | `UndeliverableAnswered` | data without any route gets no answer, data with a forbidden one does |
| `router_hidden`, `MCRouter` | `ToldIsPassedOn` | a provider has been told of a customer's network, a peer announces it with a higher preference, and the provider's data is refused |
| `router_nested`, `MCRouter` | `DumpIsExact` | a network and its two halves become one of twice the size |
| `crawler_wide`, `Crawler` | `LoginEnds` | `Content-Length` counts bytes, `len` characters; the blank line after the header, counted as content, makes up for two of them, and with a third `recv` waits for ever |
| `crawler_cut`, `Crawler` | `PageIsReadToItsEnd` | only the second `recv` asks for the rest, and it may return less; what is left is read in front of the reply |
| `crawler_cookies`, `Crawler` | `RaisesForCause` | a reply that sets `sessionid` first: the header keeps the last `Set-Cookie` only, and login raises |

## 8. Not modelled

Process start-up, argument parsing and logging; `MESSAGE_DELAY`, bandwidth,
statistics and the checks of the simulators; the JSON of the router's packets,
whose type decides how they are read; the handshake of the router, which only
opens sockets; the entries of a bridge's table for bridges. What a crawl would do
after the login is not in the source.
