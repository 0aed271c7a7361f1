# A TLA+ model of netfind

Netfind finds the devices of a local network. An *agent* (`netfind-agent`, C) captures the frames of a
network interface, collects facts about the devices that sent them, and publishes the facts over a
WebSocket. A *server* (`netfind-server`, Python) is a publish/subscribe broker with a retain cache and a
SQLite store, to which agents publish and clients subscribe. The repository has no tests; both programs
are multi-threaded, and what they promise each other is a matter of order: who is told of what, what
survives a broken connection, and what is remembered.

This directory holds TLA+ modules of the parts that carry that logic, TLC models that check them on small
instances, and proofs that TLAPS checks for every instance. Paths below are relative to `src/`; `server/`
stands for `netfind-server/nfserver/` and `agent/` for `netfind-agent/src/`. `PROJECT.json` has the line
ranges of every definition.

To run one model or check one module of proofs:

    tlc -config MCServer.cfg MCServer.tla
    tlapm BrokerProofs.tla

## 1. The system

| component | code | state | operations | module |
|---|---|---|---|---|
| Broker | `server/broker.py` | connections, subscriptions, wills, retain cache, each under its own lock | `add_connection`, `accept_pub_del`, `accept_get_sub_unsub`, `accept_lwt`, `del_connection` | Broker; PubSub for what it promises; Status for what agents make of it |
| WebSocket handler | `server/blueprints/websocket.py`, `server/proto/connection.py`, `queue.py` | one thread per connection; send queue of the frame it works on | receive, reduce, dispatch, reply, tear down | Broker |
| Message reduction | `server/proto/util.py`, `model.py` | none | `get_group_key`, `reduce_msgs` | Reduce |
| Database | `server/db.py` | table `topic`, SQLite's write lock, one connection per handler | `get`, `store`, `delete_*`, `commit`, `close_db` | Broker, Store, Topics (the query) |
| Timestamps | `broker.py`, `db.py`, `util.py` | `created_at` of messages and rows | publish, load, delete | Store |
| Topic patterns | `server/proto/pattern.py`, `model.py` | none | `is_valid`, `matches` | Topics; constant `Covers` of Broker, `Like` of Store |
| Authentication, application | `server/__init__.py`, `blueprints/auth.py` | configuration | set up, admit a connection | not modelled |
| Agent connection | `agent/conn/*` | queue of messages, curl handle, callbacks | `conn_init`, `conn_free`, `conn_pub`, `conn_lwt`, `conn_sub`, `conn_unsub`, `conn_thread`, `conn_ws_send`, `conn_ws_recv` | AgentConn and Channel; ConnApi for what is allocated |
| Protobuf streams | `agent/conn/conn_pb_*.c` | buffers | encode, decode, `read_callback` | PbStream, Wire |
| Device database | `agent/devdb/*` | list of records, semaphore | `devdb_put`, `devdb_thread` | Devdb |
| Capture | `agent/module/ethcap/ethcap.c`, `ethcap_thread.c` | choices, networks, thread | init, start, loop, stop, free | Ethcap, EthcapLife |
| Network identification | `ethcap_network*.c`, `netfind_types.c` | networks of an adapter | `ethcap_networks_identify`, `..._is_cap_local`, `..._describe`, `nf_mask_cidr`, `nf_ip62str` | Capture, Lookup, NetTypes |
| Protocol handlers | `agent/module/ethcap/layer2` ... `layer5` | none | eth, arp, ipv4, ipv6, igmp, udp, dhcp, mdns | Capture; Dhcp and Mdns for what is in those messages |
| Options and actions | `agent/module/*.c` | options, choices, buffers of texts | make, clone, free, find, set | Options |
| Buffer copying | `agent/utils/dcpy.c` | a cursor | copy, skip, get | Dcpy |

How they interact. The capture thread calls `devdb_put` for every fact in a frame. `devdb_thread` wakes up on
the semaphore that `devdb_put` posts, and calls `conn_pub` for each record that is due. `conn_pub` appends to
the queue of `conn_thread`, which sends it as one WebSocket frame. On the server a handler thread receives the
frame, merges equal messages, stores what is to be kept, and sends the rest to the connections that subscribe.
`conn_thread` calls `conn_online` after each attempt to connect, which publishes `/agent/@/status` = "online"
and sets "offline" as the will, which the server publishes when the connection ends.

What is hard about it, and what makes it correct:

- **Broker.** Handlers interleave between critical sections; a subscription, the load of the cache, the load
  of the rows, a store and a look-up of subscribers are all separate. A send to a subscriber can raise in the
  *publisher's* handler, SQLite gives up on a lock after ten seconds, and the will is published in a `finally`
  clause where all of this can happen again. Correct means: no subscriber misses what is stored; a handler
  leaves nothing behind; a PERSIST replaces; an online status does not outlive its agent.
- **Reduction.** A frame is sorted and merged before it is handled. For many frames this makes a difference; what can be said is for which it makes none.
- **Timestamps.** Ages are read in one transaction or lock and written in another, and replies write to cached messages without
  the lock. Correct means that a row keeps its age, and that a retained topic never looks younger than when it became retained.
- **Agent connection.** Messages that could not be sent go back to a queue that others append to. Correct means:
  none is forgotten, repeated or overtaken, each is sent in the end, and a connection starts with its will.
- **Device database.** Puts, passes and a clock that can be set back interleave without an order. Correct means:
  what counts as sent was sent, new values go out soon, unchanged ones seldom, and facts have one record.
- **Streams and messages.** A frame arrives in pieces, a message has fields that depend on its type, and each side checks
  what the other one sends. Correct means: one list per frame, also after a frame that could not be decoded, and both sides mean the same by a message.
- **Texts and packets.** Topics become regular expressions and LIKE patterns; mDNS names are compressed; DHCP options
  have any order; IPv6 addresses and masks have boundaries at both ends. Correct means: what is read is what was written.
- **Ownership.** Messages, callbacks, texts and networks are freed by several paths. Correct means: each once, and not while in use.
  Two of these the code does not keep, see the findings.
- **Capture.** The filter of local packets knows only what the operating system said of the interface. Correct
  means: neighbours are found, and no host whose packets the gateway passes on to the interface is taken for a neighbour.

## 2. The modules

### Broker
A step is one critical section of `broker.py`, one statement on the database, or one send. `pc[c]` says where
the handler of connection `c` is. `AddConnection`, `Receive`, `ReceiveFails` and `Abort` are the loop of
`root()`; `SaveSend` ... `Commit` are `save_msgs`, message by message; `MatchPub`, `MatchDel`, `Discard`, `Send`,
`SendFails` and `Sent` the rest of `accept_pub_del`; `Get`, `Sub`, `Unsub`, `LoadCache`, `LoadRows`, `Reply` and
`ReplyFails` are `accept_get_sub_unsub` with `load_msgs`; `SetWill` is `accept_lwt`; `DelConn`, `DelSub`, `DelWill`
and `End` are `del_connection` and `close_db`. `final[c]` marks a handler that is publishing its will.
SQLite is `db` (committed rows), `writer` (who has the write lock) and `wdb` (what the writer sees): a transaction
begins with the first write, an exception leaves it open, and only `Commit` or `End` closes it.
`known` and `lost` are history variables for the properties; no guard reads them.
`Broken` are the patterns that are no regular expressions: `[` without its end. A DEL of one raises where it is matched (`SaveDelFails`), and
one that somebody subscribed to raises in every handler that looks for subscribers (`MatchFails`, an error that may come at any publication:
who subscribed is not followed). A client that reconnects is another member of `Conn`, which is what `Connection` objects are. `Frames[c]` is what the client of
connection `c` may send.

`PubSub` is the service without frames, locks and transactions: who asked for what, which rows a client that asks now is told of,
which are being published, on their way or lost. Its operation `Join` is where the promise begins: a subscriber that has read its
last row misses nothing that is visible, and `NothingMissed` is what follows for it. Broker implements it with a refinement mapping
(`PS`): `Joined` leaves out handlers that are still loading for their SUB, `Visible` is the cache with the committed rows, `Unmatched` the
rows of a frame whose subscribers are not looked up yet, and `Queued` the send queue by subscriber. Storing, committing and retaining are
`Change`, each `MatchPub` is a `Notify`, a `Send` a `Deliver`, and every exception a `Fail`; most steps of a handler are stuttering steps.

### Status
Broker with the agents' part: which clients may retain "online" and what their wills are. `OnlineHasWill` and `OneWill` are
what `conn_online` does (`agent/main.c:9-15`): the status and the will go out together, first of all and the same every time,
which AgentConn's `FirstFrameHasWill` is about. `NoOnlineWill` says that nobody's will is to be online. Other clients may send
anything else.

### Topics
`IsValid` (which topics and patterns a message may have), `Regex` and `Matches` (`Pattern`), `Like` and `Found` (the query of
`Database.get` and the second match in `load_msgs`), over sequences of characters. A regular expression is a sequence of
items, each with the characters it accepts and how often; `IsRegex` says that a bracket has its end. `MCTopics` compares them with `Covers`, which reads a pattern by segments.

### Reduce
`reduce_msgs`, the sort by type and topic and the three groups, as operators on sequences of messages, and `Apply`,
what one message does to a broker that is used by nobody else. `MCReduce` compares a frame handled as it was sent
with the same frame reduced: `KeepsPair` says of two messages, in their order, whether reducing them leaves their effect as it is, and the run
that it says so exactly, and that no frame is changed all of whose pairs are kept. What changes a frame are: two values of one topic in
descending order (unless one is a SEND or both are APPENDs), a PERSIST and an APPEND of the same value, DELs with different values (unless the
first has none), a PUB after a DEL that it does not outlast otherwise, a SUB after an UNSUB, and wills that are not in ascending order. What a
GET in the frame is answered, after all of the frame is saved, is not compared.

### Store
`save_msgs` and `load_msgs` again, for the timestamps that Broker leaves out, with frames of any number of PUBs and DELs.
Cached messages live in `objects` because the retain cache, a reply in preparation and `reduce_msgs` share them. What is done under
`msgs_lock` and what is not is kept apart: a RETAIN reads the cached message (`RetainRead`) and replaces it (`Install`) while it holds `lock`;
a reply reads an object's time (`MergeRead`) and writes the merged one (`MergeWrite`) without it. `pc` goes through the
`match` of `save_msgs` message by message (`Branch`, `NextMessage`), and the first statement that writes begins the transaction (`Execute`).
`Like` says which topics SQLite's `LIKE` selects for a topic. `since` is a history variable: when the topic of a cached object became retained.
`updated_at` and mode of what is stored, which decide nothing here, are left out, and so is that `/@` makes two topics of a frame one after
they were told apart.

### AgentConn
`conn_thread` from `curl_easy_init` to the next reconnect, `conn_ws_send` split where its mutex is released
(`Take`, `Send`/`SendFails`/`EncodeFails`, `PutBack`), `conn_msg_add` (`MsgAdd`) for all threads that queue
(`Produce`) and for the online callback (`PublishOnline`, `SetWill`). Messages are numbered when they are
queued. curl and the network are outside: a link can die unnoticed, and what is written to it then is lost. `handed` are the messages that
curl took, `dropped` those of a list for which there was no memory or no encoding, `short` whether that has happened.

`Channel` is what a user of the connection may rely on: messages are accepted, leave oldest first in batches, and are
received once or not at all. AgentConn implements it with `received <- Batches(frames)`; everything else that the thread
does (taking the list, failing, putting back, reconnecting) is a stuttering step.

### ConnApi, PbStream, Wire
ConnApi follows what the connection object owns: the steps of `conn_init`, each of which may fail, the messages and callbacks
that the API calls allocate, and what sending, putting back, `conn_unsub` and `conn_free` give back. A call is two steps, as it
takes two mutexes: callbacks are changed and a message is asked for (`conn_pub`, `conn_sub`, `conn_unsub`), then it is
allocated, or not, and appended (`conn_msg_add`), with any steps of other threads in between.
PbStream is `conn_ws_recv` with nanopb's decoder on top of `read_callback`: octets arrive one by one (`Arrive`), curl
returns what is there of the current frame (`Read`) or nothing (`ReadNothing`), and the decoder asks for a length and then for
a body. Frames may be empty, as the server's answer to a GET that matches nothing is. A decode may fail anywhere (`DecodeFails`), and then
`conn_ws_recv` returns without skipping the rest of the frame (`Fail`). Units know the number of their frame, and `took`, `got` and `bad`
which frames a decode has taken octets of, has made a list of, and has failed in; only the properties look at those.
Wire has the fields of a message on both sides: the calls that make it (`Queued`), `Encode`, `ServerRecv` with the server's checks,
`Dumps`, and `Decode`, where a message that lacks a required field spoils the frame, and its topic is freed by both of
`pb_decode_Message` and `pb_decode_field_messages` (`Frees`); the server sends no such message, which is part of `BothUnderstand`. Its specification queues any messages of
any of those calls (`Enqueue`), and what becomes of the frame is a function of it.

### Devdb
`devdb_put` in three steps (clock, locked part, semaphore), `devdb_thread` in `Drain`, the waits, `Pass` and the `usleep` after it
(`Nap`, until `WakeUp`). Time may pass although the thread could go on, which `late` counts.
`Elapsed` is the unsigned difference. `ThrottleEnds` can happen at once because `set_timespec` does not carry
nanoseconds over, and `sem_timedwait` then fails. `shown` and `since` are history variables.

### Capture, Ethcap
Capture has the pure part: `FillAddrs` (what the operating system's tables add to an address), `Identify` (which networks an adapter has, and whether it becomes a choice), `IsCapLocal`
and one operator per protocol handler with the facts it stores. Ethcap runs it: initialise (`Found`: any query may fail, any table may be incomplete), select, start, the
thread, and a network of hosts on the link and hosts behind gateways, of which the adapter may have several. Any host's frame may be for the
interface or for somebody else, as the interface is opened in promiscuous mode; facts carry where their frame came from and whether it was for the interface.
The facts are what Devdb's `Put` takes.

Ethcap starts one capture and does not stop it; EthcapLife follows any number of them: `Call`, `Cancel`, `Release` and then `Stop`,
`Start` or `Free` for the thread that calls the module, `Assign` and `End` for the capture threads.
`freed` counts how often the networks of an interface were freed.

### Lookup, NetTypes, Mdns, Dhcp, Dcpy, Options
Lookup searches the tables of the operating system (routes, neighbours, adapters) as `ethcap_network_linux.c` and
`ethcap_network_win32.c` do. The tables are its variables, which `AddRoute` and `AddNeighbour` write row by row, so that every table is
reached; `FoundIsOfInterface` says that what is found in them is among what Capture's `FillAddrs` takes for possible.
NetTypes has masks, prefix lengths, subnets, the text of an IPv6 address and the description of an adapter's networks.
Dcpy is the cursor with which Mdns reads a message: queries, records, names with pointers, and the facts of A, AAAA, PTR, SRV and
TXT records. Dhcp reads the options of a message up to its end or a refusal. `MCMdns` and `MCDhcp` build messages step by step beside what they mean.
Options has the constructors, setters, search and destructors of configuration options.

### Proofs and instances
`BrokerProofs`, `StatusProofs`, `StoreProofs`, `AgentConnProofs`, `DevdbProofs`, `EthcapProofs` and `EthcapLifeProofs` hold the
theorems of the modules that they are named after, `AgentConnProofs` also those of Wire and PbStream, `EthcapProofs` that of Lookup, and
`OwnershipProofs` those of ConnApi and Options. Modules that begin with
`MC` hold instances, and properties that only make sense for them. `MCServer`, `MCAgentConn`, `MCModules` and `MCEthcap`
put the instances of several parts of one program beside one another: the variable `part` says which of them a
behaviour is about, the other variables keep their initial values, and the run checks the properties of them all. The parts do not
interact in these modules, so the states of such a run are the sum of those of its parts, not their product.
Operators commented as *mutant of* a definition are plausible mistakes; no specification uses them, and each property was seen to
fail with one of them in place.

## 3. What is checked

Every run ends at a bound on calls, frames or time, so deadlock is not checked: `CHECK_DEADLOCK FALSE` stands in every configuration in which
a behaviour reaches its bounds and stops. That the threads go on is what the liveness properties say.

| run | part | shows | bounds, and why they are enough |
|---|---|---|---|
| `topics` | Broker | `NoMissedUpdate`, `DoneIsClean`, `PersistReplaces`, `ImplementsPubSub`, `TypeOK` | two connections, two topics, a wildcard and a pattern that is no regular expression, three frames of two messages. Two handlers are needed for a race, three frames for a subscription, a publication in one store and one in the other. Theorems lift all five to any number. |
| | Store | `AgesAreKept` | two handlers, two topics of which `LIKE` takes one for the other, two values, two timestamps, four frames out of nine: RETAIN, PERSIST, APPEND and DEL alone, PERSIST and APPEND of one topic in one frame, APPEND then RETAIN, RETAIN then DEL; a table with a row or none. Theorems lift both parts to any number of handlers and any frames. |
| | Reduce | `ReduceKeepsEffect` | all sequences of up to three messages over two topics, two values, all modes and types; brokers with different contents. Pairs decide, so two messages show which pairs are kept, and a third one lies before, between or after. |
| | Topics | `WildcardsAreSegments` | all patterns of up to six characters, all topics of up to five, over two letters and the slash: three segments, of which each may be a wildcard |
| `status` | Status | `OnlineIsGuarded`, `HandlerEnds`, `WillIsPublished` | two connections, three frames with one agent topic; either connection may be the agent and both store rows, so they contend for the database; one deletes, also by a pattern that is no regular expression, the other subscribes and unsubscribes |
| `reconnect` | Status | **finding**, see below | two connections of one agent, one frame each |
| `persist_race` | Store | **finding** | two handlers, one topic, PERSIST only |
| `agent` | AgentConn | `KeptUntilSent`, `NothingOvertakes`, `FirstFrameHasWill`, `ImplementsChannel`, `AllHandedOver`, `TypeOK` | two messages besides those of the callback, two failures of the network, failing allocations and encodings anywhere, under fairness |
| | ConnApi | `NeverGivenBackTwice` | three calls on two topics with two functions, each in two steps with failing allocations. A theorem lifts it to any number. |
| | Wire | `BothUnderstand` | frames of two messages from all calls, with a topic and a pattern, two values and two timestamps. A theorem lifts it to frames of any length and any patterns, values and times. |
| | PbStream | `FramesStayApart`, `OneListPerFrame`, `ThreadGoesOn` | two frames of none, one or two messages of different lengths, which arrive in any pieces, two frames that fail to be decoded, under fairness. A theorem lifts the first to any lists, lengths and numbers of frames. |
| `agent_leak` | ConnApi | **finding**, see below | two calls |
| `modules` | Devdb | `SentIsCurrent`, `OneRecord`, `NewValueSoonSent`, `RateLimited`, `TypeOK` | two callers, a replaced and an appended key; three puts, for a short time in which the clock may be set back and the thread may be late once, or, with one key, for eight units of time against a maximum interval of two, so that a record comes to be due more than once. Theorems lift all five to any number of callers, puts and records and any intervals. |
| | EthcapLife | `OneCapture`, `CaptureKeepsNetworks` | two interfaces, three captures: one that fails, one that is stopped, one that follows. Theorems lift both to any number. |
| | Options | `OptionsAreConsistent` | three options at a time, of every type, three buffers. A theorem lifts it to any number. |
| `devdb_stale` | Devdb | **finding** | one caller, two puts |
| `capture` | Ethcap | `NothingOfFarHosts`, `NeighboursAreLocal`, `TypeOK` | two adapters, one with an IPv4 and an IPv6 network and a second possible gateway, and all that Linux or Windows may find of them; five hosts, frames of all kinds between them, one at a time, as the handlers keep no state from one frame to the next |
| | Lookup | `FoundIsOfInterface` | two interfaces whose gateways have the same address, a second router, all tables of up to three routes and three neighbours. A theorem lifts it to any number of interfaces and rows. |
| | NetTypes | `SubnetIsPrefix`, `TextIsCanonical`, `DescriptionFits` | addresses of three octet values with each of the 33 masks; all IPv6 addresses of a zero word and two others; up to five networks with texts of the shortest, an average and the greatest length |
| | Mdns | `DecodesWhatWasSent`, `CutSaysNoMore` | a query and two records of six types, names of up to six labels, plain or shortened, buffers of 12 and 16 octets so that long names exceed them; prefixes that lack up to 40 octets |
| | Dhcp | `DecodesOptions` | clients and servers, a request, an acknowledgement and a refusal, up to three options of every kind and the message type in every order, padding |
| `stream_content` | PbStream | **finding** | two frames without empty ones and without failing decodes |
| `stream_empty` | PbStream | **finding** | two frames, one failing decode, under fairness |
| `life_freed` | EthcapLife | **finding** | as in `modules` |

In words: `NoMissedUpdate` says that each stored or retained row that matches a subscription was sent to the subscriber,
is in some handler's send queue or yet to be dispatched, or was given up by an exception in the publisher.
`DoneIsClean`: a handler that has ended is in no table and holds no lock. `PersistReplaces`: the commit of a
PERSIST leaves one value. `OnlineIsGuarded`: while "online" is retained, some handler will turn it into
"offline", except for frames that were aborted before their will was set. `AgesAreKept`, which is
`RetainedNoYounger` and `RowCreatedStable` of Store: a row keeps its age until a PERSIST of another value replaces it, and a retained topic is
never younger than when it became retained. It is no more than that: what a reply has merged into a cached message can be lost again to a
RETAIN that read the message before (`broker.py:156-160`, `util.py:28`), so its `created_at` may move forward as far as that bound.
`KeptUntilSent`: each message is queued, in hand, given to curl, or was dropped because its list could not be encoded; and those two are
counted apart. `AllHandedOver`: without memory or encoder failing, each is given to curl in the end.
`ImplementsPubSub`: every step of the broker is one of the service, or none. `NothingOvertakes` holds
although unsent messages are put *behind* newer ones, because a frame always takes the whole queue.
`SentIsCurrent`: a record with `sent_at` set was last published with its present value.
`ImplementsChannel`: every step of the connection is one of the channel, or none. `NeverGivenBackTwice`: no message is in two lists
or used after it was freed, and SUBs and UNSUBs are asked for in step with the callbacks. `FramesStayApart`: no list has octets of two frames, and the
thread leaves a frame in the middle only where its decoding failed. `BothUnderstand`: what one side queues passes
the checks of the other and means the same there. `WildcardsAreSegments`: an accepted pattern matches by segments, and the query
of the database leaves out no match. `DecodesWhatWasSent` and `CutSaysNoMore`: an mDNS message is read as what it says, and of a
part of it nothing else is read. `CaptureKeepsNetworks`: no networks are freed while a capture runs that was not told to end.
`NothingOfFarHosts` is about packets that an identified gateway sends to the interface itself. The comment before each property says the rest.

### Findings

- **`reconnect`** (`OpenAgentIsOnline`). The will of a connection is published when its handler ends. If the agent
  has come back on a new connection before that, "offline" replaces the "online" it has just published, and stays.
- **`persist_race`** (`PersistKeepsOldest`). `save_msgs` reads the earlier rows of a topic before it has the write
  lock. A row that another handler commits in between is deleted by the PERSIST, with its older `created_at`.
- **`devdb_stale`** (`SkippedIsPublished`). `devdb_put` reads the clock before it takes the mutex. After a pass in
  between, the record looks older than what was sent and its update is skipped as "not updated since last sent".
- **`stream_content`** (`ReceivedAsSent`). `read_callback` gives `curl_ws_recv` the start of the same buffer again when it
  returned fewer octets than were asked for. The second piece overwrites the first, and the end of the buffer stays as it was:
  a message that arrives in two pieces is not the one that was sent.
- **`stream_empty`** (`ThreadComesBack`). `read_callback` sees the end of a frame only in a `curl_ws_recv` of its own. That of an empty
  frame, which the server sends when nothing matches a GET, was taken by the call before it (`conn_ws.c:80`): the callback repeats without a pause until
  another frame arrives, and the thread sends nothing meanwhile. `ThreadGoesOn` is what is left: it returns once anything arrives.
- **`agent_leak`** (`SentIsFreed`). Of the messages of a sent list only the first is freed: the comment says "free all messages", the call is
  `conn_msg_free` and not `conn_msgs_free` (`conn_ws.c:70-71`). The same call frees a list that could not be encoded.
- **`life_freed`** (`FreedOnce`). `ethcap_stop` frees the networks of the capture, to which the data of the choice still points
  (`ethcap.c:181-185`). `ethcap_free`, which begins with `ethcap_stop`, frees those of every choice, and so them a second time; and another
  `ethcap_start` of that interface captures with them.

### Observed while modelling
No run states these; each follows from a few lines of code, or nothing in the code says what is intended.

- `Pattern.matches` is False for a pattern, so subscribers are never told of a DEL (`pattern.py:19`; `MatchDel`).
- `get_subs` does not look at the connected set, so it can return connections that are being torn down.
- DELs of one topic with different values are merged and only the first is carried out (`util.py:14`).
- `LIKE` takes `_` and `%` in topics for wildcards (`db.py:58`); a PERSIST may take over another topic's age.
- After an APPEND, a PERSIST of the younger value keeps the younger row and loses the older age (`db.py:78`).
- `reduce_msgs` changes objects that the retain cache still holds: a cached message can take the mode of a stored one.
- An aborted frame leaves its transaction open, and the commit of the will then commits half a frame.
- A GET can miss a topic on its way from the cache to the database.
- `conn_online` runs after failed connects as well, so the queue grows while the server is away.
- `conn_unsub` sends UNSUB although another callback of the topic may remain (`conn_msg.c:96`); SUB is sent by `conn_sub` only, so
  a new connection has no subscriptions (`conn_msg.c:77`). Nothing in the agent subscribes yet.
- A topic that is used as a pattern is not escaped (`pattern.py:13`): `[` opens a character class. The agent publishes mDNS topics
  with a service name in brackets (`mdns.c:197`); a SUB or GET of exactly such a topic does not match it. `WildcardsAreSegments` is about patterns without brackets.
- A `[` without its end passes `is_valid` and raises `re.error` (`pattern.py:22`). A DEL of such a pattern costs its sender the connection. If it is subscribed
  to, the pattern is a key of `broker.sub` before it is matched for the first time, and stays one after its handler has ended: from then on every
  publication raises in its publisher, after it was stored (`broker.py:72-73`; `MatchFails` of Broker).
- An UNSUB and a SUB of one topic in one frame are sorted, so that the UNSUB comes last (`util.py:19`).
- Nothing selects an interface, so `ethcap_start` returns an error and the agent ends; `Select` models the option
  as it is meant to be set.
- `ethcap_stop` does not wait for the thread that it cancels, which may still be handling a packet with the networks that are freed next
  (`ethcap.c:176-185`). `CaptureKeepsNetworks` is about captures that were not cancelled.
- `ethcap_stop` looks at `errno` for the result of `pthread_cancel` (`ethcap.c:176`), which returns it instead. If the thread has
  ended by itself the result may be an error, and the capture can be neither stopped nor started again.
- The description of an adapter's networks has room for five IPv6 networks (`DescriptionFits`); with a sixth, the length that
  `snprintf` would have written exceeds what is left and `len` wraps around (`ethcap_network.c:153`). No property covers the sixth.
- In the loop over DHCP options a padding octet between options is read as an option with a length, and the next option is skipped or
  cut short (`dhcp.c:114`); in the model padding stands before the end. The three octets of flags of an FQDN option are taken off its
  length only (`dhcp.c:176`), so the loop counts three more octets than are left; the end option stops it first. A text of 255
  octets is terminated behind its buffer (`dhcp.c:71`). Where the message type says that the server refuses, the options before it
  have been stored already and those after it are not (`dhcp.c:160`); `DecodesOptions` says just that.
- Lengths are unsigned, and a few of them can wrap around when a message is shorter than it says: of a DHCP option whose code is the last octet
  (`dhcp.c:115`), of an mDNS pointer beyond the packet (`mdns.c:157`), of frames shorter than the headers of Ethernet and IPv4
  say (`eth.c:43`, `ipv4.c:33`). The models stop at the end of the message there, and no property is about such messages.
- mDNS: an instance name with a dot, or a service of more than five parts, is taken for another kind of name; a key of a TXT
  record is cut at the size of its buffer. Pointers are taken to point backwards, as messages of responders have them.
- On Linux only the first default route of an interface is looked at (`ethcap_network_linux.c:67`), so a second gateway goes
  unnoticed, where several would make the adapter be ignored. What it passes on is stored as facts about itself.
- The interface is opened in promiscuous mode (`ethcap_thread.c:25`), and the filter tells the gateway's packets apart only if they are for the
  interface (`ethcap_network.c:181`): of a frame from the gateway to a *neighbour* that the interface is given, the far host's addresses are
  stored as a neighbour's. `NothingOfFarHosts` excludes both of these; they are in the model, and without its conditions TLC finds them.
- A message that lacks a required field is freed by `pb_decode_Message`, which has set `msg->topic` by then, and again by its caller
  (`conn_pb_msg.c:65-84`, `112`). The server sends none (`BothUnderstand`).

## 4. Fairness

- Broker: weak fairness of each handler thread, as the operating system schedules threads, and of the exception that
  `receive()` raises for a closed socket, since `simple_websocket` wakes its receiver. Peers that leave, stores that
  raise and frames that cannot be decoded are not fair. `HandlerEnds` is about sockets that *are* closed. Fairness of a handler includes its sends: a send to a
  peer that is open but reads nothing is taken to return, as `sock.send` does while there is room in the socket's buffer; it has no timeout, so a
  peer that stalls for good would hold up the handlers that send to it.
- AgentConn: weak fairness of `conn_thread`. The loop polls (it sleeps 10 ms when there is nothing to receive), so it does not depend on
  anyone. The network's failures are bounded by `MaxFails`: no queue is emptied over a network that never works.
- PbStream: weak fairness of the thread and of the network, which delivers what was sent. Breaking connections are AgentConn's.
- Devdb has no fairness. `late` counts the units of time that pass although `devdb_thread` could go on, and `NewValueSoonSent` speaks of
  behaviours up to the first of them, which makes it an invariant about the code's own delays.

## 5. What is proved

Each theorem holds for all values of the constants that satisfy the named ASSUMEs of the module.

- **Broker.** `TypeCorrect` and `EndedHandlerIsClean` use the invariants `TypeInv` (types, and that an index
  is on a message of the right kind) and `CleanInv` (which teardown step has removed the handler from which
  table). `NoUpdateIsMissed` is the main result. `NoMissedUpdate` is not inductive: it has to be strengthened
  by what the writer's uncommitted rows and a handler's own publications owe to subscribers. The argument
  is by two orders in the code: a handler subscribes before it loads, and stores before it looks for subscribers.
  `LoadingStep`, `CacheStep` and `CommittedStep` are the cases in which one of them matters. Assumed: a topic is
  a pattern, and frames are well-typed.
  `PersistReplacesTheTopic` says what a commit leaves. Its invariant `SavedAlone` follows one frame: once its last message on a topic, a
  PERSIST, is stored, the writer sees that value alone in the topic until the commit. It holds because the frame's handler has
  the write lock (`HeldStep`), so that nobody else's statement reaches `wdb`, and messages after the last one are about other topics.
- **The service.** `BrokerIsPubSub` says that `Spec` of Broker implies that of PubSub, step by step: `StepIsPubSub` puts together one lemma
  for each kind of step (`PublishStep`, `ChangeStep`, `MatchStep`, `DeliverStep`, `FailStep`, `AskStep`, `LoadStep`, `JoinStep`, `LeaveStep`, `NoWillStep`
  and `QuietStep`). Three invariants carry it. The strengthening of `NoMissedUpdate` (`DeliveryInvariant`) gives the last conjunct of `Join`, and
  with it that only rows which are being published, or were lost to everybody, appear (`Appears`).
  `OwnQueue` says that a handler which looks up subscribers has nothing queued for itself, and `Subscribed` that one which waits to load for a SUB
  is subscribed. `PubSubMissesNothing` proves `NothingMissed` for every behaviour of PubSub, from its actions alone: a row that a client has is kept,
  on its way or lost until it is published again (`HasKept`), and a visible row that is new was being published.
- **Status.** `OnlineKeepsItsGuard` lifts `OnlineIsGuarded` to any number of agents and other clients. By itself it is not inductive: a handler
  that has the will of *some* client could be given another one. `FromClient` says where frames and wills come from: a
  frame is one of the connection's own or a will, and the will that is set is the last of a frame of its client. With `OneWill`, setting
  the will again changes nothing, and with `OnlineHasWill` the handler that retains "online" is the one that is about to set the
  will. What is left is that a handler hands the duty on from the publication to the will and from the will to its publication, which
  `CleanInv` orders. The assumptions are about agents only and are `conn_online`'s (section 2, Status).
- **Store.** `RowsKeepCreated` and `RetainedKeepsSince` prove the two parts of `AgesAreKept`, `RowCreatedStable` and `RetainedNoYounger`, for any handlers, topics, values, frames and tables.
  Hypothesis `Constants`: timestamps are numbers, no thread is Python's `None`, a frame has its PUBs before its DELs and one PUB of a topic and value,
  which `reduce_msgs` sees to, and the table has one row of a key. Both rest on `TypeInv`, which says of every reference to a
  message object that the object exists, of what a handler has in hand what it is, and that it holds the lock from `RetainRead` to `Install`; the oldest of what was
  found is then a time that some message had (`MinType`). For retained topics the invariant (`AgesNext`) says of every object, and of every time that
  a reply is about to write, that it is not later than `since` of the object: merging takes a minimum (`MergedType`), so a write that comes late is no
  worse than a lost one. For rows (`KeysNext`) the uncommitted rows follow the committed ones key by key except where the frame has a PERSIST of another value or a DEL
  has just run (`ViewFollows`, `WriteKeys`, `DeleteKeys`); as PUBs come first (`PubsComeFirst`), no row is deleted and made anew by one frame otherwise.
- **AgentConn.** `MessagesKeepTheirOrder`, `MessagesAreKept` and `AgentIsAnnounced`. Numbers grow from the received
  frames over `hand` to the queue: that invariant (`Ordered`) explains why putting messages back at
  the wrong end is harmless. `FirstFrameHasWill` holds up to the first allocation or encoding that fails (`short`): without
  memory for the will, a connection starts without it.
- **Devdb.** `SentRecordIsCurrent` is inductive together with the types; the step to look at is `Update`, which
  resets `sent_at` whenever it changes the value. `RecordsAreUnique` rests on the search and the append being
  under one mutex, `Update`'s choice of the first match included.
  `RateLimited` holds up to the first time that the clock is set back (`adjusts = 0`; `time()` may be, and then it does not hold). `ClockInv`
  relates the three times of a record: while nothing new waits, `sent_at` is the time of the last publication, and no
  time lies ahead of the clock. `NewValueSoonSent` holds as long as `devdb_thread` has not been late either. `Waits` bounds how long a
  value can have waited by where the thread is: the nap while it sleeps or the semaphore is drained, one check interval while it waits, three throttling
  intervals more while it throttles, and a pass leaves nothing that waits (`PassWaits`).
- **The channel.** `ConnectionIsChannel` says that `Spec` of AgentConn implies that of Channel. `received` is the sequence of the frames'
  numbers; a step of AgentConn appends to the queue (`Accept`), hands a frame to a living link (`Leave`), loses one, or changes nothing that Channel
  shows. It rests on `Ordered` and the type invariant.
- **EthcapLife.** `OneCaptureRuns` and `RunningCaptureKeepsNetworks`, for any number of interfaces and captures. The invariant relates `at`, where the
  calling thread is, with `mod.thread`: between the end of `ethcap_stop` and `pthread_create` every capture has ended or was cancelled.
  `RunningCaptureKeepsNetworks` adds that this is so when `ethcap_free` gets to the networks (`FreeIsAlone`), and that `ethcap_stop` frees those
  of a capture that it has cancelled (`FreedStep`).
- **Ethcap.** All three properties of its part of the run. Both safety results rest on `Fitting`: the networks that the filter
  sees have the interface and the gateway address of the adapter on which the thread captures. `IdentifiedFits` derives it from
  what `ethcap_networks_copy_mac` rejects. `FarHostsAreNotStored` makes no assumption about the network; its conditions are those of the
  property, that a far host's packet comes to the interface itself and from a gateway that was identified.
- **ConnApi.** `ListedMessagesAreAllocated`: numbers of messages are fresh, each list has a message once, and the queue and what is in the thread's
  hand are disjoint (`ListsInv`). That is what the count in `ListedIsAllocated` comes down to: `ListsCount` gives a bijection from the places to
  the messages. `UnsubsMatchCallbacks` counts messages and callbacks by topic, where messages are those made, asked for or given up, so that the two mutexes of a call need
  no order among threads; `NothingIsGivenBackTwice` is the two together, the property of the run; `AppendCount` and `RemoveCount` say what appending to a
  sequence and taking one element out of it do to such a count.
- **Options.** `OptionsStayConsistent`, for any options and buffers. `BuffersInv` adds that only texts have buffers: `SetNumber` writes over the
  value and frees nothing, so without it a buffer could be lost. Assumption `KindsAreOptions`: the options are well-typed, and the
  choices of one have different keys. Nothing in `nf_cfg_choice_make` sees to that, but the keys are names of capture interfaces (`ethcap.c:44`); with two equal
  keys one call selects both.
- **Lookup.** `FoundIsTrue`, for any interfaces and tables with any number of rows in any order. `TablesInv` says that the rows are what the
  operating system may have written: a route is of an interface, a neighbour is linked to it. From that `GatewayIsOfRoute` and `MacIsOfNeighbour`
  follow for Linux, where a search takes the first row that fits, and `AdapterHasAddress` for Windows. That the gateway is found
  if it is alone and known, and not merely that nothing wrong is found, is in the property too. Assumed (`TablesType`): an address
  belongs to one interface. The same address may be on the links of several, as two routers may have it: that is the case that the property is for.
- **Wire.** `EverythingIsUnderstood`, for frames of any length. What the server takes and what it passes on are list comprehensions over the frame;
  `At`, a recursive function, is proved about by the smallest place at which a claim fails (`LeastOf`, `BuiltUp`), because an induction
  theorem cannot be used. `AtKeeps` then says that `At` takes all if all places are asked for and else a sequence of the elements
  there, `LoadedIs` what the server makes of a message, `PassedIsDecoded` what the other agent makes of that. Assumed
  (`NoneIsNothing`): what is sent is not NULL. `conn_pub` does not look at its value; its callers pass texts.
- **PbStream.** `FramesAreKeptApart` is `FramesStayApart` for any lists, empty ones too, and any number of frames, however their octets arrive and wherever a decode
  fails. `StreamInv` is about what has been sent and not been read, `Rest`: it is a `Flow`, in which every octet is followed by another of its frame exactly if octets of
  the frame are left. So a piece that curl returns is of one frame (`TakenIs`), and what comes after a read that found `bytesleft` zero is a
  header (`ReadFromFront`). While nanopb decodes, the octets that it has taken are of the frame that `Rest` begins with, if that begins in the middle of one; a decode
  that ends well has come to the end of its frame, and one that fails puts the frame into `bad` (`FailingKeepsApart`). That each list also has as many messages
  as were sent, `OneListPerFrame`, is model-checked. The content of a message is in neither: `stream_content` shows that it is lost.
  A length is a read of one octet here and cannot arrive in two pieces; in the code one of more than 127 octets takes two reads of one octet each.

Before they were proved, TLC checked `FromClient` on the instance of `status` and `SavedAlone` and `ImplementsPubSub`
on that of `topics`.
The theorems about Store state the two conjuncts of `AgesAreKept`, which the run checks through `MCServer`, where Store is instantiated with the values of the run.

Only model-checked:

- Liveness: `HandlerEnds`, `WillIsPublished`, `AllHandedOver`, `ThreadGoesOn`. The prover has no fairness.
- `OneListPerFrame`.
- What `RECURSIVE` definitions, bitwise operators and folds with an operator as their parameter compute from data: `ReduceKeepsEffect`,
  `WildcardsAreSegments`, `TextIsCanonical`, `SubnetIsPrefix`, `DescriptionFits`, `DecodesWhatWasSent`, `CutSaysNoMore` and `DecodesOptions`. Of a
  recursive *function* something can be proved by its smallest counterexample, as for Wire and PbStream; the prover cannot read
  a module that has such operators.

## 6. What is left out

- The octets of Protobuf integers and strings (nanopb's and Python's), and header lengths of layers 2 to 4, which are one flag of a frame.
- Repeated or alternative wildcards inside one segment of a pattern (`/a+`), which `is_valid` does not reject either.
- The tables of the operating system (`/proc/net/route`, `/proc/net/arp`, and those of Windows) are inputs of Lookup; Ethcap's `Found`
  has what a look-up may find: for each address any gateway of the link, or none.
- `wal_checkpoint`, the schema, authentication and logging keep no state that others depend on; `conn_msgs_dispatch` only logs.
- `devdb_put`'s `created_at` and a failing allocation of a record.
- A SUB or GET of a pattern that is no regular expression, which raises in `load_msgs`; that later publications raise is in Broker, at any of them.
- Patterns with brackets and dots in `WildcardsAreSegments`; `Regex` and `Matches` have them.
- `conn_sub`, `conn_unsub`, `module_stop`, `module_free`, `ethcap_stop` and `ethcap_free` have no caller in the agent: ConnApi and EthcapLife
  call them in every order that their declarations allow, one at a time. What follows a use of freed memory is not followed.
- Crashes of the server process: the cache is in memory by design; SQLite's own recovery is trusted.

## 7. Plan

Done, in this order: Broker with its proofs, Reduce, Store, AgentConn and Devdb with theirs, Capture and Ethcap with theirs; then
Channel with the proof that AgentConn implements it, PubSub with the proof that Broker does, ConnApi, PbStream, Wire, Topics, NetTypes, Lookup, Mdns, Dhcp, Options, and
EthcapLife with its proofs.

Next, most important first:

1. *AgentServer*, a composition of AgentConn and Broker for one agent that reconnects: status and will from end
   to end. It takes the place of `reconnect`.
2. Reduction with recursive functions in place of folds, as `At` in Wire has it, so that `ReduceKeepsEffect` can be proved for frames of any length:
   that two messages which `KeepsPair` allows may change places or be merged is a lemma about `Apply` for one pair.
3. The same for the cursor of Dcpy and `Mdns`, where the claim is that a reader never leaves its buffer.
4. `OneListPerFrame` for any lists and pieces, from `StreamInv` and where in a frame the decoder is.
