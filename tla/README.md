# Verification of the Kademlia package registry

This project models the Go program beside it (a Kademlia DHT with a signed
package registry on top) in TLA+, checks the models with TLC on small
instances, and proves the most important invariants with TLAPS for every value
of the constants. Paths such as `kademlia/routingtable.go` are relative to the
repository. `PROJECT.json` lists the runs, the source lines of every
definition, the hazards, the findings and the theorems.

## The system

| Component | State | Operations | Interacts with |
|---|---|---|---|
| Identifiers (`kademliaid.go`, `contact.go`) | none | XOR distance, order, bucket index, random identifier of a bucket | everything |
| Routing table (`routingtable.go`, `bucket.go`) | one list per bucket, replacement caches, in-flight flags, a WaitGroup; two mutexes | `AddContact`, `RemoveContact`, `UpdateWithPing`, `FindClosestContacts` | called by every packet handler and by lookups; starts a goroutine that pings through the RPC layer |
| Lookup (`kademlia.go`, `shortlist.go`) | the shortlist of a call | `LookupContactByID`, `LookupDataByID`, `Join` | probes through the RPC layer, one goroutine each; adds contacts; caches values |
| RPC layer (`network.go`) | pending transactions, their channels | `sendRPC`, `listenLoop`, `handleMessage` | one goroutine per packet; serves from the table and the store |
| Data store (`datastore.go`) with the validator (`registry/validator.go`) | key-value map under one mutex | `Store`, `StoreUnchecked`, `Validate`, `Delete` | fetches missing records by lookups while it validates |
| Publishing (`cmd/node/cli.go`, `kademlia.go`) | locals of the command | `publish`, `StoreWithKey`, `StoreLatestPointer`, `StoreLatestPointerForce` | the stores of all nodes, by STORE messages |
| Replication (`kademlia.go`) | worker goroutine, stop channel, WaitGroup, mutex | `Replicate`, `StartReplicationWorker`, `StopReplicationWorker` | the stores of all nodes |
| Installing, other commands (`cmd/node`) | none | `install`, `show`, `get`, `put`, `forget`, ... | lookups and the store |
| Versions, records (`registry/version.go`, `record.go`) | none | parsing, comparing, signing, verifying | the validator, publishing, installing |
| Keys and DNS (`registry/keymanager.go`, `registry/dns.go`, `cmd/node/dns.go`) | a directory of key files shared by all nodes; a cache of keys and a table of local DNS records in each | `keygen`, `set dns`, `Save`, `Load`, `LookupOwnerKey` | publishing and the validator ask for the owner's key |
| Simulated network (`simulated_network.go`), experiments (`cmd/experiment`) | nodes of the hub, loss rate, latency, counters | the RPCs without a network | tests and experiments |

What is hard in it:

* **concurrency**: every packet has its handler goroutine; eviction probes run
  beside them with the locks released between their steps; `Store` validates
  with no lock held and compares before it writes; a lookup takes results in
  any order;
* **an unreliable network**: packets are lost, late, reordered, duplicated; a
  timeout may race the reply; errors of STORE messages are ignored;
* **mutable data without consensus**: the latest pointer of a package has
  replicas on many nodes; each of them alone has to refuse rollbacks and forks
  and to catch up;
* **restarts**: the store is in memory only; a key file is truncated before it
  is written, with no lock between the nodes that share it;
* **tables that differ**: every node has its own view of who is in the network,
  full buckets turn contacts away, and nodes join at the same time and leave.

## Modules

Constants of the code keep their names (`bucketSize`, `alpha`, `maxDepth`,
`replacementCacheSize`), and so do functions where an action or an operator
stands for one.

* **`KademliaID`**: identifiers as functions from bit positions to 0 and 1, of
  any length `Bits`; distance, order, bucket index, random identifiers.
* **`Buckets`**: the contents of a table as values, with no state of its own: a
  bucket is a list, a table a function from indices to buckets; adding and
  removing a contact, `FindClosestContacts` and its outward scan,
  `BucketsToRefresh`. `RoutingTable`, `Lookup` and `Overlay` extend it.
* **`RoutingTable`**: one node's table. `Handlers` are goroutines in
  `UpdateWithPing`; the steps `UpdateTaken`/`UpdateFull` (under `mu`) and
  `UpdateQueued`/`UpdateProbes` (under `evictMu`) are its critical sections.
  `Probes` are eviction goroutines, with a step for each of `RemoveContact`,
  the pop of a replacement, `AddContact`, the cleared flag and `Done`. A ping
  may succeed or fail at any time. The queries are the operators of `Buckets`
  on its state.
* **`DataStore`**: one node's store and the walk over a package's history, for
  any graph of records given as constants (`Prev`, `Version`, `Authentic`). A
  call of `Store` is a goroutine: read the pointer, visit one record after the
  other (from the store or by the fetcher, which caches it), save the records,
  compare and write or start again. `forgotten` and `forced` are history
  variables.
* **`Lookup`**: one iterative lookup, of contacts, of a blob or of a pointer,
  with the shortlist as a function from candidates to their status. A peer may
  answer with any set of contacts, with a valid or a corrupt value, or never. A
  node lookup that finds its table empty reads it again (`ReadAgain`), and may
  return contacts that were added in between. The local store may hold an
  unchecked pointer, which a local hit returns.
* **`RPC`**: calls between nodes over a set of packets that are delivered in
  any order, more than once or never. A handler that finds its transaction
  pending sends to the call's channel in a second step, because the channel has
  room for one message and the call may have ended in between. A socket may be
  closed: the calls that wait run into their timeouts, new ones fail, and a
  write that fails (of a value too large for a packet, too) is an error for the
  caller and nothing at all for a server.
* **`Registry`**: several nodes and one package. A record is the sequence of
  releases up to it, which is what content addressing makes of it; so a latest
  pointer is a sequence, a predecessor is a prefix, and a fork is a pair of
  sequences neither of which is a prefix of the other. `publish` is three steps
  (lookup and checks, record, pointer); STORE messages of pointers may be lost
  or come again; replication, fetches, restarts and `forget` are actions.
  `Extends` and `Accepts` are what the walk of `DataStore` comes to when it
  runs undisturbed. `Installs` is what `install` may take on a node at a
  moment; it changes nothing, so it is an operator.
* **`PackageHistory`**: the abstract specification of the registry for a
  package with one publisher: one history, and a view of it on every node that
  may lag, catch up and be lost. `Registry` maps its state to it (`Abstract`):
  the history is the publisher's pointer, and the view of a node is its own
  pointer, or nothing if the node forced one. With two publishers, who may
  fork, nothing is claimed but that accepted histories are complete.
* **`SemanticVersion`**: versions, how they are parsed and compared. `Registry`
  and `PackageHistory` compare releases with it.
* **`Overlay`**: a whole network of nodes, each with a table of `Buckets`, on
  the simulated network (which calls `AddContact` only, no eviction probes).
  `Join` with its refreshes, `Store`, `Replicate` and `LookupData` are
  operations with the lookup of `Lookup` inside, except that peers answer from
  their tables and learn of the sender. A message has two steps, the
  registration in the hub read first and the delivery later. `Close` removes a
  node from the hub. A get that has returned leaves its other probes under way
  (`strays`).
* **`KeyManager`**: the key of one domain on nodes that share a directory. A
  file is truncated and written in two steps, and two writers may garble it.
  `keygen`, `set dns`, `publish` (which asks for the key three times) and the
  validation of incoming pointers run side by side, with the mutex of the key
  manager between the threads of a node and none between nodes. A process may
  end at any step.
* **`ReplicationWorker`**: callers of Start and Stop, the mutex they hold while
  they wait, and the worker goroutines, each with its stop channel. Its `Init`,
  `Next` and the like are `WorkerInit`, `WorkerNext`, ..., as `DataStoreProofs`
  extends it beside `DataStore`.

`MCRoutingTable`, `MCDataStore`, `MCLookup`, `MCOverlay`, `MCRPC`,
`MCRegistry`, `MCKeyManager` and `MCReplicationWorker` give the constants their
values. The definitions marked "Mutant" are deliberately wrong variants of the
definition after them; each property is known to fail when one of them takes
its place.

## Runs

| Run | Instance | Shows |
|---|---|---|
| `table_eviction` | 3-bit identifiers, a bucket of two places for three contacts, two handlers, two probes, a replacement cache of one | bucket, cache, flag and WaitGroup stay consistent; contacts leave only when dead; every eviction ends and frees its bucket |
| `table_queries` | all tables over 3-bit identifiers, buckets of three places | a result is short only if it is the whole table; what the scan does guarantee; refreshes lead to their buckets; buckets stay in the order of last contact |
| `table_closest` (violation) | the same | the result need not be the closest contacts |
| `store` | two calls; a history of three records, one more than the depth limit, and a forgery; forget and forced publications, after which the history is a fork | no rollback, no fork, only whole valid histories; `Store` returns unless the pointer changes for ever |
| `lookup` | five peers, k = 3, alpha = 2 | each peer asked once, the closest responders found, nothing taken from a peer that fails its check, the lookup ends |
| `overlay` | three-bit identifiers, k = 2; four nodes with alpha = 2 and two joins at once, or one node that leaves, or one lost message; five nodes with alpha = 1, one of which leaves | tables stay sound, joining leaves no island, a stored value is found from every node |
| `rpc` | two nodes, two calls, every packet possibly duplicated, one socket closed | a call's reply is the reply to its request; calls return; late replies are dropped (but see below) |
| `rpc_late_reply` (violation) | one node calls another | a late FIND_CONTACT reply ends the process |
| `registry` | three nodes: a publisher, one that forces forged versions, one that restarts; or a publisher and one that forgets pointers and records; or two publishers; two versions, one of them written in two ways | the registry implements `PackageHistory`; installs agree; accepted histories are complete; replication brings the replicas to the publisher's pointer |
| `registry_upload` (violation) | two nodes with the owner's key, three versions | publish checks against a stale pointer or none |
| `keys` | two nodes, three keys, one DNS answer by hand | a running node keeps its key and never goes back to a replaced one; publish is refused only for a real change of keys or a record set by hand |
| `worker` | three callers, three workers | one worker at most, none left behind, no double close, calls return |

**Bounds.** Three bits give buckets of one, two and four identifiers, so that
the scan has both ends and a bucket can overflow; an order is only told from
its reverse with three contacts in a bucket. Two
handlers and two probes are enough for every pair of critical sections to
interleave; the theorems cover any number. A replacement cache of one is at
its limit at once. In `store` a walk ends at the stored head, at the beginning
of the history, at a record that is missing or foreign, and at `maxDepth`,
which the pointer to the third record exceeds unless the store has caught up
with the ones before. Three nodes give a publisher, a forger and a bystander; a
node without a pointer has two versions to catch up on. Buckets of two
places for four nodes give `overlay` a bucket that turns a contact away and a
lookup that needs a second round, and with five nodes two of them do not have
the value; its `Settings` are alternatives, so that joins at once, a node
that leaves and a lost message each happen, but not all in one behaviour.
Three keys let a node hold one, miss a second and meet a third. `MaxHistory`,
`MaxForced`, `MaxKeys` and `MaxWorkers` bound what would be unbounded.

**Deadlock** checking is off where the operations of an instance come to an end
(see the configurations).

**Fairness.** A goroutine that can run runs (weak fairness of the steps of
probes, calls, lookups): Go's scheduler is preemptive. A ping, a fetch and an
RPC end, if only by their timeout. `Registry` assumes in addition that a STORE
or a lookup that is repeated for ever succeeds at last, and that the
replication worker comes round for ever (a ticker). `ReplicationWorker`
assumes strong fairness of the mutex (Go's mutexes hand over to a waiter that
has starved for a millisecond) and of the stop case of the worker's `select`
(which chooses at random between ready cases). Nothing is assumed of
publications, restarts, losses, ticks or user commands.

## What the violations show

* `FindClosestContacts` is documented to find the closest contacts; it stops
  scanning when it has enough, and a bucket not yet scanned may hold closer
  ones. `FindClosestNearTarget` states what does hold.
* A FIND_CONTACT reply has the type of its request and no target. After a
  timeout it is served as a request and dereferences the nil target.
* `publish` ignores the error of `LookupLatestPointer` (a lookup that finds
  nothing makes the version a first release), and looks in its own store
  first: its checks before the upload may be against no pointer, or against a
  replica that is stale.

Smaller things met while modelling, not checked by a run: the comment of
`UpdateWithPing` says that the candidate is discarded when the oldest contact
answers (it stays in the replacement cache, as a comment further down and the
model say); and a node that calls its own address would take its own request
for the reply, since the transaction is pending when the request arrives
(`Links` has no such pair). Two disagree with a comment or a test:

* `LookupDataByID` is said to return a value "if found and verified"
  (`kademlia.go:396`); a local hit (`kademlia.go:404`) is not verified, and
  after `publish --force` it may be a pointer that no other node accepts.
  `OnlyValidData` says what remains: nothing corrupt comes from another node.
* The comment of `NodeDNSResolver` says that it checks "local/mock records
  first" (`cmd/node/dns.go:10-11`), and a test of `publish` expects a mismatch
  when a different key is registered in DNS (`cmd/node/cli_test.go:531-540`).
  `LookupOwnerKey` asks the key manager first, and the program gives its
  resolver one (`cmd/node/main.go:115`), which the test does not: where a key file
  exists, a record set by hand never counts, and `publish` compares the file's
  key with itself. The repository does not say which of the two is meant;
  `MismatchMeansRotation` leaves records set by hand out, and is about the
  copies that lookups and key generation leave in the same table.

What `overlay` holds only under its conditions: `PutGet` needs fewer than
`bucketSize` nodes to leave (otherwise all holders of a value may be among
them) and no lost message; `Connected` needs every message to arrive, as `Join`
returns success whether or not the bootstrap node answered. That the nodes that
have joined are connected among themselves needs, on the way in, no more joins
at once than a bucket has places: otherwise the closest nodes that a joining
node is sent on to may all be joining themselves, and for a while it is known
to these alone. It is found through them all the same. A lookup in it does not
always return exactly the k closest members, a consequence of `table_closest`;
members and values are found all the same.

What `keys` says of the shared directory: a file that cannot be read (truncated
by a crash, garbled by two writers) is not repaired by anything but the next
`keygen`, and a node that restarts then has no key; `KeyKept` and `NeverStale`
are about nodes that run. And every record of a history is verified with the
current key, so a second `keygen` for a domain strands the releases signed with
the first one; no document says what it should do.

## Proofs

Every safety property of the passing runs is also a theorem, for all values of
the constants, but for `PutGet` of `overlay`. Each proof module extends its
component's module. Where an invariant is not inductive as it stands, the proof
defines the one that is, as a conjunction of named parts; all of these were
model-checked first, on the instances of the runs or, for the small networks of
`OverlayProofs`, on one of four nodes with buckets of five places (two joins at
once, two nodes that leave, one lost message).

`BucketsProofs`, for identifiers and tables of any size. `GetBucketIndex` is
the first differing bit, random identifiers fall in their bucket, and a
target's own bucket holds the contacts closest to it. Distance to a target is a
strict total order (`CloserIsTotalOrder`), so sorting and cutting to a number
of contacts has one result, and nothing that is cut off is closer than what is
kept (`ClosestOfIsTop`, by counting the contacts that are closer). Where the
code takes a first or a least one, the proofs take the least element of a
nonempty set of naturals (`LeastNat`, from the well-foundedness of `<`): the
induction theorems themselves have an operator as parameter, which the provers
do not instantiate. Then what the operations on a table do. The scan of
`FindClosestContacts` stops with enough contacts or with the whole table
(`ScanStops`). Two facts are about nodes that look themselves up: one that does
not take `n` into its full bucket answers `n` with `bucketSize` contacts that
are all closer to `n` than itself (`FullBucketSendsOn`); so when a lookup has
asked the `bucketSize` closest of all it heard of, the closest one asked, at
least, knows `n` (`LookupMeetsKnower`).

`RoutingTableProofs`, for any identifiers, sizes and sets of goroutines: the
invariants of `table_eviction`, `LeavesOnlyWhenDead`, `RecencyOrder`, and those
of `table_queries`. They rest on two inductive invariants. `TableInv` has
the types, the soundness of the buckets and caches, and that the locals of a
handler between its two locks are still a contact and its bucket. `ProbeInv`
ties the flags, the goroutines and the WaitGroup together: a bucket has a flag
exactly while one goroutine probes it, so only that goroutine pops from its
cache, so the cache has what the handler put there (`EvictionHasReplacement`).
That the WaitGroup's counter stays a natural number, part of the type
invariant, follows only from its being the number of goroutines.
What `FindClosestContacts` returns follows from `TableInv` alone: for the node
itself every contact it did not scan is in a lower bucket and so farther
away than all it did (`NearerBucketIsCloser`), so that cutting the table there
before sorting loses nothing (`ClosestOfPart`). For other targets it may, which
is what `table_closest` shows.

`DataStoreProofs`, for any graph of records, pointers and number of calls.
`StoreInv` says of each call that its walk is linked (`Linked`: each record is
authentic, is the predecessor of the one before, and is newer than every later
one; stated for all pairs, as its extension by one record then needs no
induction), starts at its pointer's head, and what it has validated against;
that the records of a walk that were saved are in the store or were deleted;
and that the stored pointer's history is held. When a call commits, the
pointer is the one it validated against, so its walk joined to the old
history is the new history.

The last section of `DataStoreProofs` is about `ReplicationWorker`, the other
goroutine that touches a node's store, for any number of callers and workers:
the mutex is
held from the lock to the return, so a closed channel is in the field only
while its caller waits (no double close), and the counter of the WaitGroup is
one exactly when a worker runs (so that after the wait none does). The bound
on the workers counts the calls of Start under way.

`LookupProofs`, for any number of peers, any `bucketSize` and `alpha`.
`Progress` says of each candidate how its status, the probes under way and the
number of probes sent go together: nobody under way is asked again
(`AskedOnce`), and only a lookup that has a candidate asks. `Stored` (a pointer
is asked for only when none is stored, and nothing else is ever unchecked) and
`Exhausted` say what the store has and what a lookup that has ended left
behind: its shortlist has no unqueried candidate among the `bucketSize`
closest, which by `ClosestOfIsTop` makes every candidate it did not ask farther
away than `bucketSize` that answered (`FindsClosest`, `GivesUpLast`).

`OverlayProofs`, for any number of nodes, any bucket size, any operations under
way at once, losses and departures: `TablesAreSound` (`TypeOK`), `JoinConnects`
(`Connected`) and what they rest on. Nothing evicts a contact in this network,
so what a node knows it knows for good (`TablesOnlyGrow`). When `n` joins it
looks itself up, and whoever answers knows `n` from then on or has sent it on to
`bucketSize` closer nodes (`LookupsIntroduce`); by `LookupMeetsKnower` somebody
knows `n` when the lookup has ended. The parts of `OverlayInv` make an argument
of this that survives every step of everybody else:

* `Roles`, `Others`, `Acquainted`: which node runs which operation, that no
  node hears of itself, that nobody hears of a node before its `Join` began,
  and that whoever began knows the bootstrap node;
* `JoinLookups`: the fact about those who answered, for the answers that are
  still on their way too, and that the shortlist of a joining node begins with
  the bootstrap node or is full of closer ones;
* `Answered`: as long as nothing is lost and nobody leaves, nobody is found
  unresponsive;
* `Enclosed`: whatever a node has heard of, in its table, in a shortlist or in
  an answer on its way, is found by following contacts from the bootstrap node.
  So the one that knows `n` is, and hence `n` (`Reached`);
* `Rooted`, with `JoinsBounded`: if no more nodes join at once than a bucket
  has places, the one that knows `n` may be chosen among those that have
  joined, as the `bucketSize` closer nodes it would otherwise have been sent on
  to cannot all be joining beside it.

In a network of at most `bucketSize` nodes, which is 10 in the code, no bucket
turns anybody away and every answer has the whole table. The bootstrap node
answers the joining nodes one after the other, so of any two the later hears of
the earlier and asks it (`Meshed`): those that have joined form a full mesh
(`SmallNetworksAreMeshes`). A Store or Replicate that begins then has everybody
in its shortlist, and no departure takes anybody out but the one who leaves
(`Placed`, with `Fresh`, `Unseen` and `Learned`): the value is on every node
that is still up (`SmallNetworksHoldValues`), so that every get there is a
local hit.

`RPCProofs`, for any number of nodes, calls and copies of packets, and any
sockets closed. `RPCInv` has the types, `PendingExact`, `CallsLinked` (what a
call records of itself) and `PacketsGenuine` (every packet is the request of a
call, from the caller to the callee, or a reply the other way with the type
that belongs to it, to a call that was served). `ChannelsGenuine`, that what
reaches a channel is such a reply, needs that no node calls itself
(`NoSelfCalls`, a hypothesis of `RepliesAreServed`): the lookups leave the node
out of their shortlists, and a node that did call itself would take its own
request for the answer. `PanicsOnlyOnLateReply` bounds what `rpc_late_reply`
shows: a process ends only by a late reply to a FIND_CONTACT of its own.

`RegistryProofs`, for any number of nodes, versions and publications. It begins
with the order of versions, for all versions: the comparison is a strict total
order that tells different versions apart, and a number left out is a zero.
Transitivity makes the validator's check of neighbouring releases one of the
whole history (`VersionsIncreaseThroughout`). `CompleteHistories` is inductive
with the types, for any key holders: what a node accepts extends what it had
with records that it holds, and `forgotten` has the ones that were deleted by
hand since. The refinement and `InstallAgreement` are about one publisher and
need `OwnerInv`: a pointer, in a store or on its way, whose last release is the
publisher's is a prefix of the publisher's own pointer, and a `publish` under
way on the publisher's node extends that very pointer. So the publisher accepts
nothing from others, what other nodes accept is a part of its history, and
every step is one of `PackageHistory` or a stuttering step (`Simulation`):
publishing is `Release`, accepting a pointer is `CatchUp`; a restart, a
`forget` of the pointer and a forced publication are `Forget`. From the same
invariant, two nodes that install a version install the same release
(`InstallsSame`), and the check of `publish` that `registry_upload` refutes
with two publishers holds with one (`CheckedWithOnePublisher`).

`KeyManagerProofs`, for any number of nodes and keys: `KeyKept`, `NeverStale`
and `MismatchMeansRotation`. `KeyInv` says that a file that can be parsed has
the key that was written last, that keys are written once, that a key to be
kept was written after the one it replaces, and that `publish` has the key that
`Load` gives unless one was written since.

Assumptions: the named `ASSUME`s of the modules, which every run evaluates
(types of the constants, finite sets of goroutines and contacts, positive
sizes, a finite set of nodes in `Overlay`, version arguments of one to three
numbers, a `None` that is no node), and, where a theorem states it,
`OnePublisher`, `NoSelfCalls` or that a network has at most `bucketSize` nodes
(`Small`). `OnePublisher` is about how the nodes are used and nothing enforces
it: `docker-compose.yml` mounts one directory of keys into every container, so
that every node there can publish, and what holds then is what the theorems
without the assumption and `registry_upload` say.

Only model-checked:

* liveness under fairness (`EvictionCompletes`, `StoreReturns`, `LookupEnds`,
  `CallReturns`, `ReplicasConverge`, `CallsReturn`): the prover has no rules
  for fairness and ENABLED;
* `PutGet`. In networks of more than `bucketSize` nodes, which the instances of
  `overlay` are, it rests on two lookups, over tables that
  differ, coming to a common node; but `FindClosestContacts` is not exact, so
  lookups do not always end at the closest nodes, and what does hold of every
  pair of them has not been found as an invariant of single steps. Whether it
  holds in every larger network is open.

## Not modelled

* Parsing and formatting of command lines, JSON, hex and the text of DNS
  records; SHA-256 (taken as free of collisions) and Ed25519 (a signature is
  the owner's or not).
* The size limit of values, which rejects before anything changes, and guards
  against nil arguments.
* `SetTimeout`: a timeout may come at any moment in `RPC`.
* PING and the counters of the simulated network, which nothing but the reports
  of the experiments reads, and what those measure and plot.
* `Delete`, `Add`, `Get` of the key manager and `RemoveKey`, `Clear` of the
  local DNS records, which only tests call. `Validate` is the same walk as in
  `Store` and changes nothing.
* Versions that cannot be parsed, which `publish --force` lets pass and every
  other node rejects.
* In `Registry`, a record comes from a node that holds it at that moment, and a
  node that restarted may receive a STORE that it sent itself; one key per
  owner (the keys are `KeyManager`).
* In `Overlay`, a node runs one operation at a time and leaves between
  operations; that lookups end is checked in `Lookup`, with peers that answer
  anything.

## Plan

Done, in this order: identifiers and routing table; data store and validator;
lookup; RPC; registry; replication worker; the first proofs; installing,
versions and the abstract history that the registry implements; the overlay on
the simulated network; keys; closed sockets; the proofs of the refinement and
of the keys; the proofs of the RPC layer, of the lookup, of what
`FindClosestContacts` returns, and of what follows for versions and installs
from the refinement; the proofs of the overlay.

Next, all proofs:

1. `PackageHistory`: that its views are prefixes of the history, on its own.
2. `KeyManager`: that a publication is signed with the key the validators of
   the moment ask for, as far as it holds.
3. `Overlay`: `PutGet` for networks larger than a bucket, or conditions on the
   identifiers under which it holds.
