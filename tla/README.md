# gbrick-core in TLA+

A model of the gbrick blockchain node: the LLFC consensus and its behaviour
tree, the selection of blocks, the pools, the transport, the chain and the world
state, the records that are sent and stored, Merkle roots and signatures, the
node's profile and its database. TLC checks small instances; TLAPS proves
the main safety results for every instance. Paths below are relative to
`src/gbrick/` unless they begin with `src/`.

## 1. Inventory

A node is one process. It runs four queue threads (P2P, LLFC engine, BlockChain,
Wagon), ten receiver threads, and one short-lived thread for each message it
sends to each peer. A module talks to another by pushing a `Message` into the
other's queue; the engine also reads the BlockChain object directly.

```
 clients, peers --zmq--> Receiver --> P2P queue --hub--> LLFC queue --> engine, pools
                                        ^                                |      |
                                        +------- BROADCAST_REP ----------+      | FINALIZE_BLOCK
                                                                                v
   StateDB <-- Wagon (Tpu.commit) <-- Wagon queue <-- BlockChain.finalize <-- BlockChain queue
                                                          |
                                                        LevelDB
```

| component | state | operations | interacts with | what is hard, what makes it correct |
|---|---|---|---|---|
| LLFC engine (`consensus/llfc/llfc.py`, `btree.py`) | stage, num_height, num_retry_count, list_selected_block, timestamp | four message handlers; one pass of the behaviour tree: propose, select and vote, count votes, finalise or wait, retry, new round | pools, BlockChain, P2P | timeouts at different moments, waves of one height, messages of other waves, a chain that grows at any moment. One vote per wave, one certificate per wave, one block per height, a round ends |
| selection (`llfc.py` select_*) | list_selected_block | four children of a Selector | candidate pool | arrival order differs per node. Same pool, same block |
| pools (`consensus/base/datapool.py`) | two dictionaries each | put, get, list, remove | engine | one index entry for a key that is in several waves. What is found is what was put |
| BlockChain (`blockchain/blockchain.py`) | LevelDB, _num_height, _block_last, queue | start on genesis, finalize, get_height, get_last_block | engine reads it from another thread; pushes to the Wagon | reads between two assignments; a crash between two writes; blocks out of order. One branch, from genesis |
| Wagon, Tpu (`wagon/`) | queue, dict_state | start, commit | StateDB | fee before the balance test, amounts of either sign, payer = recipient. No payer overdraws, money is conserved |
| StateDB (`statedb/`) | LevelDB of accounts, last_block_hash | get_state, update_state, update_genesis_block | Wagon, BlockChain | two databases, two writes. The world state follows the chain |
| MessageQueue (`module/component/messagequeue.py`) | a queue, is_running | start, push, the loop | every module | an exception ends the thread, is_running stays True |
| transport (`module/p2p.py`, `receiver.py`, `sender.py`, `modulehub.py`) | peers, sockets | add_peer, broadcast, receive, route | engine, network | one thread per message and peer: no order; one identity for all who connect to a node. What a module gets was sent, once |
| behaviour tree (`common/utils/behaviortree.py`) | children | Selector, Sequencer, Indexer, Action | engine | order and short circuit |
| types, hashes (`common/type`, `common/crypto/hash.py`, `common/utils/merkletree.py`) | fields | to_dict, from_dict, to_hash, to_candidate_hash, get_key, get_wave, merkleroot | everything | which fields a hash covers, which a dictionary carries, completion in place. What arrives has the hashes it carries |
| signatures (`common/crypto/secp256k1.py`, `gcrypto.py`) | none | sign, recover | engine signs; nobody verifies | edge cases of the arithmetic |
| profile (`module/component/gbrickprofile.py`) | two files, address_coinbase, private_key | loads, write, create_account, load_keystore | start-up of every module | files that are written in steps, several processes. One coinbase per node |
| database services (`module/component/db.py`, `common/dbmanager.py`) | LevelDB | insert, select, update, delete, batch_process | nobody yet | an update in two operations. What was acknowledged is found |
| logger, start scripts, game logic | | | start-up | not part of the node's protocol |

`consensus/llfc2` is a second copy of `consensus/llfc`, byte for byte, that
nothing imports.

The hazards (what is hard to test) are listed one by one in `PROJECT.json`, each
at its line with the properties that watch it.

## 2. Modules

| module | what it is |
|---|---|
| `Selection` | the selection rule on the set of candidates; constants of transactions and hashes |
| `SelectionList` | the same rule as the code runs it: lists in arrival order, one tree action at a time |
| `Consensus` | abstract: one sequence of decided blocks, each node's chain a prefix of it |
| `LLFC` | all the nodes: engines, pools, chains, network. Uses `Selection`, implements `Consensus` |
| `LLFCProofs` | the theorems about `LLFC` |
| `LLFCRestart` | `LLFC` with nodes that crash and start again |
| `Waves` | the retry counts of several engines, in time; runs the trees of `BehaviorTree` |
| `Records` | blocks, votes and transactions as objects: packed, sent, completed, stored |
| `BehaviorTree` | the node classes and the tree, as operators: what a pass returns and the actions it calls |
| `Passes`, `Rounds` | passes of the tree, one after the other; abstract: the ways in which a pass may change stage, height and retries |
| `PoolData`, `VoteData`, `TransactionData` | the constants of the pools and what is assumed of them |
| `Pool` | abstract: what is held, and what is found by its key |
| `StagedDataPool`, `VotePool` | the pools of candidates and votes as the dictionaries they are; both implement `Pool` |
| `DataPool` | the pool of transactions, over time |
| `VotePoolProofs`, `DataPoolProofs` | the theorems about these two pools |
| `Network` | abstract: each message at most once per node, in any order |
| `Transport` | P2P, its peers, senders, sockets, workers and hub; implements `Network` |
| `TransportProofs` | the theorems about `Transport` |
| `Ledger` | one node's BlockChain, Wagon and StateDB, with crashes and restarts |
| `LedgerProofs` | the theorems about `Ledger` |
| `Loops` | the loops over lists, of blocks, votes or hashes, `merkleroot` among them |
| `MerkleTree` | `merkleroot` beside a definition of the tree |
| `AlgorithmProofs` | the theorems about `SelectionList`, `Passes` and `Waves` |
| `RecordProofs` | the theorems about `MerkleTree` and `Records` |
| `Secp256k1`, `CurveWalk`, `Ecdsa` | the arithmetic of points; walks over the curve beside the group law; sign and recover |
| `Profile` | the profile, the key files and the processes that load and write them |
| `Database` | `DbManager`, its threads and LevelDB |
| `Storage` | what a node stores: the three pools, the profile and the database side by side; they share nothing, and a behaviour runs one |
| `StorageProofs` | the theorems about `Storage`: those of the pool of candidates, of the profile and of the database, and those of the two other pools carried over |
| `MCLLFC`, `MCLLFCFork`, `MCLLFCRestart`, `MCLedger`, `MCTransport`, `MCPools` | values of the constants and the bounds of the runs; `MCPools` gives those of `Storage` |
| `MCNode` | the parts of a node beside the engine: `Storage`, `Ledger` and `Transport` side by side; here they share nothing, and a behaviour is one of one of them |
| `MCSelection` | two candidates that tie, and what `src/README.md` says of them |
| `MCAlgorithms` | the engine's algorithms side by side: components that share nothing, of which a behaviour runs one |

How they hang together: `LLFC` takes for granted a network like `Network`, pools
like `Pool`, passes like those of `Rounds` and a selection on sets;
`Transport`, `StagedDataPool` and `VotePool`, `Passes` and
`SelectionList` model the code that provides them. Its hashes are records, which
`Records` compares with the texts the code hashes; its waits end at any moment,
where `Waves` has a clock. `Ledger` models what becomes
of a block after the engine has handed it on.

### LLFC: how state and actions correspond to the code

A hash is the record of the fields it covers, so two hashes are equal exactly
when the code's would be. `Candidate` is what `BlockHeaderBase.pre_hash` covers
(prev, height, transactions, creator) and not the retry count; a `Block` is a
pooled candidate with its `num_retry_count`; a `Vote` is `Vote`'s fields; a
`Final` is a block with its `list_vote`. The hash of a finalised block covers
the votes too; the model names it by `BlockId`, and `NamesAreUnique` checks that
no two finalised blocks share that name.

| state | in the code |
|---|---|
| `engine` | the engine's queue thread: `up`, `proposing` (inside the PROPOSE pass, before it reads the chain's last block), `dead` (an exception has left `MessageQueue.start_to_process`) |
| `stage`, `num_height`, `num_retry_count`, `selected` | the fields of `LLFCEngine`; `selected` is the head of `list_selected_block` |
| `pool_*`, `dict_index` | the pools; `dict_index` is the copy that `StagedDataPool.get_data` finds, since the index keeps one wave per hash |
| `chain_queue`, `chain_thread`, `blocks`, `block_last`, `last_read` | the BlockChain's queue, thread, database with `_num_height`, `_block_last`, and what `get_last_block` has read and not yet assigned |
| `net_*` | messages on the wire and in the two in-process queues of the receiver |
| `cast`, `finals` | history: every vote and every finalised block |

A pass of the behaviour tree runs on one thread and touches only the engine's
own state, except where it reads the chain; so a pass is one action, and the
PROPOSE pass is cut in up to three (`BeginPropose`, `ReadLast`,
`CreateCandidate`) because `get_height` and `get_last_block` are read at
different moments, while the BlockChain thread may run. `FinalizeBlock` and
`PublishLast` are the two halves of `finalize` around the assignment of
`_block_last`. The clock is not modelled: a wait may end at any moment, so
every order of timeouts and messages is a behaviour. The lists `selected` and
`get_vote_result` are reduced to what the code reads of them.

`PutCandidate`, `GetData` and `OfWave` are what `Pool` promises, taken as it is:
that the dictionaries of the code keep the promise is shown of `StagedDataPool`
(`ImplementsPool`), not here.

`PoolFitsEngine` is about one fact of this commit: `LLFCEngine` reads
`pool_transaction.dict_data` and hands hashes to `remove_data_list`, while
`DataPool` has `dict_pending_tx` and calls `get_key()` on what it is handed.
With FALSE (the code as it is) the first pass that proposes ends the engine:
the run `pool` shows it. With TRUE the pool has the interface the engine is
written for, and everything else in the engine, which otherwise could never
run, can be checked.

### LLFCRestart

`Restart(n)` is the end of a process and `LLFCEngine.__init__` of the next: the
height comes from the database of the BlockChain, and everything else of the
node is what `Init` gives it. With the process go the messages in its queues and
those its sender threads have not sent; which ones is any choice. `blocks` and
what is at the other nodes stay. A node that is down for a while is one that
takes no step before its `Restart`.

### Waves

The stage, the retry count and the timestamp of each engine, and the time. A
pass runs `create_root` of `BehaviorTree`, with `wait` computed from the
clock; `time_start` and `update_stage` are taken from the actions it returns.
The chain does not grow and nobody gets a quorum: this is about the waves in
which nothing is decided. An engine that restarts begins again at 0, so it is
one that begins late. The queue threads poll without a pause, so the clock
advances only when no pass would do anything; `wait` is over after more than its
term, as in the code.

### Records

An object is a record of the keys of its dictionary, `ToDict` and `FromDict`
what the methods of these names keep, and a hash the text that goes into it, as
a sequence of digits and tokens: so two hashes are equal exactly when the texts
are. (`Digits` writes the decimal digits of numbers below 100, as are all that TLC
is given; a larger one has its tens for one digit. The theorems do not rest on
it: see the comment there.) An integer is its digits, with nothing between them and the next; bytes are
quoted by `str()` and are one token. `CreateFinalize` changes the block in the
pool, as `_generate_finalize` does, and a `None` that is packed sets `raised`;
`None` is the empty text (`Nothing`), which no hash is. A list of `TxLists` has a
transaction at least, because an engine proposes only when there are some, and
none twice, because the pool is a dictionary by the hash that a transaction
carries; that this is the hash of its text is up to the client that made it.
Where the engine stands is left out: any candidate may be voted for, once per
wave and node, and is finalised when all have. The version is 1 everywhere.

### Profile, Database

`profile` is the file with its coinbase, which is cut by `open` and filled by
`write`; `keystore` the addresses that have a key file. Each process loads once.
`create_account` writes a key file and then returns a `str`, on which `loads`
calls `decode`: with an empty coinbase the process ends, and the file stays.
`property.py` of this commit has no `PASSWORD`; a site has to add it, and the
model takes it to be there.

Each operation of LevelDB is atomic, and `update` is two of them. `acked` is
history: what the calls that returned True have left. A call that fails before
its first operation changes nothing.

### Ledger

One action for each step between which a crash or another thread can act:
`Start` and `UpdateGenesisBlock` (the two database writes of the first start),
`Finalize` and `PushToWagon` (the write of a block and the push of it to the
Wagon), `StartBlock`, `CommitTransaction` per transaction, `UpdateState`.
`Crash` keeps the databases and loses the queues, the threads and `dict_state`.
The engine is abstracted to `Push`: any block, of any branch, once. `paid`,
`taken` and `applied` are history (fees charged; what an account lost without a
look at its balance; blocks whose execution was written).

An amount is any integer. `Transaction.from_dict` takes what the JSON has
(`common/type/transaction.py:39-40`), `Tpu.commit` compares it with the balance
of the payer only (`wagon/txprocess.py:50-60`), and the engine's call of
`_is_valid` is commented out (`llfc.py:63`). So whoever pays less than zero takes
from the recipient, below zero too, and `NoOverspend` says what is left: no payer
overdraws, and what an account lacks are fees and such payments. Not modelled is
that the JSON may have a number that is not an integer.

Two losses are in the code and in the model, and its properties are worded
around them; they are no correct behaviour. A crash between the two writes of
the first start leaves the accounts without the genesis assignment for ever
(second case of `MoneyIsConserved`): at the next start the chain has a height
and nothing funds them. A crash between the write of a block and its execution
loses the execution, and the later blocks are executed on a world state without
it (`crashes = 0` in `NothingSkipped`, `crashes > 0` in `ChainIsExecuted`). They
are faults of the code. No finding reports them only because the repository says
nothing of crashes that a violated property could quote.

### BehaviorTree, Passes

`new_round_tree`, `propose_block_tree` and so on are the trees that the methods
of these names build. A tree is what its `invoke` gives when the checks of the
engine find `found`: the value it returns and the actions it adds to `trace`, in
their order, with their arguments. `Selector` and `Sequencer` are the loops of
the node classes (`InvokeUntil`), so a tree is a term and needs no recursion,
and can be proved about.

`Passes` has the engine's stage, height and retry count. In each step the checks
find anything (`found`), so its passes are those of every state of the engine,
and more; `Count` and `LastStage` take from the trace what it does to the
fields.

### Pools

A dictionary is a function to its values or `None`. One action per method, in
any order and with any argument: this is more than the engine does, so what
holds here holds for it. `error` is the exception that ends the caller's thread.
`twice` is history: the keys that were in two waves at once, which make the
index too small. `FailsOnTwiceOnly` says that only these can raise a KeyError.

`DataPool` has a clock, `now`, and a transaction is its hash and its timestamp;
the ages and the limits of the finalised blocks (1800 s and 10800 s, 50 and 20)
are constants. `put_finalize_data` asks `is_valid` of each transaction, which
compares the sender's address, bytes (`transaction.py:37`), with what `verifying`
makes of the signature, a `str` (`gcrypto.py:105`): never equal, so a block with
a transaction is a ValueError, signed or not. Only empty blocks get into
`dict_finalize_tx`, whose keys are the hashes of blocks, and so no transaction of
a finalised block is ever refused for being in one. No code calls
`put_finalize_data` or `pool_manager`.

### Transport

`queue`, `thread` and `peers` are the P2P queue, its thread and the two
dictionaries of a node. A sender thread, the sockets and a worker that has not
yet pushed keep no order; together they are `wire`, which counts the copies of a
message. `Input` is what engines, clients and the controller push, each once:
that an engine does not broadcast twice belongs to `LLFC`. A message for a
module that the hub does not have ends the queue thread.

`router` is whom the ROUTER of a node hears. `add_peer` makes a `Sender` under
the id of the peer, and `Sender` makes this the identity of its socket, so all
who connect to a node have one identity. A ROUTER without `ROUTER_HANDOVER`
ignores a second connection of an identity it has: `Connect` lets any `Sender`
be the first, and `Receive` takes what comes from that one only. What the others
push stays on the wire. `PeersHear` speaks of the one that is heard, and the run
`propagation` shows the others.

Assumed of the surroundings: nobody is listed as its own peer; ZeroMQ delivers
what is pushed to a connection that is heard, once; and a node is told of a peer
once for each type. (A second time, `add_peer` puts a new `Sender` in the place
of the old one, and when the old connection ends is up to the garbage
collector.) Connections do not break.

For `LLFC` this means that its safety stands (it lets any message be lost), and
that its liveness, which supposes delivery to every node, is about the two nodes
of its run: each then has one peer. Among three nodes or more this P2P connects
a node to one other only, and a quorum of four is never seen; what the runs
`fork` and `majority` show is a matter of the engines, on any network that
delivers.

### MerkleTree, Secp256k1, CurveWalk, Ecdsa

A hash of two hashes is their pair. `merkleroot` appends to the list it is
given, so `p_list` is state. The curve is y^2 = x^3 + 7 over the field of 43,
whose group has the prime order 31; like secp256k1 the field has cube roots of
one, its square roots are a power, and there are points whose x is not less than
the order of the group. `CurveWalk` applies `j_double` and `j_add` to what they
returned, so that the third coordinate takes many values.

## 3. Runs

Expected to pass:

| run | instance | question |
|---|---|---|
| `retries` | 2 nodes, quorum 2, 2 transactions, 2 heights, retry 1 | with a quorum of all the nodes: no second vote in a wave, no fork over retries, no dead engine, no block out of order, no node two blocks behind, the right transactions cleared, and refinement of `Consensus` |
| `majority` | 3 nodes, quorum 2, one wave | with a mere majority: one certificate, unique names |
| `live` | 2 nodes, 1 transaction, 2 heights, retry 1, fair | a round decides unless votes split or a wait ends early; its block reaches every chain and engine; it carries votes of its own wave, when the same candidates come in two |
| `node`, the storage | candidates and votes: 3 keys, 2 waves, a second datum of one key, votes for 2 hashes; 3 transactions of the past, present and future, 3 empty blocks and one with a transaction, 4 ticks; every sequence of calls; 2 processes and 3 addresses; 2 threads, 2 keys, 2 values | does an index lead to a datum; when can a call raise; does a vote count once in its wave; refinement of `Pool`; does trimming keep the newest blocks; does an accepted transaction stay as long as it may; does a node keep its coinbase; is what the database acknowledged found |
| `node`, the ledger | 4 blocks on two branches, 2 accounts, amounts and fees of either sign, 2 crashes | is the chain one branch; does the world state follow it, in order, once, completely when nothing crashes; are balances right; is every block of the chain executed when nothing crashes |
| `node`, the transport | 3 nodes, peers added while two of them broadcast, one changes its type, three Senders to one node, one client request for an unknown module | one copy of each message; refinement of `Network`; does a peer hear the broadcasts of the Sender that its ROUTER knows |
| `algorithms` | 2 nodes, 4 candidates of two sizes with ties in count, age and hash order, in every arrival order; 2 candidates with 1 or 2 transactions, 2 retry counts, 2 heights; 2 engines, 20 ticks, terms of 2; the tree, whatever its checks return, 3 new rounds, 3 retries; sums and doubles from the base point on, over 738 triples of coordinates; 4 keys, 6 hashes, 32 nonces; every list of 1 to 7 of two hashes | does the list code compute the set rule; is a refused candidate ever taken back, or another one selected from the same candidates; do records have the hashes they carry wherever they arrive; what do equal hashes have in common; when do engines share their waves; does a pass do what one action of `LLFC` does; are sums, doubles and multiples those of the group; does recover find the signer; is a Merkle root that of the tree |

Expected to be violated, each a disagreement between the code and what the
repository says of it (`findings` in `PROJECT.json` quotes the lines):

| run | what the counterexample shows |
|---|---|
| `pool` | no engine leaves PROPOSE, since the pool has no `dict_data` |
| `wait` | WAIT_FOR_FINALIZE does not end: its term passes and nothing changes the stage. It needs the creator to time out before the votes reach it |
| `stale` | an engine reads the new height and the old last block; its candidate wins and no chain accepts it |
| `fork` | with the quorum of 4 that is in the code and 5 nodes, two blocks of one height are finalised, in two waves |
| `restart` | a node finalises a block, hands it to its own chain and to its peer, and crashes before its chain has written it. Restarted, it retries, votes again at the height in a wave in which its peer has proposed, and this block is finalised too: the chains differ, although the quorum is all the nodes |
| `propagation` | two Senders to one node have one identity; the second is never heard, and what is broadcast through it does not arrive |
| `tie` | two candidates with the same transactions: the greater hash is selected, where `src/README.md:107-111` has the one closest to the hash of the previous block |

`tie` reads "closest in order" as the least distance of the hashes as numbers;
any reading on which the hash of the previous block matters is contradicted, as
the code does not look at it. `src/README.md:96-100` has one more criterion, that
a block arrive near the ideal time of the consensus; `select_timecompatibility`
returns False before it does anything, so it narrows nothing, in the code as in
`Selection`. `SelectsTheRule` compares the code with the rule that it follows,
not with that of `src/README.md`.

Two more disagreements are in the models and have no run. A transaction that
arrives after its block is pooled again: `DataPool.put_data` looks for it in
`dict_finalize_tx`, which nothing fills and whose keys would be hashes of blocks.
And a creator that retries may propose the same hash again: there is no nonce,
and the hash does not cover the retry count, though `src/README.md:105` says
"All hash values of the proposal block become different".

### Bounds, and why they are enough

- `MaxRetry`, `MaxHeight`: a fork needs two waves of one height; a stale
  predecessor, an overtaking block and a cleared pool need two heights. Both are
  in `retries`. The bounds are guards of `BeginPropose`/`CreateCandidate` and
  `RetryRound`.
- `OneRetries` (run `retries`): at most one of the nodes times out. Both timing
  out is the same as neither, in a later wave.
- `TransactionsEarly`, `TransactionsFirst`, `FewInFlight`: limit how the
  transactions, candidates and votes are spread in time. The first two leave
  out late transactions, for which there are the theorems.
- `majority` has one wave, because more than one forks when the quorum is not
  everybody: that is the finding of `fork`.
- `ForkSchedule` (run `fork`) picks one schedule, since five nodes have far too
  many; a counterexample needs only one.
- `CrashSchedule` (run `restart`) lets one node crash, after a block has been
  finalised, and the second transaction come after that; as with `fork`, one
  schedule is enough for a counterexample.
- `MaxCrash = 2` (run `node`): a crash in either half of the first start, then one in the
  middle of a block or between the chain and the Wagon.
- The pools: a key in both waves and a datum that replaces another need two
  waves and two data of one key; no method looks at more than one key at a time
  but by iterating over a wave.
  For transactions the limits of 50 and 20 are both 2, so that three blocks trim;
  the ages are 1 and 3 with transactions on both sides of each; `MaxTime` lets
  the last of them grow too old, `MaxPut` bounds how often blocks are put.
- `node`, the transport: every input happens at most once. The third node is a peer of
  the first under both types, in either order of the lists and the broadcasts.
- `node`, the storage: two processes that load an empty profile would make two identities;
  two threads put one update in the middle of another's call.
- `algorithms`, the records: two candidates, of one node or of two, in one wave,
  in two waves or at two heights; one dictionary of each kind on its way to a
  node (`FewOnTheWire`). The two lists hold transactions with the digits of one
  another's value and fee, and with two nonces.
- `algorithms`, the waves: a wave is 6 ticks, so engines begin up to three waves
  apart and go through three waves.
- `algorithms`: seven leaves have an odd level at the bottom, in the middle (5,
  6) and nowhere (1, 2, 4). All 31 points and 738 triples are reached; the cases
  that the code distinguishes (equal, opposite, infinity, s = 0, r not less than
  the order) all occur.

### Fairness

`LLFC`: weak fairness of the messages of a node, of its passes and of its
BlockChain thread. The queue loops never end except by an exception, and they
alternate between emptying the queue and one pass; a wait ends with the clock;
ZeroMQ delivers between two nodes. Nothing is assumed of the clients. The run
`node` has the fairness of `Ledger` and of `Transport`, each of its own actions,
which are enabled in a behaviour of that part only. `Ledger`: weak fairness of the BlockChain and Wagon threads; none of crashes,
restarts or the engine. `Transport`: weak fairness of the start of a node, of
its queue thread, of its ROUTER to meet a first Sender, and of the arrival of
what comes from that one; none of what engines and clients send.

Every cfg says `CHECK_DEADLOCK FALSE`: at the bounds of heights and retries,
after the last block, message or verified signature, and after the exception
that ends a thread, nothing is left to do.

## 4. Theorems

### `LLFCProofs`

For every set of nodes, quorum, set of transactions, number of heights and
retries, under the named assumptions on the constants in `Selection` and `LLFC`
(finite sets, positive bounds, distinct hashes for distinct candidates):

| theorem | assumption | states |
|---|---|---|
| `TypeCorrect` | | `TypeOK` |
| `VotesOnce` | | no node votes twice in a wave |
| `OneCertificate` | `Majority`: a quorum is more than half | one candidate with a quorum per wave |
| `Irreversible` | `Unanimous`: a quorum is all the nodes | one finalised block per height, over all retries |
| `FinalsCertified` | | a finalised block has a quorum of votes that were cast for it, in its own wave (`Certified`) |
| `ChainsAgree` | `Unanimous` | one chain is a prefix of the other (`Agreement`, which restarts break: run `restart`) |
| `Refinement` | `Unanimous` | `Spec` implements `Consensus` |
| `NamesUnique` | | no two finalised blocks share hash, height and wave (`NamesAreUnique`) |
| `InOrder` | `Unanimous` | a chain takes the finalised blocks one after another, each at its height (`HeightsInOrder`) |
| `InLockstep` | `Unanimous` | no chain is two blocks ahead of another (`Lockstep`) |
| `Survives` | `Unanimous`, `PoolFitsEngine` | no exception ends an engine (`EngineSurvives`) |
| `ClearsFinalized` | `Unanimous` | an engine one behind its chain has selected the block its chain got, or is in a later wave (`ClearsTheFinalized`) |

The argument. `TypeInv` is `TypeOK` with what the steps need of it.
`VoteInv` adds that a node's votes lie in waves not later than the one it is in,
and strictly earlier unless it has reached COLLECT_VOTE: waves only grow, so a
vote is always the first of its wave. One certificate follows, because two
quorums share a node (`QuorumsMeet`).

For `Unanimous`, `VoteOncePerWave` is not enough: a retry opens a new wave. The
invariant says that an engine that counts votes has voted in its wave for the
block it has selected (`SelectedInv`), that every vote in a pool or on the way
was cast (`VotesReal`), that every block on the way, queued or chained was
finalised (`FinalsReal`), and `FinalInv`: every node voted for a finalised block
in the wave it names, and its creator, which finalises and then waits, has not
voted at that height in a later wave. A second block of the height would need
the votes of all the nodes in its own wave; whichever of the two waves is the
later, the creator of the other block has no vote there. `UnanimousInv` is the
conjunction; each action preserves it.

The names are unique because a creator finalises once per height: it has then
gone to WAIT_FOR_FINALIZE, which it leaves only for the next height (`OnceInv`).

A finalised block has real votes whatever the quorum. The block a creator
completes is the one that its pool finds by the hash, which may have come in
another wave than the votes. `KnownInv` says that what is pooled, on its way or
voted for is in the pool of its creator, in that wave, until the creator is past
the height; and `OwnCopyInv` that a creator gets no copy of its own candidate
from others, so that its index leads to the latest of them. The winner of a wave
has a vote in it, its latest copy is of no earlier wave, and none is of a later
one: so the block is of the wave of the votes (`ElectsOfItsWave`). The invariant is needed only where the creator voted for
another block than the one of its own that wins. Every engine has its own
candidate and selects by one order, so this takes a quorum of at most N - 2, and
no run has it: TLC checks `Certified` on two waves with a quorum of all
(run `live`), and the theorem covers the rest.

What reaches a chain rests on `DeliveredInv`: an engine is at most one height
past its chain, and at most one finalised block is on its way to a chain, in one
copy, and of the height its chain is to take next. It is preserved because a
finalised block has the votes of all the nodes, so that every node has come to
its height, which takes a chain that has every block before it; while one node
has yet to chain a block, that node casts no vote at the height above. The two
orders of the code that a test would hardly try, a block that overtakes its
predecessor and one that reaches a chain twice, are excluded by it, and
`Lockstep` follows.

An engine dies in two places of the code: when it counts a quorum for a block it
does not have, and when it clears the pool with nothing selected. `KeptInv` says
that an engine waits for the block it voted for, and that one that has voted at
its height has a block selected; with all the nodes as quorum the block it
elects is then the one it selected itself (`ElectsItsOwn`), and the block its
chain got is one it voted for.

### `LedgerProofs`

For every set of accounts and of blocks, in any number of branches, and any
number of crashes, under the assumptions in `Ledger` on blocks (a height is a
positive number, and a block names a predecessor) and on the genesis block:

| theorem | states |
|---|---|
| `TypeCorrect` | `LedgerTypeOK` |
| `Linked` | the database holds one branch, from genesis to the last block |
| `InOrder` | blocks are executed in the order of their heights, each once, across crashes |
| `NoneSkipped` | without a crash, what is executed and what waits is the whole chain |
| `NobodyOverspends` | no payer overdraws: a balance is below zero by no more than its fees and payments of less than zero to it, for amounts of either sign (`NoOverspend`) |
| `Conserved` | balances and fees add up to the genesis assignment, or to nothing for ever after a crash before it was written (`MoneyIsConserved`) |

The argument. `OrderInv` says where a block of the chain can be: executed, being
executed, in the Wagon's queue, written and not yet pushed, and that the heights
rise in this order, strictly, also within the queue. A push takes the highest
block, the Wagon takes the head of its queue, so no step can put a block before
one of a lower height; a crash empties the middle and keeps the ends. Without a
crash nothing leaves these places but into the next. `NoOverspend` is inductive
for one transfer, seen as its three assignments: the fee and what is received
change the balance and `taken` by amounts that add up to no loss, and a payment
is made only from a balance that covers it.

`MoneyIsConserved` is about a sum over the accounts, which is a fold over a set.
That the fold obeys its recursion, and that changing one summand changes the sum
by as much, is shown by induction over sets of accounts, in the form the provers
can use: a set of sets without a counterexample of least size. `FundsInv` then
says that the sum over `dict_state` while a block is executed is the sum in the
database, and that before the accounts are funded there is nothing. Payer and
recipient may be one account: the fee, the debit and the credit are three
changes, each of one summand.

### `StorageProofs`, `VotePoolProofs`, `DataPoolProofs`

For every set of keys, waves, data, votes, transactions, ages and limits,
addresses, processes, threads and values, under the assumptions of `VoteData`,
`PoolData` and `TransactionData`, and `StorageAssumption`: no address looks like
a file that is cut, and no stored pair is mistaken for a missing one.

| theorem of `StorageProofs` | states |
|---|---|
| `TypeCorrect` | `TypeOK` of the pool of candidates |
| `IndexCorrect` | the index of a key leads to a datum of that key (`IndexFits`) |
| `FailsOnlyOnTwice` | a KeyError takes a key that was in two waves at once |
| `Refinement` | the two dictionaries implement `Pool` |
| `VotesFitAlways` | the same of the votes, and a vote counts once in its wave (`VotesFit`) |
| `VotesRefine` | the pool of votes implements `Pool` (`VotesImplementPool`) |
| `TransactionsStayAlways` | an accepted transaction stays its time; no block with a transaction is recorded, and trimming keeps the newest of the empty ones (`TransactionsStay`) |
| `OneIdentity` | a node has at most one coinbase (`IdentityStays`) |
| `Durable` | what was acknowledged is found (`Acknowledged`) |

The first four are about `StagedDataPool`, the others about `Storage`. A step of
`Storage` is a step of the part that runs or leaves it alone, so a behaviour of
`Storage` is one of each part (`VotesSpec`, `TransactionsSpec`), and the
theorems of `VotePoolProofs` and `DataPoolProofs`, instantiated with its
variables, carry over. The profile and the database are proved in place.

Candidates: `IndexInv` says that a datum lies under its own key and wave, that
the index leads to a datum, and that a key with a datum and no index, or with
data in two waves, is in `twice`. It makes the refinement mapping well defined:
`held` is all the data, `found` what the index leads to, and each method is one
step of `Pool` or a stutter.

Votes: the nested dictionaries are seen as one set, `Stored`, with three facts:
a vote lies under its own wave and hash (`Placed`), there is one per key and wave
(`OnePerKey`), and the index leads to one (`IndexLeads`). What
`get_vote_result` counts is a number of keys; since votes and keys of a wave
correspond one to one, it is the number of votes. `held` is `Stored`, `found`
what the index leads to.

Transactions: `NewestInv` says block by block that what is kept is the end of
what was recorded, of at least the lower limit; a trim drops from the front.
`EmptyInv` says that none has a transaction, as bytes are no `str` (`NeverValid`).
`AcceptedInv` adds that an accepted transaction was no older than the first age
when it was accepted: so one that is dropped for the second age has stayed for
the difference of the two.

Profile: the invariant `OneInv` says that whoever writes has loaded, that what
is loaded is known, and that the profile names the one known coinbase or is cut:
so a load that finds one finds that one, a write puts back no other, and a load
that finds a cut file ends without an identity.

Database: the invariant says of each key that it is what was acknowledged, or is
absent while an update of it is under way or was cut. A call in one step makes
the keys it writes settled whatever the others do, and leaves every other key
and every open update alone.

### `TransportProofs`

For every set of nodes, messages and inputs, each input once (`InputAssumption`):
`TypeCorrect`, which says that no copy is taken off a wire that is not on it, and
`Refinement`, that `TransportSpec` implements `Network` (`ImplementsNetwork`): what
a module gets was sent, and it gets it once.

The argument. `OneCopy` follows a message from its input to the hub: one that is
yet to be pushed or waits to be broadcast was not sent (`TodoFresh`,
`BroadcastFresh`), and waits at one node only; one that was sent is at a node
once on the wire or once in the queue, never both (`WireOnce`, `RelayOffWire`,
`QueuesDistinct`). A peer that is in both dictionaries, or added again, gets no
second copy, because a broadcast goes to one of the dictionaries. The mapping
(`OnItsWay`, `Got`) is then a function of the state, and a broadcast is the only
step that sends.

### `AlgorithmProofs`

For every set of candidates with at least one transaction each, whose hashes
differ, and every set of nodes (the assumptions of `Selection`); for any bounds,
any term and last moment of the clock, and any set of engines (`TermAssumption`:
the term and the last moment are numbers, and `Never` is no moment):

| theorem | states |
|---|---|
| `Selects` | the lists, in whatever order they filled, come down to the one block of `Select` (`SelectsTheRule`) |
| `NeverTakenBack` | over a larger pool the block selected before wins again or a late one does; the same candidates give the same block (`RefusedStaysRefused`) |
| `PassesTyped` | stage, height and retry count keep their types |
| `PassesImplementRounds` | a pass of the tree, whatever its checks find, is one action of `Rounds` or changes nothing (`ImplementsRounds`) |
| `WavesInductive` | where the clock finds every engine in its wave (`WavesInv`) |
| `WavesAreKept` | engines a term apart share every wave, engines more than a wave apart none (`KeepStep`) |

The arguments. `LeftInv` says what is left before each child of the tree: all the
candidates, those with the most transactions, of these the oldest, and that the
Selector has gone on only because more than one was left. Each child is shown to
compute its set (`MostLeft`, `OldestLeft`, `GreatestLeft`) from what its loop
does: `KeptBlocks` for the loop that appends, `GreatestIsGreatest` for the scan
of the hashes, by induction over the positions of the list. A list has no block
twice, so one block in the list is one block in the set. The second theorem is
about the rule: a block that wins among more candidates is among the best of
each kind there, so among fewer too (`WinsAmongFewer`).

`Gives` says of the result of a tree what it returns, how many
times it counts the height and the retries, whether it starts the clock, and the
last stage it sets. A lemma for each node class says what `Selector` and
`Sequencer` make of what their children give; one for each tree of the code then
says what can come of it, and `PassGives` what can come of a pass. That is a
list of six possibilities, each an action of `Rounds` or nothing.

`WavesInv` dates the waves: an engine that first proposed at `first` opened the
wave of its retry count at `first + retries * WaveLength` (`Opened`). It is in
PROPOSE at that moment, in COLLECT_CANDIDATE for a term and a tick from then on,
and in COLLECT_VOTE for as long again, with a timestamp that says so. This is
inductive because the clock stands still as long as a pass would do something,
and because each stage but PROPOSE starts the clock again or lets it run for the
next wave. What `KeepStep` says of two engines is then arithmetic on where they
opened their waves.

### `RecordProofs`

For any set of hashes and lists of any length; for any nodes, retry counts,
bounds and lists of transactions (`ListAssumption`: a list is not empty and has
no hash twice, since a pool is a dictionary by the hashes, a message is a text
and a nonce a number; `BytesAssumption`: addresses and `b''` are not `None`):

| theorem | states |
|---|---|
| `RootIsOfTheTree` | `merkleroot` gives the root of the tree, and again on the list it has made longer (`RootOfTheTree`) |
| `RecordsInductive` | the inductive invariant of `Records` (`RecordsInv`) |
| `RecordsArriveWhole` | every record carries the hashes of what it consists of, and nothing raises on the way (`ArrivesWhole`) |
| `HashesStayApart` | records of one hash agree in what the engines take the hash for (`HashesTellApart`) |

The arguments. `merkleroot` halves a list until one hash is left. Level by level its lists are
those of the tree (`HashAt`), by induction over the levels, in the form the
provers can use: a set of levels without a least counterexample. The width
halves and rounds up, so the list of `Len(s)` calls has reached one element, at
the first level that has, which is `Depth`. Appending the last hash to an odd
list changes no level above it, so that the second call finds the same root.

`RecordsInv` extends `ArrivesWhole` to the dictionaries on their way and to
what the last block must be for another to follow it: each block has the fields
of a block and no `None` where `to_dict` decodes (`Made`), a finalised one on its
way has votes, and the stored one has a hash. What a block is after `to_dict`
and `from_dict` is `Alike`: the same header but for the timestamp, which is not
packed, and transactions and votes with the same hashes and waves (`Through`).
So its own hashes stay right (`WholeAlike`). A root is not `None`, because it is
a hash or a pair (`RootIs`), which is why no conversion meets one after
`_generate_candidate` and `_generate_finalize` (`GeneratedIs`, `FinalizedIs`).
`PoolsKeep` says that a pool loses a block only to the finalised form of it, of
the same wave and candidate hash, so what was a copy stays one (`CopyStays`).

`HashesTellApart` needs no more of a state than `RecordsInv`, and two facts about
data. A hash can be read from its front as far as its fields can be told apart
(`CandidatesTell`, `VotesTell`, `TransactionsTell`): bytes are one token, and a
number ends where the next bytes begin (`NumberEnds`); value and fee follow each
other, so nothing is said of them. And lists without repetition have different
roots (`RootsTellApart`). The roots of a, b, c and of a, b, c, c are the same, so
this cannot be said of all lists. Two rows of hashes with the same row above them
are the same row (`RowsBelow`), because a row has no repetition either
(`RowsDiffer`), so that the last hash of an odd row, which is its own neighbour,
is not two elements of the other (`NoWider`); and the trees are of one height,
because the hash of a transaction is not a pair.

### Only model-checked

- Liveness (`RoundDecides`, `FinalReachesAll`, `ChainIsExecuted`, `PeersHear`),
  which is outside what the prover can do.
- `ComputesInGroup` and `RecoversSigner`: `Secp256k1` computes multiples and
  powers with recursive operators, in a module the prover cannot read; and that
  the sums of points on a curve form a group is algebra modulo a prime, far from
  what its solvers decide.

Every other property of a run that is expected to pass is a theorem.

## 5. Plan

Done, in this order: `Selection`, `LLFC`, its runs and proofs; `Ledger` and its
proofs; the pools; `Transport`; `BehaviorTree`, `MerkleTree` and the curve;
`LLFCRestart`, `Waves`, `Records`, `Profile` and `Database`; the theorems about
`Transport`, the three pools, `Storage`, `SelectionList`, `Passes`, `Waves`,
`MerkleTree` and `Records`, and of `LLFC` and `Ledger` all that their runs check but liveness.
Next:

1. What a restart of `LLFCRestart` leaves of the invariants of `LLFC`: as long
   as each node votes once per wave, the certificates stay unique.
2. What a restart keeps: a node that stores its votes before it sends them, and
   reads them when it starts, as a change to the code and to `LLFCRestart`.

## 6. Not modelled

- Signatures in the consensus: they are made, but nothing in its path checks
  them (the calls of `_is_valid` are commented out), so `LLFC` has none, and its
  messages are those that the nodes themselves make. `Ecdsa` models signing and
  verifying apart from it. The HMAC that makes the nonce, addresses and the
  encryption of the key files are left out. So is a node whose `load_keystore`
  found no key: it runs until it signs its first block.
- `Receiver.start_to_receive` and `Sender.send`, the request-and-answer pair:
  nothing uses them.
- Game logic accounts: no code creates one, and `CustomGLogic.__init__` cannot
  run.
- `DbManager.remove_db` is refused by LevelDB while the database is open, and
  `select_all` never returns what it has read. `common/dbmanager.py` does the
  same as `Database` with text keys and pickled values; its `select` names an
  exception that the library does not have.
- `NodeInfo` (`gnc.py`) has setters that assign to themselves, so no object of
  it can be made, and `peer.py` imports modules that are not there.
- `generate_assignment_root_hash` and the `verify_block` of `BlockBase`, which
  nothing calls, and two sender threads on one ZeroMQ socket, of which the library promises
  nothing.
- The logger and the start scripts: output and wiring.
- Vote weight, penalties, governance and dynamic membership are described in
  `src/README.md` and have no code.
