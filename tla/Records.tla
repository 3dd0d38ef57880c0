------------------------------ MODULE Records ------------------------------
(***************************************************************************)
(* Blocks, votes and transactions as objects that are packed, sent,        *)
(* unpacked, completed in place and stored: what to_dict and from_dict     *)
(* carry, and what the hashes are made of.                                 *)
(*                                                                         *)
(* An object has the keys of its dictionary for fields.  A hash is the     *)
(* text that goes into it: an integer is its digits, with nothing between  *)
(* them and the next, and bytes are one token, since str() quotes them.    *)
(* Versions are the constant 1; signatures, which nothing checks on the    *)
(* way, are left out.                                                      *)
(***************************************************************************)
EXTENDS SequencesExt, Loops

CONSTANTS
    Address,      \* the nodes, each an address_coinbase
    Empty,        \* b''
    TxLists,      \* what get_all_data_list returns: lists of transactions
    Retries,      \* retry counts
    MaxBlock,     \* bound on the height
    MaxMade       \* bound on the candidates

\* None, in the place of a text
Nothing == <<>>

IsSequence(s) == Len(s) \in Nat /\ s = [i \in 1 .. Len(s) |-> s[i]]

ASSUME BytesAssumption == Empty # Nothing /\ Nothing \notin Address

Pack(o, keys) == [k \in keys |-> o[k]]
\* What a dictionary does not carry has the value of __init__.
Unpack(d, new) ==
    [k \in DOMAIN d \cup DOMAIN new |-> IF k \in DOMAIN d THEN d[k] ELSE new[k]]

\* The digits of a number below 100, which the runs stay under.  Of a greater
\* one all the digits but the last are one token: texts that only differ in
\* where such a number ends would be told apart, and are not in the code.  The
\* fields of which HashesTellApart says that a hash has them stand next to no
\* other number.
Digits(n) == IF n < 10 THEN <<n>> ELSE <<n \div 10, n % 10>>
Text(n) == [i \in DOMAIN Digits(n) |-> <<"digit", Digits(n)[i]>>]
Bytes(b) == << <<"bytes", b>> >>

Wave(height, retry) == Text(height) \o <<"-">> \o Text(retry)

-----------------------------------------------------------------------------
(* What the dictionaries carry, and the hashes cover.                        *)

TransactionKeys == {"tx_hash", "type", "nonce", "from", "to", "value", "fee",
                    "message", "timestamp"}

TransactionHash(t) ==
    Text(1) \o <<t.type>> \o Text(t.nonce) \o Bytes(t.from) \o Bytes(t.to)
        \o Text(t.value) \o Text(t.fee) \o t.message \o Text(t.timestamp)

TransactionHashes(list) == [i \in DOMAIN list |-> TransactionHash(list[i])]

\* An engine proposes only when there are transactions.  They are the values of
\* a dictionary by the hash that each carries, here the hash of its text.
Listed(list) ==
    /\ IsSequence(list) /\ list # <<>>
    /\ \A i \in DOMAIN list : list[i].nonce \in Nat /\ IsSequence(list[i].message)
    /\ IsInjective(TransactionHashes(list))

ASSUME ListAssumption == \A list \in TxLists : Listed(list)

VoteKeys ==
    {"vote_hash", "block_height", "retry_count", "candidate_block_hash", "creator"}

VoteHash(v) ==
    Text(1) \o Text(v.block_height) \o Bytes(v.candidate_block_hash)
        \o Bytes(v.creator)

VoteWave(v) == Wave(v.block_height, v.retry_count)

\* BlockHeaderBase and BlockHeader
NewHeader ==
    [prev_hash |-> Empty, block_hash |-> Empty, height |-> 0,
     tx_root_hash |-> Empty, creator |-> Empty, retry_count |-> 0,
     candidate_block_hash |-> Empty, vote_root_hash |-> Empty,
     timestamp |-> Nothing]

\* Mutant: the retry count is not packed.
HeaderKeysNoRetry == DOMAIN NewHeader \ {"timestamp", "retry_count"}

HeaderKeys == DOMAIN NewHeader \ {"timestamp"}

\* What to_dict decodes
BytesKeys ==
    {"prev_hash", "block_hash", "tx_root_hash", "creator",
     "candidate_block_hash", "vote_root_hash"}

\* Mutant: the root of the transactions is left out.
CandidateHashAnyList(h) ==
    Bytes(h.prev_hash) \o Text(h.height) \o Bytes(h.creator)

CandidateHash(h) ==
    Bytes(h.prev_hash) \o Text(h.height) \o Bytes(h.tx_root_hash)
        \o Bytes(h.creator)

HeaderHash(h) ==
    CandidateHash(h) \o Text(1) \o Text(h.retry_count)
        \o Bytes(h.candidate_block_hash) \o Bytes(h.vote_root_hash)

HeaderWave(h) == Wave(h.height, h.retry_count)

\* BlockBase and Block
NewBlock == [header |-> NewHeader, transactions |-> <<>>, votes |-> <<>>]

ToDict(b) ==
    [header |-> Pack(b.header, HeaderKeys),
     transactions |-> [i \in DOMAIN b.transactions |->
                          Pack(b.transactions[i], TransactionKeys)],
     votes |-> [i \in DOMAIN b.votes |-> Pack(b.votes[i], VoteKeys)]]

FromDict(d) == [d EXCEPT !.header = Unpack(@, NewHeader)]

VoteHashes(list) == [i \in DOMAIN list |-> VoteHash(list[i])]

TxRoot(b) == merkleroot(TransactionHashes(b.transactions))
VoteRoot(b) == merkleroot(VoteHashes(b.votes))

AddTransactions(b, list) ==
    [b EXCEPT !.transactions = @ \o list, !.header.tx_root_hash = Nothing]
AddVotes(b, list) ==
    [b EXCEPT !.votes = @ \o list, !.header.vote_root_hash = Nothing]

\* The block of the file, whose hash is computed again before it is stored.
GenesisBlock == [NewBlock EXCEPT !.header.block_hash = HeaderHash(NewHeader)]

-----------------------------------------------------------------------------
VARIABLES
    pool,   \* the candidate blocks of each node
    votes,  \* the votes of each node
    wire,   \* the dictionaries on their way to each node
    last,   \* what is pickled under b'last'
    made,   \* counts the candidates
    raised  \* a None could not be decoded, or a hash was wrong

records == <<pool, votes, wire, last, made, raised>>

RecordsInit ==
    /\ pool = [n \in Address |-> {}]
    /\ votes = [n \in Address |-> <<>>]
    /\ wire = [n \in Address |-> {}]
    /\ last = [n \in Address |-> ToDict(GenesisBlock)]
    /\ made = 0
    /\ raised = FALSE

\* get_last_block
LastHeader(n) == FromDict(last[n]).header
IsNext(n, b) == b.header.height = LastHeader(n).height + 1

\* sendall of a block; a None in the header cannot be decoded.
SendBlock(type, b, to) ==
    LET packs == Nothing \notin {b.header[k] : k \in BytesKeys}
    IN  /\ raised' = ~packs
        /\ wire' = [n \in Address |->
                       IF n \in to /\ packs THEN wire[n] \cup {<<type, ToDict(b)>>}
                                            ELSE wire[n]]

Takes(n, type, d) ==
    <<type, d>> \in wire[n] /\ wire' = [wire EXCEPT ![n] = @ \ {<<type, d>>}]

\* _generate_candidate
GenerateCandidate(n, retry, list) ==
    LET new == [NewBlock EXCEPT !.header.prev_hash = LastHeader(n).block_hash,
                                !.header.height = LastHeader(n).height + 1,
                                !.header.creator = n,
                                !.header.retry_count = retry]
        full == AddTransactions(new, list)
        rooted == [full EXCEPT !.header.tx_root_hash = TxRoot(full)]
    IN  [rooted EXCEPT
            !.header.candidate_block_hash = CandidateHash(rooted.header)]

CreateCandidate(n, retry, list) ==
    LET b == GenerateCandidate(n, retry, list)
    IN  /\ made < MaxMade /\ made' = made + 1
        /\ b.header.height <= MaxBlock
        /\ pool' = [pool EXCEPT ![n] = @ \cup {b}]
        /\ SendBlock("candidate", b, Address \ {n})
        /\ UNCHANGED <<votes, last>>

ReceiveCandidate(n, d) ==
    /\ Takes(n, "candidate", d)
    /\ pool' = [pool EXCEPT ![n] = @ \cup {FromDict(d)}]
    /\ UNCHANGED <<votes, last, made, raised>>

\* create_vote, once per wave
CreateVote(n, b) ==
    LET blank == [vote_hash |-> Empty, block_height |-> b.header.height,
                  retry_count |-> b.header.retry_count, creator |-> n,
                  candidate_block_hash |-> b.header.candidate_block_hash]
        v == [blank EXCEPT !.vote_hash = VoteHash(blank)]
    IN  /\ IsNext(n, b)
        /\ \A w \in ToSet(votes[n]) : w.creator = n => VoteWave(w) # VoteWave(v)
        /\ votes' = [votes EXCEPT ![n] = Append(@, v)]
        /\ wire' = [m \in Address |->
                       IF m = n THEN wire[m]
                                ELSE wire[m] \cup {<<"vote", Pack(v, VoteKeys)>>}]
        /\ UNCHANGED <<pool, last, made, raised>>

ReceiveVote(n, d) ==
    /\ Takes(n, "vote", d)
    /\ votes' = [votes EXCEPT ![n] = Append(@, d)]
    /\ UNCHANGED <<pool, last, made, raised>>

\* _generate_finalize, on the object in the pool
GenerateFinalize(n, b) ==
    LET inWave == {v \in ToSet(votes[n]) :
                      /\ VoteWave(v) = HeaderWave(b.header)
                      /\ v.candidate_block_hash = b.header.candidate_block_hash}
        full == AddVotes(b, Kept(votes[n], inWave))
        rooted == [full EXCEPT !.header.vote_root_hash = VoteRoot(full)]
    IN  [rooted EXCEPT !.header.block_hash = HeaderHash(rooted.header)]

\* create_finalize_block once all have voted for b: the BlockChain of the node
\* gets the same text as those of the others.
CreateFinalize(n, b) ==
    LET f == GenerateFinalize(n, b)
    IN  /\ IsNext(n, b) /\ b.header.creator = n /\ b.votes = <<>>
        /\ \A m \in Address : \E v \in ToSet(votes[n]) :
               /\ v.creator = m /\ VoteWave(v) = HeaderWave(b.header)
               /\ v.candidate_block_hash = b.header.candidate_block_hash
        /\ pool' = [pool EXCEPT ![n] = (@ \ {b}) \cup {f}]
        /\ SendBlock("finalize", f, Address)
        /\ UNCHANGED <<votes, last, made>>

\* BlockChain.finalize of a block that extends the chain: the check of its
\* hash, to_raw and the write
Finalize(n, d) ==
    LET b == FromDict(d)
    IN  /\ Takes(n, "finalize", d)
        /\ IsNext(n, b)
        /\ b.header.prev_hash = LastHeader(n).block_hash
        /\ raised' = (HeaderHash(b.header) # b.header.block_hash)
        /\ last' = IF raised' THEN last ELSE [last EXCEPT ![n] = ToDict(b)]
        /\ UNCHANGED <<pool, votes, made>>

RecordsNext ==
    /\ ~raised
    /\ \E n \in Address :
        \/ \E retry \in Retries, list \in TxLists : CreateCandidate(n, retry, list)
        \/ \E b \in pool[n] : CreateVote(n, b) \/ CreateFinalize(n, b)
        \/ \E p \in wire[n] :
               \/ ReceiveCandidate(n, p[2])
               \/ ReceiveVote(n, p[2])
               \/ Finalize(n, p[2])

RecordsSpec == RecordsInit /\ [][RecordsNext]_records

-----------------------------------------------------------------------------
Blocks ==
    (UNION {pool[n] : n \in Address})
        \cup {FromDict(last[n]) : n \in {m \in Address : last[m].header.height > 0}}
Votes == UNION {ToSet(votes[n]) : n \in Address}
Transactions == UNION {ToSet(b.transactions) : b \in Blocks}

\* The hashes a block carries are those of what it consists of now.
Whole(b) ==
    /\ b.header.candidate_block_hash = CandidateHash(b.header)
    /\ b.header.tx_root_hash = TxRoot(b)
    /\ ToSet(b.votes) # {} =>
           /\ b.header.block_hash = HeaderHash(b.header)
           /\ b.header.vote_root_hash = VoteRoot(b)
           /\ \A v \in ToSet(b.votes) : VoteWave(v) = HeaderWave(b.header)

\* b is, but for what completed it since, a block of its creator.
IsCopy(b) ==
    \E c \in pool[b.header.creator] :
        /\ HeaderWave(c.header) = HeaderWave(b.header)
        /\ c.header.candidate_block_hash = b.header.candidate_block_hash

(* What has been packed, sent, completed in place, stored and unpacked still *)
(* hashes to the hashes it carries, its transactions and votes included, and *)
(* is in the wave it was made in, which the candidate hash does not cover;   *)
(* no conversion meets a root that is None, and no chain refuses a block for *)
(* its hash.                                                                 *)
ArrivesWhole ==
    /\ ~raised
    /\ \A b \in Blocks : Whole(b) /\ IsCopy(b)
    /\ \A v \in Votes : v.vote_hash = VoteHash(v)

(* Objects of one hash agree in what the engines take the hash for: blocks   *)
(* in their place in the chain, creator and transactions, votes in height,   *)
(* candidate and voter, transactions in nonce, sender and recipient.  They   *)
(* may differ in the retry count, and in value and fee, whose digits run     *)
(* into each other.                                                          *)
HashesTellApart ==
    /\ \A b, c \in Blocks :
        b.header.candidate_block_hash = c.header.candidate_block_hash =>
            /\ b.header.height = c.header.height
            /\ b.header.prev_hash = c.header.prev_hash
            /\ b.header.creator = c.header.creator
            /\ TransactionHashes(b.transactions)
                   = TransactionHashes(c.transactions)
    /\ \A v, w \in Votes :
        v.vote_hash = w.vote_hash =>
            /\ v.block_height = w.block_height
            /\ v.candidate_block_hash = w.candidate_block_hash
            /\ v.creator = w.creator
    /\ \A s, t \in Transactions :
        TransactionHash(s) = TransactionHash(t) =>
            s.nonce = t.nonce /\ s.from = t.from /\ s.to = t.to
=============================================================================
