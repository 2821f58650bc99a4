-------------------------- MODULE ProvenanceChain --------------------------
(***************************************************************************)
(* blockchain_dpp.py: the in-memory chain behind the digital product       *)
(* passport.  FastAPI runs its endpoints on a thread pool, and             *)
(* record_event reads the tail, reads the length, mines, and appends       *)
(* without a lock.                                                         *)
(*                                                                         *)
(* SHA-256 is taken as collision-free: a hash stands for what it was       *)
(* computed from, which through previous_hash is the block and all its     *)
(* ancestors.  A hash is therefore the sequence of their contents.  The    *)
(* nonce is a function of the contents, and timestamps are left out.       *)
(***************************************************************************)
EXTENDS Naturals, Sequences

CONSTANTS
  Threads,     \* workers of the thread pool
  Products,    \* item ids
  EventTypes,  \* MANUFACTURED, SOLD, RETURNED, ...
  Imports,     \* TRUE when exported chains are imported
  Restarts,    \* TRUE when the process may restart
  MaxBlocks,   \* bound: no event is recorded on a chain, or a lineage, this long
  Genesis, Idle   \* the first block's contents; a thread without a request

ASSUME ChainAssumption ==
  /\ Imports \in BOOLEAN /\ Restarts \in BOOLEAN
  /\ MaxBlocks \in Nat

Events == [item : Products, type : EventTypes]
Contents == [index : Nat, data : Events \cup {Genesis}]
Hashes == Seq(Contents)
BlocksOf(data) == [index : Nat, data : data, prev : Hashes, hash : Hashes]
Blocks == BlocksOf(Events \cup {Genesis})

(* A call of record_event that has read the tail, and one that has also     *)
(* read the length and is mining.                                           *)
TailRead == [stage : {"tail"}, data : Events, prev : Hashes]
Mining == [stage : {"mining"}, block : BlocksOf(Events)]

ASSUME IdleAssumption == Idle \notin TailRead \cup Mining /\ Genesis \notin Events

VARIABLES
  chain,    \* self.chain
  call,     \* call[t]: the call of record_event that thread t is executing
  backup,   \* what export_chain last returned, <<>> before the first export
  torn      \* history: a chain was imported while record_event was executing

vars == <<chain, call, backup, torn>>
-----------------------------------------------------------------------------
HashOf(index, data, prev) == Append(prev, [index |-> index, data |-> data])

Sealed(index, data, prev) ==
  [index |-> index, data |-> data, prev |-> prev, hash |-> HashOf(index, data, prev)]

GenesisBlock == Sealed(0, Genesis, <<>>)

IsIntact(block) == block.hash = HashOf(block.index, block.data, block.prev)

Verifies(blocks) ==
  \A i \in 2..Len(blocks) :
    IsIntact(blocks[i]) /\ blocks[i].prev = blocks[i - 1].hash

(* The blocks of a product, by their positions; they come in chain order.   *)
ProductHistory(item) ==
  {i \in DOMAIN chain : chain[i].index # 0 /\ chain[i].data.item = item}

(* mutant: the position of the tail, counted from 0 *)
NextIndexOfTail(blocks) == Len(blocks) - 1

NextIndex(blocks) == Len(blocks)

TailHash(blocks) == blocks[Len(blocks)].hash
-----------------------------------------------------------------------------
Init ==
  /\ chain = <<GenesisBlock>>
  /\ call = [t \in Threads |-> Idle]
  /\ backup = <<>>
  /\ torn = FALSE

HasRoom == Len(chain) < MaxBlocks /\ Len(TailHash(chain)) < MaxBlocks

ReadTail(t, event) ==
  /\ call[t] = Idle
  /\ HasRoom
  /\ call' = [call EXCEPT ![t] = [stage |-> "tail", data |-> event, prev |-> TailHash(chain)]]
  /\ UNCHANGED <<chain, backup, torn>>

ReadLength(t) ==
  /\ call[t] # Idle /\ call[t].stage = "tail"
  /\ call' = [call EXCEPT
                ![t] = [stage |-> "mining",
                        block |-> Sealed(NextIndex(chain), call[t].data, call[t].prev)]]
  /\ UNCHANGED <<chain, backup, torn>>

(* mutant: the block is stored at its index *)
AppendBlockAtIndex(t) ==
  /\ call[t] # Idle /\ call[t].stage = "mining"
  /\ chain' = Append(SubSeq(chain, 1, call[t].block.index), call[t].block)
  /\ call' = [call EXCEPT ![t] = Idle]
  /\ UNCHANGED <<backup, torn>>

(* list.append is atomic. *)
AppendBlock(t) ==
  /\ call[t] # Idle /\ call[t].stage = "mining"
  /\ chain' = Append(chain, call[t].block)
  /\ call' = [call EXCEPT ![t] = Idle]
  /\ UNCHANGED <<backup, torn>>

ExportChain ==
  /\ backup' = chain
  /\ UNCHANGED <<chain, call, torn>>

(* A chain that does not verify is refused. *)
ImportChain(t) ==
  /\ Imports /\ backup # <<>>
  /\ call[t] = Idle
  /\ Verifies(backup)
  /\ chain' = backup
  /\ torn' = (torn \/ \E u \in Threads : call[u] # Idle)
  /\ UNCHANGED <<call, backup>>

(* mutant: the new process starts without a genesis block *)
RestartEmpty ==
  /\ Restarts
  /\ chain' = <<>>
  /\ call' = [t \in Threads |-> Idle]
  /\ UNCHANGED <<backup, torn>>

Restart ==
  /\ Restarts
  /\ chain' = <<GenesisBlock>>
  /\ call' = [t \in Threads |-> Idle]
  /\ UNCHANGED <<backup, torn>>

Next ==
  \/ \E t \in Threads :
       \/ \E event \in Events : ReadTail(t, event)
       \/ ReadLength(t)
       \/ AppendBlock(t)
       \/ ImportChain(t)
  \/ ExportChain
  \/ Restart

Spec == Init /\ [][Next]_vars
-----------------------------------------------------------------------------
(* Every variable holds a value of its type, and the chain is never empty.  *)
TypeOK ==
  /\ chain \in Seq(Blocks) /\ chain # <<>>
  /\ call \in [Threads -> TailRead \cup Mining \cup {Idle}]
  /\ backup \in Seq(Blocks)
  /\ torn \in BOOLEAN

(* Threads that overlap fork the chain but do not corrupt it: each block    *)
(* hangs, by its previous_hash, on a block that precedes it in the chain    *)
(* and has a smaller index, and no index runs ahead of the chain.  Exports, *)
(* imports and restarts keep that, unless a chain was imported while        *)
(* record_event was executing.                                              *)
HangsOn(blocks, i, j) ==
  /\ blocks[i].prev = blocks[j].hash
  /\ blocks[j].index < blocks[i].index

IsTree(blocks) ==
  \A i \in 2..Len(blocks) :
    /\ IsIntact(blocks[i]) /\ blocks[i].index < i
    /\ \E j \in 1..(i - 1) : HangsOn(blocks, i, j)

LineageSound == ~torn => IsTree(chain)

(* get_product_history skips blocks of index 0 and still shows every event  *)
(* that was recorded for the product.                                       *)
HistoriesComplete ==
  \A item \in Products :
    ProductHistory(item) = {i \in 2..Len(chain) : chain[i].data.item = item}

(* Without overlap the chain always verifies, restarts and imports of       *)
(* exported chains included.                                                *)
ChainVerifies == Verifies(chain)

(* The log of events that the chain carries. *)
LogOf(blocks) ==
  IF blocks = <<>> THEN <<>> ELSE [i \in 1..(Len(blocks) - 1) |-> blocks[i + 1].data]

Log == INSTANCE ProvenanceLog
         WITH log <- LogOf(chain), backup <- LogOf(backup)

(* Overlap and all, the events form an append-only log.                     *)
ImplementsLog == Log!Spec

(* GET /api/v1/blockchain/verify-integrity answers whether the chain        *)
(* "hasn't been tampered with": a chain that only record_event wrote        *)
(* verifies.                                                                *)
UntamperedVerifies == Verifies(chain)
=============================================================================
