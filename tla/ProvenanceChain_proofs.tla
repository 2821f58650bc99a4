---------------------- MODULE ProvenanceChain_proofs ----------------------
(***************************************************************************)
(* Proofs about ProvenanceChain, for every set of threads, products and    *)
(* event types.                                                            *)
(***************************************************************************)
EXTENDS ProvenanceChain, TLAPS

LEMMA SealedBlock ==
  ASSUME NEW index \in Nat, NEW data \in Events \cup {Genesis}, NEW prev \in Hashes
  PROVE  /\ Sealed(index, data, prev) \in Blocks
         /\ data \in Events => Sealed(index, data, prev) \in BlocksOf(Events)
         /\ Sealed(index, data, prev).index = index
         /\ Sealed(index, data, prev).data = data
         /\ Sealed(index, data, prev).prev = prev
         /\ IsIntact(Sealed(index, data, prev))
<1>1. [index |-> index, data |-> data] \in Contents
  BY DEF Contents
<1>2. HashOf(index, data, prev) \in Hashes
  BY <1>1 DEF HashOf, Hashes
<1> QED
  BY <1>2 DEF Sealed, Blocks, BlocksOf, IsIntact

LEMMA GenesisSealed ==
  GenesisBlock \in Blocks /\ <<GenesisBlock>> \in Seq(Blocks)
<1>1. <<>> \in Hashes
  BY DEF Hashes
<1>2. GenesisBlock \in Blocks
  BY <1>1, SealedBlock DEF GenesisBlock
<1> QED
  BY <1>2

LEMMA CallKinds ==
  ASSUME TypeOK, NEW t \in Threads, call[t] # Idle
  PROVE  /\ call[t].stage = "tail" => call[t] \in TailRead
         /\ call[t].stage = "mining" => call[t] \in Mining
  BY DEF TypeOK, TailRead, Mining, Blocks, BlocksOf

LEMMA TailHashType == ASSUME TypeOK PROVE TailHash(chain) \in Hashes
<1>1. chain[Len(chain)] \in Blocks
  BY DEF TypeOK
<1> QED
  BY <1>1 DEF TailHash, Blocks, BlocksOf

LEMMA TypeInductive ==
  ASSUME TypeOK, [Next]_vars
  PROVE  TypeOK'
<1>1. ASSUME NEW t \in Threads, NEW event \in Events, ReadTail(t, event)
      PROVE  TypeOK'
  <2> DEFINE w == [stage |-> "tail", data |-> event, prev |-> TailHash(chain)]
  <2>1. w \in TailRead
    BY TailHashType DEF TailRead
  <2>2. call' = [call EXCEPT ![t] = w] /\ UNCHANGED <<chain, backup, torn>>
    BY <1>1 DEF ReadTail
  <2> HIDE DEF w
  <2> QED
    BY <2>1, <2>2 DEF TypeOK
<1>2. ASSUME NEW t \in Threads, ReadLength(t)
      PROVE  TypeOK'
  <2> DEFINE block == Sealed(NextIndex(chain), call[t].data, call[t].prev)
             w == [stage |-> "mining", block |-> block]
  <2>1. call[t] \in TailRead
    BY <1>2, CallKinds DEF ReadLength
  <2>2. NextIndex(chain) \in Nat
    BY DEF TypeOK, NextIndex
  <2>3. block \in BlocksOf(Events)
    BY <2>1, <2>2, SealedBlock DEF TailRead
  <2>4. call' = [call EXCEPT ![t] = w] /\ UNCHANGED <<chain, backup, torn>>
    BY <1>2 DEF ReadLength
  <2> HIDE DEF block
  <2>5. w \in Mining
    BY <2>3 DEF Mining, Blocks, BlocksOf
  <2> HIDE DEF w
  <2> QED
    BY <2>4, <2>5 DEF TypeOK
<1>3. ASSUME NEW t \in Threads, AppendBlock(t)
      PROVE  TypeOK'
  <2>1. call[t].block \in Blocks
    BY <1>3, CallKinds DEF AppendBlock, Mining, Blocks, BlocksOf
  <2>2. chain' = Append(chain, call[t].block) /\ UNCHANGED <<backup, torn>>
        /\ call' = [call EXCEPT ![t] = Idle]
    BY <1>3 DEF AppendBlock
  <2>3. chain' \in Seq(Blocks) /\ chain' # <<>>
    BY <2>1, <2>2 DEF TypeOK
  <2> QED
    BY <2>2, <2>3 DEF TypeOK
<1>4. ASSUME NEW t \in Threads, ImportChain(t)
      PROVE  TypeOK'
  BY <1>4 DEF ImportChain, TypeOK
<1>5. CASE ExportChain
  BY <1>5 DEF ExportChain, TypeOK
<1>6. CASE Restart
  BY <1>6, GenesisSealed DEF Restart, TypeOK
<1>7. CASE UNCHANGED vars
  BY <1>7 DEF vars, TypeOK
<1> QED
  BY <1>1, <1>2, <1>3, <1>4, <1>5, <1>6, <1>7 DEF Next

LEMMA InitType == Init => TypeOK
<1> SUFFICES ASSUME Init
             PROVE  TypeOK
  OBVIOUS
<1>1. chain \in Seq(Blocks) /\ chain # <<>>
  BY GenesisSealed DEF Init
<1>2. call \in [Threads -> TailRead \cup Mining \cup {Idle}]
  BY DEF Init
<1>3. backup \in Seq(Blocks)
  BY DEF Init
<1>4. torn \in BOOLEAN
  BY DEF Init
<1> QED
  BY <1>1, <1>2, <1>3, <1>4 DEF TypeOK

(* The chain holds blocks only and is never empty; a call holds what its    *)
(* stage has read.                                                          *)
THEOREM ChainTypeCorrect == Spec => []TypeOK
  BY InitType, TypeInductive, PTL DEF Spec
-----------------------------------------------------------------------------
(* Indices count from 0 only at the genesis block: only the first block of   *)
(* the chain, and of an export, has index 0.                                *)
Counted(blocks) ==
  /\ blocks[1].index = 0
  /\ \A i \in 2..Len(blocks) : blocks[i].index # 0

CountedInv ==
  /\ TypeOK
  /\ Counted(chain)
  /\ backup # <<>> => Counted(backup)
  /\ \A t \in Threads : call[t] # Idle /\ call[t].stage = "mining" => call[t].block.index # 0

LEMMA GenesisCounted == chain = <<GenesisBlock>> => Counted(chain)
  BY DEF Counted, GenesisBlock, Sealed

LEMMA CountedInductive ==
  ASSUME CountedInv, [Next]_vars
  PROVE  CountedInv'
<1>0. TypeOK' /\ TypeOK
  BY TypeInductive DEF CountedInv
<1>1. ASSUME NEW t \in Threads, NEW event \in Events, ReadTail(t, event)
      PROVE  CountedInv'
  <2>1. chain' = chain /\ backup' = backup /\ call'[t].stage = "tail"
        /\ \A u \in Threads \ {t} : call'[u] = call[u]
    BY <1>0, <1>1 DEF TypeOK, ReadTail
  <2> QED
    BY <1>0, <2>1 DEF CountedInv, Counted
<1>2. ASSUME NEW t \in Threads, ReadLength(t)
      PROVE  CountedInv'
  <2> DEFINE block == Sealed(Len(chain), call[t].data, call[t].prev)
  <2>1. Len(chain) # 0 /\ block.index = Len(chain)
    BY <1>0 DEF TypeOK, Sealed
  <2>2. chain' = chain /\ backup' = backup /\ call'[t].block = block
        /\ \A u \in Threads \ {t} : call'[u] = call[u]
    BY <1>0, <1>2 DEF TypeOK, ReadLength, NextIndex
  <2> HIDE DEF block
  <2> QED
    BY <1>0, <2>1, <2>2 DEF CountedInv, Counted
<1>3. ASSUME NEW t \in Threads, AppendBlock(t)
      PROVE  CountedInv'
  <2> DEFINE n == Len(chain)
             block == call[t].block
  <2>1. block \in Blocks /\ block.index # 0
    BY <1>0, <1>3, CallKinds DEF CountedInv, AppendBlock, Mining, Blocks, BlocksOf
  <2>2. chain \in Seq(Blocks) /\ n \in Nat /\ n >= 1
    BY <1>0 DEF TypeOK
  <2>3. chain' = Append(chain, block) /\ backup' = backup /\ call'[t] = Idle
        /\ \A u \in Threads \ {t} : call'[u] = call[u]
    BY <1>0, <1>3 DEF TypeOK, AppendBlock
  <2> HIDE DEF block
  <2>4. Len(chain') = n + 1 /\ chain'[n + 1] = block
        /\ \A i \in 1..n : chain'[i] = chain[i]
    BY <2>1, <2>2, <2>3
  <2>5. Counted(chain')
    BY <2>1, <2>2, <2>4 DEF CountedInv, Counted
  <2> QED
    BY <1>0, <2>3, <2>5 DEF CountedInv
<1>4. ASSUME NEW t \in Threads, ImportChain(t)
      PROVE  CountedInv'
  BY <1>0, <1>4 DEF ImportChain, CountedInv
<1>5. CASE ExportChain
  BY <1>0, <1>5 DEF ExportChain, CountedInv
<1>6. CASE Restart
  <2>1. Counted(chain)' /\ backup' = backup /\ \A t \in Threads : call'[t] = Idle
    BY <1>6 DEF Restart, Counted, GenesisBlock, Sealed
  <2> QED
    BY <1>0, <2>1 DEF CountedInv
<1>7. CASE UNCHANGED vars
  BY <1>0, <1>7 DEF vars, CountedInv, Counted
<1> QED
  BY <1>1, <1>2, <1>3, <1>4, <1>5, <1>6, <1>7 DEF Next

(* The history of a product shows every event recorded for it, whatever was  *)
(* forked, exported, imported and restarted.                                *)
THEOREM HistoriesAlwaysComplete == Spec => []HistoriesComplete
<1>1. Init => CountedInv
  BY InitType, GenesisCounted DEF Init, CountedInv
<1>2. CountedInv /\ [Next]_vars => CountedInv'
  BY CountedInductive
<1>3. CountedInv => HistoriesComplete
  BY DEF CountedInv, Counted, HistoriesComplete, ProductHistory, TypeOK
<1> QED
  BY <1>1, <1>2, <1>3, PTL DEF Spec
-----------------------------------------------------------------------------
(* Forks, but no corruption.                                                *)

(* A call's previous_hash is the hash of a block of the chain. *)
Anchored(prev, blocks, bound) ==
  \E j \in 1..Len(blocks) : prev = blocks[j].hash /\ blocks[j].index < bound

CallAnchored(w) ==
  /\ w.stage = "tail" => Anchored(w.prev, chain, Len(chain))
  /\ w.stage = "mining" =>
       /\ IsIntact(w.block)
       /\ w.block.index <= Len(chain)
       /\ Anchored(w.block.prev, chain, w.block.index)

LineageInv ==
  /\ TypeOK
  /\ chain[1].index = 0
  /\ IsTree(chain)
  /\ \A t \in Threads : call[t] # Idle => CallAnchored(call[t])

LEMMA IndexBelowPosition ==
  ASSUME LineageInv, NEW i \in 1..Len(chain)
  PROVE  chain[i].index \in Nat /\ chain[i].index < i
<1>1. chain[i] \in Blocks
  BY DEF LineageInv, TypeOK
<1>2. i = 1 \/ i \in 2..Len(chain)
  BY DEF LineageInv, TypeOK
<1> QED
  BY <1>1, <1>2 DEF LineageInv, IsTree, Blocks, BlocksOf

LEMMA ReadsKeepLineage ==
  ASSUME LineageInv, NEW t \in Threads,
         (\E event \in Events : ReadTail(t, event)) \/ ReadLength(t)
  PROVE  LineageInv'
<1>0. TypeOK'
  BY TypeInductive DEF LineageInv, Next
<1>1. chain' = chain
  BY DEF ReadTail, ReadLength
<1>2. Len(chain) \in Nat /\ Len(chain) >= 1 /\ Len(chain) \in 1..Len(chain)
  BY DEF LineageInv, TypeOK
<1>3. call'[t] # Idle => CallAnchored(call[t])'
  <2>1. CASE \E event \in Events : ReadTail(t, event)
    <3>1. call'[t].stage = "tail" /\ call'[t].prev = chain[Len(chain)].hash
      BY <2>1 DEF LineageInv, TypeOK, ReadTail, TailHash
    <3>2. Anchored(call'[t].prev, chain, Len(chain))
      BY <1>2, <3>1, IndexBelowPosition DEF Anchored
    <3> QED
      BY <1>1, <3>1, <3>2 DEF CallAnchored
  <2>2. CASE ReadLength(t)
    <3>1. call[t] \in TailRead
      BY <2>2, CallKinds DEF LineageInv, ReadLength
    <3>2. Anchored(call[t].prev, chain, Len(chain))
      BY <2>2 DEF LineageInv, ReadLength, CallAnchored
    <3> DEFINE block == Sealed(Len(chain), call[t].data, call[t].prev)
    <3>3. block.index = Len(chain) /\ block.prev = call[t].prev /\ IsIntact(block)
      BY <1>2, <3>1, SealedBlock DEF TailRead
    <3>4. call'[t].stage = "mining" /\ call'[t].block = block
      BY <2>2 DEF LineageInv, TypeOK, ReadLength, NextIndex
    <3> HIDE DEF block
    <3> QED
      BY <1>1, <1>2, <3>2, <3>3, <3>4 DEF CallAnchored
  <2> QED
    BY <2>1, <2>2
<1>4. \A u \in Threads : u # t => call'[u] = call[u]
  BY DEF LineageInv, TypeOK, ReadTail, ReadLength
<1>5. \A u \in Threads : call'[u] # Idle => CallAnchored(call[u])'
  BY <1>1, <1>3, <1>4 DEF LineageInv, CallAnchored
<1> QED
  BY <1>0, <1>1, <1>5 DEF LineageInv, IsTree

LEMMA AppendKeepsLineage ==
  ASSUME LineageInv, NEW t \in Threads, AppendBlock(t)
  PROVE  LineageInv'
<1> DEFINE n == Len(chain)
           block == call[t].block
<1>0. TypeOK'
  BY TypeInductive DEF LineageInv, Next
<1>1. block \in Blocks /\ IsIntact(block) /\ block.index <= n
      /\ Anchored(block.prev, chain, block.index)
  BY CallKinds DEF LineageInv, AppendBlock, CallAnchored, Mining, Blocks, BlocksOf
<1>2. chain \in Seq(Blocks) /\ n \in Nat /\ n >= 1
  BY DEF LineageInv, TypeOK
<1>3. chain' = Append(chain, block) /\ call' = [call EXCEPT ![t] = Idle]
  BY DEF AppendBlock
<1> HIDE DEF block
<1>4. Len(chain') = n + 1 /\ chain'[n + 1] = block
      /\ \A i \in 1..n : chain'[i] = chain[i]
  BY <1>1, <1>2, <1>3
<1>5. \A prev, bound : Anchored(prev, chain, bound) => Anchored(prev, chain', bound)
  BY <1>2, <1>4 DEF Anchored
<1>6. IsTree(chain)'
  <2> SUFFICES ASSUME NEW i \in 2..(n + 1)
               PROVE  /\ IsIntact(chain'[i]) /\ chain'[i].index < i
                      /\ \E j \in 1..(i - 1) : HangsOn(chain', i, j)
    BY <1>4 DEF IsTree
  <2>1. CASE i = n + 1
    <3>1. PICK j \in 1..n : block.prev = chain[j].hash /\ chain[j].index < block.index
      BY <1>1 DEF Anchored
    <3>2. j \in 1..(i - 1) /\ HangsOn(chain', i, j)
      BY <1>2, <1>4, <2>1, <3>1 DEF HangsOn
    <3>3. block.index \in Nat /\ block.index < i
      BY <1>1, <1>2, <2>1 DEF Blocks, BlocksOf
    <3> QED
      BY <1>1, <1>4, <2>1, <3>2, <3>3
  <2>2. CASE i # n + 1
    <3>1. i \in 2..n /\ chain'[i] = chain[i]
      BY <1>2, <1>4, <2>2
    <3>2. PICK j \in 1..(i - 1) : HangsOn(chain, i, j)
      BY <3>1 DEF LineageInv, IsTree
    <3>3. chain'[j] = chain[j]
      BY <1>2, <1>4, <3>1, <3>2
    <3> QED
      BY <3>1, <3>2, <3>3 DEF LineageInv, IsTree, HangsOn
  <2> QED
    BY <2>1, <2>2
<1>7. \A u \in Threads : call'[u] # Idle => call'[u] = call[u] /\ CallAnchored(call[u])
  BY <1>3 DEF LineageInv, TypeOK
<1>8. \A u \in Threads : call'[u] # Idle => CallAnchored(call[u])'
  <2> SUFFICES ASSUME NEW u \in Threads, call'[u] # Idle
               PROVE  CallAnchored(call[u])'
    OBVIOUS
  <2>1. call'[u] = call[u] /\ CallAnchored(call[u])
    BY <1>7
  <2>2. ASSUME call[u].stage = "mining"
        PROVE  call[u].block.index <= n + 1
    <3>1. call[u] # Idle
      BY <2>1
    <3>2. call[u].block.index \in Nat /\ call[u].block.index <= n
      BY <2>1, <2>2, <3>1, CallKinds DEF LineageInv, CallAnchored, Mining, Blocks, BlocksOf
    <3> QED
      BY <1>2, <3>2
  <2>3. ASSUME call[u].stage = "tail"
        PROVE  Anchored(call[u].prev, chain', n + 1)
    <3>1. PICK j \in 1..n : call[u].prev = chain[j].hash /\ chain[j].index < n
      BY <2>1, <2>3 DEF CallAnchored, Anchored
    <3>2. chain[j].index \in Nat
      BY IndexBelowPosition
    <3> QED
      BY <1>2, <1>4, <3>1, <3>2 DEF Anchored
  <2> QED
    BY <1>4, <1>5, <2>1, <2>2, <2>3 DEF CallAnchored
<1>9. chain'[1].index = 0
  BY <1>2, <1>4 DEF LineageInv
<1> QED
  BY <1>0, <1>6, <1>8, <1>9 DEF LineageInv

LEMMA GenesisLineage ==
  ASSUME chain = <<GenesisBlock>>, call = [t \in Threads |-> Idle], TypeOK
  PROVE  LineageInv
<1>1. GenesisBlock.index = 0
  BY DEF GenesisBlock, Sealed
<1> QED
  BY <1>1 DEF LineageInv, IsTree

(* As long as no import got in the way, the chain and the last export are   *)
(* trees.                                                                   *)
BackupInv == backup # <<>> => backup[1].index = 0 /\ IsTree(backup)

UntornInv == TypeOK /\ (~torn => LineageInv /\ BackupInv)

LEMMA UntornInductive ==
  ASSUME UntornInv, [Next]_vars
  PROVE  UntornInv'
<1>1. TypeOK'
  BY TypeInductive DEF UntornInv
<1>2. torn => torn'
  BY DEF UntornInv, TypeOK, Next, vars, ReadTail, ReadLength, AppendBlock, ImportChain,
         ExportChain, Restart
<1> SUFFICES ASSUME ~torn, ~torn', LineageInv, BackupInv
             PROVE  (LineageInv /\ BackupInv)'
  BY <1>1, <1>2 DEF UntornInv
<1>3. ASSUME NEW t \in Threads, (\E event \in Events : ReadTail(t, event)) \/ ReadLength(t)
      PROVE  (LineageInv /\ BackupInv)'
  <2>1. backup' = backup
    BY <1>3 DEF ReadTail, ReadLength
  <2> QED
    BY <1>3, <2>1, ReadsKeepLineage DEF BackupInv, IsTree
<1>4. ASSUME NEW t \in Threads, AppendBlock(t)
      PROVE  (LineageInv /\ BackupInv)'
  <2>1. backup' = backup
    BY <1>4 DEF AppendBlock
  <2> QED
    BY <1>4, <2>1, AppendKeepsLineage DEF BackupInv, IsTree
<1>5. ASSUME NEW t \in Threads, ImportChain(t)
      PROVE  (LineageInv /\ BackupInv)'
  <2>1. chain' = backup /\ backup' = backup /\ backup # <<>> /\ call' = call
    BY <1>5 DEF ImportChain
  <2>2. \A u \in Threads : call[u] = Idle
    BY <1>5 DEF ImportChain
  <2> QED
    BY <1>1, <2>1, <2>2 DEF LineageInv, BackupInv, IsTree
<1>6. CASE ExportChain
  BY <1>1, <1>6 DEF ExportChain, LineageInv, BackupInv, IsTree, CallAnchored
<1>7. CASE Restart
  <2>1. chain' = <<GenesisBlock>> /\ call' = [t \in Threads |-> Idle] /\ backup' = backup
    BY <1>7 DEF Restart
  <2>2. GenesisBlock.index = 0
    BY DEF GenesisBlock, Sealed
  <2> QED
    BY <1>1, <2>1, <2>2 DEF LineageInv, BackupInv, IsTree
<1>8. CASE UNCHANGED vars
  BY <1>1, <1>8 DEF vars, LineageInv, BackupInv, IsTree, CallAnchored
<1> QED
  BY <1>3, <1>4, <1>5, <1>6, <1>7, <1>8 DEF Next

(* A chain that overlapping threads forked is still a tree rooted in the    *)
(* genesis block, whatever number of threads, exports, imports and          *)
(* restarts, unless a chain was imported while record_event was executing.  *)
THEOREM LineageAlwaysSound == Spec => []LineageSound
<1>1. Init => UntornInv
  BY GenesisLineage, InitType DEF Init, UntornInv, BackupInv
<1>2. UntornInv /\ [Next]_vars => UntornInv'
  BY UntornInductive
<1>3. UntornInv => LineageSound
  BY DEF UntornInv, LineageInv, LineageSound
<1> QED
  BY <1>1, <1>2, <1>3, PTL DEF Spec
-----------------------------------------------------------------------------
(* Without overlap the chain verifies.                                      *)

(* A call's previous_hash is the hash of the tail. *)
OnTail(w) ==
  /\ w.stage = "tail" => w.prev = TailHash(chain)
  /\ w.stage = "mining" => IsIntact(w.block) /\ w.block.prev = TailHash(chain)

SerialInv ==
  /\ TypeOK
  /\ Verifies(chain)
  /\ \A t \in Threads : call[t] # Idle => OnTail(call[t])

LEMMA SerialInductive ==
  ASSUME \A t, u \in Threads : t = u, SerialInv, [Next]_vars
  PROVE  SerialInv'
<1>0. TypeOK' /\ TypeOK
  BY TypeInductive DEF SerialInv
<1>1. ASSUME NEW t \in Threads, NEW event \in Events, ReadTail(t, event)
      PROVE  SerialInv'
  <2>1. chain' = chain
        /\ call'[t].stage = "tail" /\ call'[t].prev = TailHash(chain)
    BY <1>0, <1>1 DEF TypeOK, ReadTail
  <2>2. \A u \in Threads : OnTail(call[u])'
    BY <2>1 DEF OnTail, TailHash
  <2> QED
    BY <1>0, <2>1, <2>2 DEF SerialInv
<1>2. ASSUME NEW t \in Threads, ReadLength(t)
      PROVE  SerialInv'
  <2> DEFINE block == Sealed(Len(chain), call[t].data, call[t].prev)
  <2>1. call[t] \in TailRead /\ call[t].prev = TailHash(chain)
    BY <1>0, <1>2, CallKinds DEF SerialInv, OnTail, ReadLength
  <2>2. Len(chain) \in Nat
    BY <1>0 DEF TypeOK
  <2>3. IsIntact(block) /\ block.prev = TailHash(chain)
    BY <2>1, <2>2, SealedBlock DEF TailRead
  <2>4. chain' = chain /\ call'[t].stage = "mining" /\ call'[t].block = block
    BY <1>0, <1>2 DEF TypeOK, ReadLength, NextIndex
  <2> HIDE DEF block
  <2>5. \A u \in Threads : OnTail(call[u])'
    BY <2>3, <2>4 DEF OnTail, TailHash
  <2> QED
    BY <1>0, <2>4, <2>5 DEF SerialInv
<1>3. ASSUME NEW t \in Threads, AppendBlock(t)
      PROVE  SerialInv'
  <2> DEFINE n == Len(chain)
             block == call[t].block
  <2>1. block \in Blocks /\ IsIntact(block) /\ block.prev = chain[n].hash
    BY <1>0, <1>3, CallKinds DEF SerialInv, OnTail, AppendBlock, Mining, Blocks, BlocksOf, TailHash
  <2>2. chain \in Seq(Blocks) /\ n \in Nat /\ n >= 1
    BY <1>0 DEF TypeOK
  <2>3. chain' = Append(chain, block) /\ call'[t] = Idle
    BY <1>0, <1>3 DEF TypeOK, AppendBlock
  <2> HIDE DEF block
  <2>4. Len(chain') = n + 1 /\ chain'[n + 1] = block
        /\ \A i \in 1..n : chain'[i] = chain[i]
    BY <2>1, <2>2, <2>3
  <2>5. \A i \in 2..(n + 1) :
          IsIntact(chain'[i]) /\ chain'[i].prev = chain'[i - 1].hash
    <3> TAKE i \in 2..(n + 1)
    <3>1. CASE i = n + 1
      BY <2>1, <2>2, <2>4, <3>1
    <3>2. CASE i # n + 1
      <4>1. i \in 2..n /\ i \in 1..n /\ i - 1 \in 1..n
        BY <2>2, <3>2
      <4> QED
        BY <2>4, <4>1 DEF SerialInv, Verifies
    <3> QED
      BY <3>1, <3>2
  <2>6. \A u \in Threads : call'[u] = Idle
    BY <2>3
  <2> QED
    BY <1>0, <2>4, <2>5, <2>6 DEF SerialInv, Verifies
<1>4. ASSUME NEW t \in Threads, ImportChain(t)
      PROVE  SerialInv'
  <2>1. Verifies(chain)' /\ \A u \in Threads : call'[u] = Idle
    BY <1>4 DEF ImportChain, Verifies
  <2> QED
    BY <1>0, <2>1 DEF SerialInv
<1>5. CASE Restart
  BY <1>0, <1>5 DEF Restart, SerialInv, Verifies
<1>6. CASE UNCHANGED <<chain, call>>
  BY <1>0, <1>6 DEF SerialInv, Verifies, OnTail, TailHash
<1> QED
  BY <1>1, <1>2, <1>3, <1>4, <1>5, <1>6 DEF Next, vars, ExportChain

(* A chain written by one thread at a time verifies, whatever was exported, *)
(* imported and restarted in between.                                       *)
THEOREM SerialChainVerifies ==
  ASSUME \A t, u \in Threads : t = u
  PROVE  Spec => []ChainVerifies
<1>1. Init => SerialInv
  BY InitType DEF Init, SerialInv, Verifies
<1>2. SerialInv /\ [Next]_vars => SerialInv'
  BY SerialInductive
<1>3. SerialInv => ChainVerifies
  BY DEF SerialInv, ChainVerifies
<1> QED
  BY <1>1, <1>2, <1>3, PTL DEF Spec
-----------------------------------------------------------------------------
(* Refinement of the log.                                                   *)

LEMMA SequenceAsFunction ==
  ASSUME NEW S, NEW s \in Seq(S), NEW n, Len(s) = n
  PROVE  s = [i \in 1..n |-> s[i]]
  OBVIOUS

LEMMA LogOfAppend ==
  ASSUME TypeOK, NEW block \in Blocks
  PROVE  LogOf(Append(chain, block)) = Append(LogOf(chain), block.data)
<1> DEFINE n == Len(chain)
           longer == Append(chain, block)
<1>1. chain \in Seq(Blocks) /\ n \in Nat /\ n >= 1 /\ chain # <<>>
  BY DEF TypeOK
<1>2. /\ longer # <<>> /\ Len(longer) = n + 1 /\ longer[n + 1] = block
      /\ \A i \in 1..n : longer[i] = chain[i]
  BY <1>1
<1> DEFINE old == [i \in 1..(n - 1) |-> chain[i + 1].data]
           new == [i \in 1..n |-> longer[i + 1].data]
           data == {block.data} \cup {chain[i].data : i \in 1..n}
<1>3. LogOf(chain) = old /\ LogOf(longer) = new
  BY <1>1, <1>2 DEF LogOf
<1>4. \A i \in 1..(n - 1) : i + 1 \in 1..n /\ i \in 1..n
  BY <1>1
<1>5. old \in Seq(data) /\ Len(old) = n - 1
  BY <1>1, <1>4
<1>6. block.data \in data
  OBVIOUS
<1> HIDE DEF data, longer
<1>7. /\ Append(old, block.data) \in Seq(data) /\ Len(Append(old, block.data)) = n
      /\ Append(old, block.data)[n] = block.data
      /\ \A i \in 1..(n - 1) : Append(old, block.data)[i] = old[i]
  <2> HIDE DEF old
  <2> QED
    BY <1>1, <1>5, <1>6
<1>8. \A i \in 1..n : new[i] = Append(old, block.data)[i]
  <2> SUFFICES ASSUME NEW i \in 1..n
               PROVE  longer[i + 1].data = Append(old, block.data)[i]
    OBVIOUS
  <2>1. CASE i = n
    BY <1>2, <1>7, <2>1
  <2>2. CASE i # n
    <3>1. i \in 1..(n - 1) /\ i + 1 \in 1..n
      BY <1>1, <2>2
    <3>2. Append(old, block.data)[i] = chain[i + 1].data
      BY <1>7, <3>1
    <3> QED
      BY <1>2, <3>1, <3>2
  <2> QED
    BY <2>1, <2>2
<1>9. Append(old, block.data) = [i \in 1..n |-> Append(old, block.data)[i]]
  BY <1>7, SequenceAsFunction
<1>10. new = [i \in 1..n |-> Append(old, block.data)[i]]
  BY <1>8
<1> QED
  BY <1>3, <1>9, <1>10 DEF longer

(* Threads may overlap, chains may fork, be exported, imported and lost:    *)
(* the events still form a log that only grows, is restored from a backup,  *)
(* or starts anew.                                                          *)
THEOREM ChainImplementsLog == Spec => ImplementsLog
<1>1. LogOf(<<GenesisBlock>>) = <<>> /\ LogOf(<<>>) = <<>>
  BY GenesisSealed DEF LogOf
<1>2. Init => Log!Init
  BY <1>1 DEF Init, Log!Init
<1>3. ASSUME TypeOK, [Next]_vars
      PROVE  [Log!Next]_<<LogOf(chain), LogOf(backup)>>
  <2>1. ASSUME NEW t \in Threads, AppendBlock(t)
        PROVE  Log!Next
    <3>1. call[t].block \in Blocks /\ call[t].block.data \in Events
      BY <1>3, <2>1, CallKinds DEF AppendBlock, Mining, Blocks, BlocksOf
    <3>2. LogOf(chain)' = Append(LogOf(chain), call[t].block.data) /\ LogOf(backup)' = LogOf(backup)
      BY <1>3, <2>1, <3>1, LogOfAppend DEF AppendBlock
    <3> QED
      BY <3>1, <3>2 DEF Log!Next, Log!Record
  <2>2. CASE ExportChain
    BY <2>2 DEF ExportChain, Log!Next, Log!Export
  <2>3. ASSUME NEW t \in Threads, ImportChain(t)
        PROVE  Log!Next
    BY <2>3 DEF ImportChain, Log!Next, Log!Restore
  <2>4. CASE Restart
    BY <1>1, <2>4 DEF Restart, Log!Next, Log!Restart
  <2>5. CASE UNCHANGED <<chain, backup>>
    BY <2>5
  <2> QED
    BY <1>3, <2>1, <2>2, <2>3, <2>4, <2>5 DEF Next, vars, ReadTail, ReadLength
<1> QED
  BY <1>2, <1>3, ChainTypeCorrect, PTL DEF Spec, ImplementsLog, Log!Spec, Log!logVars
=============================================================================
