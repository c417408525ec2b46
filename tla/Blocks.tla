------------------------------- MODULE Blocks -------------------------------
(***************************************************************************)
(* Blocks, their headers and their validation (curvetime/core/block.py).   *)
(*                                                                         *)
(* A block is named by its hash: Block is the set of block hashes that can *)
(* occur, and header[b], body[b] are the fields and the transactions under *)
(* the hash b.  Simplifications, of data only:                             *)
(*   - header[b].work is int(block_hash, 16), on HashBits bits instead of  *)
(*     256;                                                                *)
(*   - header[b].rootOk says whether the header's merkle_root is the root  *)
(*     of the body (calculate_merkle_root).                                *)
(*   - body[b] is the one body under the hash b.  A hash allows others,     *)
(*     with the last transactions repeated (Candidate); while one is stored  *)
(*     its height is taken and no other can be.                              *)
(*   - double SHA-256 is taken to be injective, and Block.deserialize, which *)
(*     the repository does not have, to return the block whose compute_hash  *)
(*     is its block_hash.                                                    *)
(* TransactionValidator, imported by block.py from transaction.py, is not  *)
(* in the repository: ValidTx is the set of transactions it accepts.       *)
(***************************************************************************)
EXTENDS Integers, Sequences

CONSTANTS
    Tx,        \* transaction hashes
    ValidTx,   \* those TransactionValidator.validate accepts
    Block,     \* block hashes
    Genesis,   \* the blocks create_genesis_block can return, one per second
    NoBlock,   \* Python's None, and the previous hash "0" * 64 of a genesis
    HashBits,  \* width of a hash: 256 in the code
    header,    \* the header under each block hash
    body       \* the transactions under each block hash

Header == [prev : Block \cup {NoBlock}, height : Nat, bits : Nat,
           work : Nat, rootOk : BOOLEAN]

ASSUME BlocksAssumption ==
    /\ ValidTx \subseteq Tx
    /\ Genesis \subseteq Block /\ Genesis # {}
    /\ NoBlock \notin Block \cup Tx
    /\ HashBits \in Nat
    /\ header \in [Block -> Header]
    /\ body \in [Block -> Seq(Tx)]

\* Block.create_genesis_block: height 0, no predecessor, bits = 0x1d00ffff
\* (far above the 256 bits of a hash) and a coinbase as only transaction.
\* The timestamp, hence the hash, is the second the node first started.
IsGenesis(g) ==
    /\ header[g].prev = NoBlock
    /\ header[g].height = 0
    /\ header[g].bits >= HashBits
    /\ header[g].rootOk
    /\ Len(body[g]) = 1

ASSUME GenesisAssumption == \A g \in Genesis : IsGenesis(g)

\* The PoW target of validate_pow: `bits` counts leading zero bits.
Target(bits) == IF bits < HashBits THEN 2 ^ (HashBits - bits) ELSE 1

ValidatePow(b, bits) == header[b].work < Target(bits)

TxsOf(b) == {body[b][i] : i \in DOMAIN body[b]}

\* What validate checks of the block alone, given the target it is held to.
ContentValid(b, bits) ==
    /\ ValidatePow(b, bits)
    /\ header[b].rootOk
    /\ TxsOf(b) \subseteq ValidTx

\* Block.validate
Validate(b, prevHash, prevHeight, bits) ==
    /\ header[b].prev = prevHash
    /\ header[b].height = prevHeight + 1
    /\ ContentValid(b, bits)
=============================================================================
