-------------------------- MODULE ChainStoreProofs --------------------------
(***************************************************************************)
(* Proofs about ChainStore, for every tree of blocks, every number of      *)
(* faults and every width of a hash.                                       *)
(*                                                                         *)
(* What the code maintains is a property of the log of puts, Good, all of  *)
(* whose conditions look from a put to earlier ones only.  A prefix of a   *)
(* good log is therefore good, which is why a crash or a failed write does *)
(* no harm; and put_block of an accepted block extends a good log to a     *)
(* good one.                                                               *)
(***************************************************************************)
EXTENDS ChainStore, TLAPS, SequenceTheorems, WellFoundedInduction,
        Functions, FiniteSetTheorems

IsH(l, i) == i \in DOMAIN l /\ l[i].ns = "H"

\* A height key leads to a block that was stored before it.
Backed(l) ==
    \A i \in DOMAIN l : l[i].ns = "H" =>
        /\ l[i].id = header[l[i].val].height
        /\ \E j \in 1 .. i - 1 : l[j].ns = "B" /\ l[j].id = l[i].val

\* Heights are written in increasing order, hence each only once.
Ascending(l) ==
    \A i, j \in DOMAIN l :
        l[i].ns = "H" /\ l[j].ns = "H" /\ i < j => l[i].id < l[j].id

\* The heights below are there, and the one just below holds the previous
\* block.
Linked(l) ==
    \A i \in DOMAIN l : l[i].ns = "H" =>
        /\ l[i].id = 0 => l[i].val \in Genesis
        /\ l[i].id > 0 =>
              /\ ContentValid(l[i].val, header[l[i].val].bits)
              /\ \E j \in 1 .. i - 1 : /\ l[j].ns = "H"
                                       /\ l[j].id = l[i].id - 1
                                       /\ l[j].val = header[l[i].val].prev
        /\ \A k \in 0 .. l[i].id - 1 :
              \E j \in 1 .. i - 1 : l[j].ns = "H" /\ l[j].id = k

\* A transaction is indexed after a height of a block that contains it.
Indexed(l) ==
    \A i \in DOMAIN l : l[i].ns = "T" =>
        \E j \in 1 .. i - 1 : l[j].ns = "H" /\ l[i].id \in TxsOf(l[j].val)

\* Every transaction of a block with a height is indexed.
Complete(l) ==
    \A i \in DOMAIN l : l[i].ns = "H" =>
        \A t \in TxsOf(l[i].val) : \E j \in DOMAIN l : l[j].ns = "T" /\ l[j].id = t

Good(l) ==
    /\ l \in Seq(Entry)
    /\ \A i \in DOMAIN l : l[i].ns \in {"B", "T"} => l[i].val = l[i].id
    /\ Backed(l)
    /\ Ascending(l)
    /\ Linked(l)
    /\ Indexed(l)

\* The inductive invariant.
IInv ==
    /\ TypeOK
    /\ Good(log)
    /\ up => Heights(log) # {}

\* b is what _init_genesis or add_block may store next.
Attaches(l, b) ==
    \/ b \in Genesis /\ Heights(l) = {}
    \/ /\ ContentValid(b, header[b].bits)
       /\ \E j \in DOMAIN l : /\ l[j].ns = "H"
                              /\ header[b].height = l[j].id + 1
                              /\ header[b].prev = l[j].val
                              /\ \A i \in DOMAIN l : l[i].ns = "H" => l[i].id <= l[j].id

-----------------------------------------------------------------------------
(* Maxima and sequences *)

LEMMA MaxOfInterval ==
    ASSUME NEW n \in Nat, NEW S, S \subseteq 1 .. n, S # {}
    PROVE  Max(S) \in S /\ \A y \in S : y <= Max(S)
<1> DEFINE T == {n - k : k \in S}
<1>1. T \subseteq Nat /\ T # {}
  <2>1. \A k \in S : k \in 1 .. n
    OBVIOUS
  <2>2. \A k \in S : n - k \in Nat
    BY <2>1
  <2>3. PICK k \in S : TRUE
    OBVIOUS
  <2>4. n - k \in T
    OBVIOUS
  <2> QED BY <2>2, <2>4
<1>2. PICK x \in T : \A y \in T : ~(<<y, x>> \in OpToRel(<, Nat))
  BY <1>1, NatLessThanWellFounded, WFMin
<1>3. \A y \in T : ~(y < x)
  BY <1>1, <1>2 DEF OpToRel
<1>4. PICK m \in S : x = n - m
  OBVIOUS
<1>5. \A y \in S : m >= y
  <2> TAKE y \in S
  <2>1. n - y \in T
    OBVIOUS
  <2> QED BY <2>1, <1>3, <1>4
<1>6. \E z \in S : \A y \in S : z >= y
  BY <1>4, <1>5
<1>7. Max(S) \in S /\ \A y \in S : Max(S) >= y
  BY <1>6 DEF Max
<1> QED BY <1>7

LEMMA MaxUnique ==
    ASSUME NEW S, S \subseteq Int, NEW m \in S, \A y \in S : y <= m
    PROVE  Max(S) = m
<1>1. \A y \in S : m >= y
  OBVIOUS
<1>2. Max(S) \in S /\ \A y \in S : Max(S) >= y
  BY <1>1 DEF Max
<1>3. Max(S) >= m /\ m >= Max(S) /\ Max(S) \in Int /\ m \in Int
  BY <1>1, <1>2
<1> QED BY <1>3

\* What put_block writes: the block, its height, then transactions of it.
LEMMA PutBlockShape ==
    ASSUME NEW b \in Block
    PROVE  /\ PutBlock(b) \in Seq(Entry)
           /\ Len(PutBlock(b)) = 2 + Len(body[b])
           /\ Len(body[b]) \in Nat
           /\ PutBlock(b)[1] = BlockPut(b)
           /\ PutBlock(b)[2] = HeightPut(b)
           /\ \A k \in 3 .. Len(PutBlock(b)) :
                 \E t \in TxsOf(b) : PutBlock(b)[k] = TxPut(t)
<1> DEFINE heads == <<BlockPut(b), HeightPut(b)>>
           txs == [i \in 1 .. Len(body[b]) |-> TxPut(body[b][i])]
<1>1. body[b] \in Seq(Tx) /\ header[b].height \in Nat
  BY BlocksAssumption DEF Header
<1>2. BlockPut(b) \in Entry /\ HeightPut(b) \in Entry
  BY <1>1 DEF BlockPut, HeightPut, Put, Entry
<1>3. heads \in Seq(Entry) /\ Len(heads) = 2 /\ heads[1] = BlockPut(b) /\ heads[2] = HeightPut(b)
  BY <1>2
<1>4. \A i \in 1 .. Len(body[b]) : body[b][i] \in Tx /\ TxPut(body[b][i]) \in Entry
  BY <1>1 DEF TxPut, Put, Entry
<1>5. txs \in Seq(Entry) /\ Len(txs) = Len(body[b]) /\ \A i \in 1 .. Len(body[b]) : txs[i] = TxPut(body[b][i])
  BY <1>1, <1>4
<1>6. PutBlock(b) = heads \o txs
  BY DEF PutBlock
<1> HIDE DEF heads, txs
<1>7. /\ PutBlock(b) \in Seq(Entry)
      /\ Len(PutBlock(b)) = 2 + Len(body[b])
      /\ \A i \in 1 .. 2 + Len(body[b]) :
            PutBlock(b)[i] = IF i <= 2 THEN heads[i] ELSE txs[i - 2]
  <2>1. /\ heads \o txs \in Seq(Entry)
        /\ Len(heads \o txs) = Len(heads) + Len(txs)
        /\ \A i \in 1 .. Len(heads) + Len(txs) : (heads \o txs)[i] =
                 IF i <= Len(heads) THEN heads[i] ELSE txs[i - Len(heads)]
    <3>1. heads \in Seq(Entry) /\ txs \in Seq(Entry)
      BY <1>3, <1>5
    <3> QED BY <3>1, ConcatProperties
  <2> QED BY <2>1, <1>3, <1>5, <1>6
<1>8. ASSUME NEW k \in 3 .. Len(PutBlock(b))
      PROVE  \E t \in TxsOf(b) : PutBlock(b)[k] = TxPut(t)
  <2>1. k - 2 \in 1 .. Len(body[b])
    BY <1>1, <1>7
  <2>2. body[b][k - 2] \in TxsOf(b)
    BY <1>1, <2>1 DEF TxsOf
  <2>3. PutBlock(b)[k] = txs[k - 2]
    BY <1>7
  <2>4. txs[k - 2] = TxPut(body[b][k - 2])
    BY <1>5, <2>1
  <2> QED BY <2>2, <2>3, <2>4
<1> QED BY <1>1, <1>3, <1>7, <1>8

LEMMA EntryFacts ==
    ASSUME NEW l \in Seq(Entry)
    PROVE  /\ Len(l) \in Nat /\ DOMAIN l = 1 .. Len(l)
           /\ \A i \in DOMAIN l :
                 /\ l[i].ns = "B" => l[i].id \in Block /\ l[i].val \in Block
                 /\ l[i].ns = "H" => l[i].id \in Nat /\ l[i].val \in Block
                 /\ l[i].ns = "T" => l[i].id \in Tx /\ l[i].val \in Tx
                 /\ l[i].ns \in {"B", "H", "T"}
<1>1. Len(l) \in Nat /\ DOMAIN l = 1 .. Len(l)
  OBVIOUS
<1>2. \A i \in DOMAIN l : l[i] \in Entry
  BY <1>1
<1> QED BY <1>1, <1>2 DEF Entry

-----------------------------------------------------------------------------
(* Prefixes *)

LEMMA PrefixShape ==
    ASSUME NEW l \in Seq(Entry), NEW n \in 0 .. Len(l)
    PROVE  /\ SubSeq(l, 1, n) \in Seq(Entry)
           /\ Len(SubSeq(l, 1, n)) = n
           /\ DOMAIN SubSeq(l, 1, n) = 1 .. n
           /\ 1 .. n \subseteq DOMAIN l
           /\ \A i \in 1 .. n : SubSeq(l, 1, n)[i] = l[i]
<1>1. Len(l) \in Nat /\ \A i \in 1 .. n : l[i] \in Entry
  OBVIOUS
<1> QED BY <1>1, SubSeqProperties

LEMMA PrefixGood ==
    ASSUME NEW l, Good(l), NEW n \in 0 .. Len(l)
    PROVE  Good(SubSeq(l, 1, n))
<1> DEFINE p == SubSeq(l, 1, n)
<1>1. /\ p \in Seq(Entry)
      /\ DOMAIN p = 1 .. n
      /\ 1 .. n \subseteq DOMAIN l
      /\ \A i \in 1 .. n : p[i] = l[i]
  BY PrefixShape DEF Good
<1>2. n \in Nat /\ \A i \in 1 .. n : 1 .. i - 1 \subseteq 1 .. n
  BY DEF Good
<1> HIDE DEF p
<1>3. \A i \in DOMAIN p : p[i].ns \in {"B", "T"} => p[i].val = p[i].id
  BY <1>1 DEF Good
<1>4. Backed(p)
  BY <1>1, <1>2 DEF Good, Backed
<1>5. Ascending(p)
  BY <1>1 DEF Good, Ascending
<1>6. Linked(p)
  <2> SUFFICES ASSUME NEW i \in DOMAIN p, p[i].ns = "H"
               PROVE  /\ p[i].id = 0 => p[i].val \in Genesis
                      /\ p[i].id > 0 =>
                            /\ ContentValid(p[i].val, header[p[i].val].bits)
                            /\ \E j \in 1 .. i - 1 : /\ p[j].ns = "H"
                                                     /\ p[j].id = p[i].id - 1
                                                     /\ p[j].val = header[p[i].val].prev
                      /\ \A k \in 0 .. p[i].id - 1 :
                            \E j \in 1 .. i - 1 : p[j].ns = "H" /\ p[j].id = k
    BY DEF Linked
  <2>1. i \in DOMAIN l /\ p[i] = l[i] /\ \A j \in 1 .. i - 1 : p[j] = l[j]
    BY <1>1, <1>2
  <2> QED BY <2>1 DEF Good, Linked
<1>7. Indexed(p)
  BY <1>1, <1>2 DEF Good, Indexed
<1> QED BY <1>1, <1>3, <1>4, <1>5, <1>6, <1>7 DEF Good, p

-----------------------------------------------------------------------------
(* Reading a good log *)

\* The height index returns the one block written under a height, and the
\* block index that block.
LEMMA ReadHeight ==
    ASSUME NEW l, Good(l), NEW i \in DOMAIN l, l[i].ns = "H"
    PROVE  /\ GetBlockByHeight(l, l[i].id) = l[i].val
           /\ l[i].val \in Block
           /\ header[l[i].val].height = l[i].id
           /\ l[i].id \in Nat
<1> l \in Seq(Entry)
  BY DEF Good
<1>1. Len(l) \in Nat /\ DOMAIN l = 1 .. Len(l) /\ l[i].id \in Nat /\ l[i].val \in Block
  BY EntryFacts
<1>2. Writes(l, "H", l[i].id) = {i}
  <2>1. ASSUME NEW j \in Writes(l, "H", l[i].id)
        PROVE  j = i
    <3>1. j \in 1 .. Len(l) /\ l[j].ns = "H" /\ l[j].id = l[i].id
      BY <2>1, <1>1 DEF Writes
    <3>2. ~(i < j) /\ ~(j < i)
      BY <3>1, <1>1 DEF Good, Ascending
    <3> QED BY <3>1, <3>2, <1>1
  <2> QED BY <2>1 DEF Writes
<1>3. Get(l, "H", l[i].id) = l[i].val
  <2>1. Max({i}) = i
    <3>1. {i} \subseteq Int /\ i \in {i} /\ \A y \in {i} : y <= i
      BY <1>1
    <3> QED BY <3>1, MaxUnique
  <2> QED BY <1>2, <2>1 DEF Get
<1>4. Writes(l, "B", l[i].val) # {} /\ Writes(l, "B", l[i].val) \subseteq 1 .. Len(l)
  <2>1. PICK j \in 1 .. i - 1 : l[j].ns = "B" /\ l[j].id = l[i].val
    BY DEF Good, Backed
  <2>2. j \in DOMAIN l
    BY <1>1
  <2> QED BY <1>1, <2>1, <2>2 DEF Writes
<1>5. Get(l, "B", l[i].val) = l[i].val
  <2>1. Max(Writes(l, "B", l[i].val)) \in Writes(l, "B", l[i].val)
    BY <1>1, <1>4, MaxOfInterval
  <2> QED BY <1>4, <2>1 DEF Get, Writes, Good
<1>6. l[i].val # NoBlock
  BY <1>1, BlocksAssumption
<1> QED BY <1>1, <1>3, <1>5, <1>6 DEF GetBlockByHeight, GetBlockByHash, Good, Backed

\* The last height written is the greatest one.
LEMMA Top ==
    ASSUME NEW l, Good(l), Heights(l) # {}
    PROVE  \E i \in DOMAIN l :
              /\ l[i].ns = "H"
              /\ l[i].id = GetHeight(l)
              /\ l[i].val = GetLastBlock(l)
              /\ \A j \in DOMAIN l : l[j].ns = "H" => l[j].id <= l[i].id
<1> l \in Seq(Entry)
  BY DEF Good
<1> DEFINE Hs == {i \in DOMAIN l : l[i].ns = "H"}
<1>1. Len(l) \in Nat /\ DOMAIN l = 1 .. Len(l) /\ \A j \in Hs : l[j].id \in Nat
  BY EntryFacts
<1>2. Hs # {} /\ Hs \subseteq 1 .. Len(l)
  BY <1>1 DEF Heights
<1> DEFINE i == Max(Hs)
<1>3. i \in Hs /\ \A j \in Hs : j <= i
  <2> HIDE DEF Hs
  <2> QED BY <1>1, <1>2, MaxOfInterval
<1> HIDE DEF i
<1>4. \A j \in Hs : l[j].id <= l[i].id
  <2> SUFFICES ASSUME NEW j \in Hs, j # i PROVE l[j].id <= l[i].id
    BY <1>1, <1>3
  <2>1. j < i
    BY <1>1, <1>3
  <2>2. l[j].id < l[i].id
    BY <1>3, <2>1 DEF Good, Ascending
  <2> QED BY <1>1, <1>3, <2>2
<1>5. GetHeight(l) = l[i].id
  <2>1. Heights(l) \subseteq Int
    BY <1>1 DEF Heights
  <2>2. l[i].id \in Heights(l)
    BY <1>3 DEF Heights
  <2>3. \A y \in Heights(l) : y <= l[i].id
    BY <1>4 DEF Heights
  <2>4. Max(Heights(l)) = l[i].id
    BY <2>1, <2>2, <2>3, MaxUnique
  <2> QED BY <2>4 DEF GetHeight
<1>6. GetLastBlock(l) = l[i].val
  BY <1>3, <1>5, ReadHeight DEF GetLastBlock
<1> QED BY <1>3, <1>4, <1>5, <1>6

LEMMA HeightsAreInitial ==
    ASSUME NEW l, Good(l)
    PROVE  /\ GetHeight(l) \in Int /\ GetHeight(l) >= -1
           /\ Heights(l) = 0 .. GetHeight(l)
           /\ GetHeight(l) = -1 <=> Heights(l) = {}
<1> l \in Seq(Entry)
  BY DEF Good
<1>1. /\ Len(l) \in Nat /\ DOMAIN l = 1 .. Len(l)
      /\ \A j \in DOMAIN l : l[j].ns = "H" => l[j].id \in Nat
  BY EntryFacts
<1>2. CASE Heights(l) = {}
  BY <1>2 DEF GetHeight
<1>3. CASE Heights(l) # {}
  <2>1. PICK i \in DOMAIN l : /\ l[i].ns = "H" /\ l[i].id = GetHeight(l)
                              /\ \A j \in DOMAIN l : l[j].ns = "H" => l[j].id <= l[i].id
    BY <1>3, Top
  <2>2. GetHeight(l) \in Nat
    BY <2>1, <1>1
  <2>3. Heights(l) \subseteq 0 .. GetHeight(l)
    BY <1>1, <2>1, <2>2 DEF Heights
  <2>4. ASSUME NEW k \in 0 .. GetHeight(l) PROVE k \in Heights(l)
    <3>1. CASE k = GetHeight(l)
      BY <2>1, <3>1 DEF Heights
    <3>2. CASE k \in 0 .. l[i].id - 1
      <4>1. PICK j \in 1 .. i - 1 : l[j].ns = "H" /\ l[j].id = k
        BY <2>1, <3>2 DEF Good, Linked
      <4>2. j \in DOMAIN l
        BY <1>1
      <4> QED BY <4>1, <4>2 DEF Heights
    <3> QED BY <2>1, <2>2, <3>1, <3>2
  <2>5. Heights(l) = 0 .. GetHeight(l)
    BY <2>3, <2>4
  <2> QED BY <1>3, <2>2, <2>5
<1> QED BY <1>2, <1>3

-----------------------------------------------------------------------------
(* put_block *)

LEMMA ExtendShape ==
    ASSUME NEW l \in Seq(Entry), NEW b \in Block, NEW m, m = l \o PutBlock(b)
    PROVE  /\ m \in Seq(Entry)
           /\ Len(l) \in Nat /\ DOMAIN l = 1 .. Len(l)
           /\ Len(m) \in Nat /\ DOMAIN m = 1 .. Len(m)
           /\ Len(m) >= Len(l) + 2
           /\ Len(m) = Len(l) + Len(PutBlock(b))
           /\ \A i \in 1 .. Len(l) : m[i] = l[i]
           /\ m[Len(l) + 1] = BlockPut(b)
           /\ m[Len(l) + 2] = HeightPut(b)
           /\ \A i \in Len(l) + 3 .. Len(m) :
                 m[i].ns = "T" /\ m[i].val = m[i].id /\ m[i].id \in TxsOf(b)
<1> DEFINE q == PutBlock(b)
<1>1. /\ q \in Seq(Entry) /\ Len(q) \in Nat /\ Len(q) >= 2
      /\ q[1] = BlockPut(b) /\ q[2] = HeightPut(b)
      /\ \A k \in 3 .. Len(q) : \E t \in TxsOf(b) : q[k] = TxPut(t)
  BY PutBlockShape
<1> HIDE DEF q
<1>2. /\ m \in Seq(Entry)
      /\ Len(m) = Len(l) + Len(q)
      /\ \A i \in 1 .. Len(l) + Len(q) :
            m[i] = IF i <= Len(l) THEN l[i] ELSE q[i - Len(l)]
  BY <1>1, ConcatProperties DEF q
<1>3. Len(l) \in Nat /\ DOMAIN l = 1 .. Len(l) /\ DOMAIN m = 1 .. Len(m)
  BY <1>2
<1>4. \A i \in 1 .. Len(l) : m[i] = l[i]
  BY <1>1, <1>2, <1>3
<1>5. m[Len(l) + 1] = q[1] /\ m[Len(l) + 2] = q[2]
  BY <1>1, <1>2, <1>3
<1>6. ASSUME NEW i \in Len(l) + 3 .. Len(m)
      PROVE  m[i].ns = "T" /\ m[i].val = m[i].id /\ m[i].id \in TxsOf(b)
  <2>1. i - Len(l) \in 3 .. Len(q) /\ m[i] = q[i - Len(l)]
    BY <1>1, <1>2, <1>3
  <2>2. PICK t \in TxsOf(b) : m[i] = TxPut(t)
    BY <1>1, <2>1
  <2> QED BY <2>2 DEF TxPut, Put
<1>7. Len(m) \in Nat /\ Len(m) >= Len(l) + 2 /\ Len(m) = Len(l) + Len(PutBlock(b))
  BY <1>1, <1>2, <1>3 DEF q
<1> QED BY <1>1, <1>2, <1>3, <1>4, <1>5, <1>6, <1>7

\* Storing a block that attaches keeps the log good.
LEMMA ExtendGood ==
    ASSUME NEW l, Good(l), NEW b \in Block, Attaches(l, b),
           NEW m, m = l \o PutBlock(b)
    PROVE  Good(m)
<1> DEFINE N == Len(l)
<1>0. l \in Seq(Entry)
  BY DEF Good
<1>1. /\ m \in Seq(Entry)
      /\ N \in Nat /\ DOMAIN l = 1 .. N
      /\ Len(m) \in Nat /\ DOMAIN m = 1 .. Len(m) /\ Len(m) >= N + 2
      /\ \A i \in 1 .. N : m[i] = l[i]
      /\ m[N + 1] = BlockPut(b)
      /\ m[N + 2] = HeightPut(b)
      /\ \A i \in N + 3 .. Len(m) :
            m[i].ns = "T" /\ m[i].val = m[i].id /\ m[i].id \in TxsOf(b)
  <2>1. l \in Seq(Entry) /\ b \in Block /\ m = l \o PutBlock(b)
    BY <1>0
  <2>2. m \in Seq(Entry)
    BY <2>1, ExtendShape
  <2>3. Len(l) \in Nat /\ DOMAIN l = 1 .. Len(l)
    BY <2>1, ExtendShape
  <2>4. Len(m) \in Nat /\ DOMAIN m = 1 .. Len(m) /\ Len(m) >= Len(l) + 2
    BY <2>1, ExtendShape
  <2>5. \A i \in 1 .. Len(l) : m[i] = l[i]
    BY <2>1, ExtendShape
  <2>6. m[Len(l) + 1] = BlockPut(b) /\ m[Len(l) + 2] = HeightPut(b)
    BY <2>1, ExtendShape
  <2>7. ASSUME NEW i \in Len(l) + 3 .. Len(m)
        PROVE  m[i].ns = "T" /\ m[i].val = m[i].id /\ m[i].id \in TxsOf(b)
    BY <2>1, ExtendShape
  <2> QED BY <2>2, <2>3, <2>4, <2>5, <2>6, <2>7
<1> HIDE DEF N
<1>2. /\ m[N + 1].ns = "B" /\ m[N + 1].id = b /\ m[N + 1].val = b
      /\ m[N + 2].ns = "H" /\ m[N + 2].id = header[b].height /\ m[N + 2].val = b
      /\ \A i \in N + 3 .. Len(m) :
            m[i].ns = "T" /\ m[i].val = m[i].id /\ m[i].id \in TxsOf(b)
  BY <1>1 DEF BlockPut, HeightPut, Put
<1>3. \A i \in DOMAIN m : i \in 1 .. N \/ i = N + 1 \/ i = N + 2 \/ i \in N + 3 .. Len(m)
  <2>1. DOMAIN m = 1 .. Len(m) /\ Len(m) \in Nat /\ N \in Nat
    BY <1>1
  <2> QED BY <2>1
<1>4. \A i \in 1 .. N : l[i].ns = "H" => l[i].id \in Nat /\ l[i].id < header[b].height
  <2>1. \A i \in DOMAIN l : l[i].ns = "H" => l[i].id \in Nat
    BY <1>0, EntryFacts
  <2>2. CASE b \in Genesis /\ Heights(l) = {}
    <3>1. \A i \in DOMAIN l : l[i].ns # "H"
      BY <2>2 DEF Heights
    <3> QED BY <1>1, <3>1
  <2>3. CASE \E j \in DOMAIN l : /\ l[j].ns = "H"
                                 /\ header[b].height = l[j].id + 1
                                 /\ \A i \in DOMAIN l : l[i].ns = "H" => l[i].id <= l[j].id
    <3>1. PICK j \in DOMAIN l : /\ l[j].ns = "H"
                                /\ header[b].height = l[j].id + 1
                                /\ \A i \in DOMAIN l : l[i].ns = "H" => l[i].id <= l[j].id
      BY <2>3
    <3>2. l[j].id \in Nat
      BY <2>1, <3>1
    <3>3. \A i \in DOMAIN l : l[i].ns = "H" => l[i].id < header[b].height
      BY <2>1, <3>1, <3>2
    <3>4. 1 .. N = DOMAIN l
      BY <1>1
    <3> QED BY <2>1, <3>3, <3>4, Zenon
  <2> QED BY <2>2, <2>3 DEF Attaches
<1>5. \A i \in DOMAIN m : m[i].ns \in {"B", "T"} => m[i].val = m[i].id
  BY <1>1, <1>2, <1>3 DEF Good
<1>6. Backed(m)
  <2> SUFFICES ASSUME NEW i \in DOMAIN m, m[i].ns = "H"
               PROVE  /\ m[i].id = header[m[i].val].height
                      /\ \E j \in 1 .. i - 1 : m[j].ns = "B" /\ m[j].id = m[i].val
    BY DEF Backed
  <2>1. CASE i \in 1 .. N
    <3>1. m[i] = l[i] /\ \A j \in 1 .. i - 1 : j \in 1 .. N /\ m[j] = l[j]
      BY <1>1, <2>1
    <3> QED BY <1>1, <2>1, <3>1 DEF Good, Backed
  <2>2. CASE i = N + 2
    <3>1. N + 1 \in 1 .. i - 1
      BY <1>1, <2>2
    <3> QED BY <1>2, <2>2, <3>1
  <2> QED BY <1>2, <1>3, <2>1, <2>2
<1>7. Ascending(m)
  <2> SUFFICES ASSUME NEW i \in DOMAIN m, NEW j \in DOMAIN m,
                      m[i].ns = "H", m[j].ns = "H", i < j
               PROVE  m[i].id < m[j].id
    BY DEF Ascending
  <2>1. CASE j \in 1 .. N
    <3>1. i \in 1 .. N
      BY <1>1, <2>1
    <3> QED BY <1>1, <2>1, <3>1 DEF Good, Ascending
  <2>2. CASE j = N + 2
    <3>1. i \in 1 .. N
      BY <1>1, <1>2, <2>2, <1>3
    <3> QED BY <1>1, <1>2, <1>4, <2>2, <3>1
  <2> QED BY <1>2, <1>3, <2>1, <2>2
<1>8. Linked(m)
  <2> SUFFICES ASSUME NEW i \in DOMAIN m, m[i].ns = "H"
               PROVE  /\ m[i].id = 0 => m[i].val \in Genesis
                      /\ m[i].id > 0 =>
                            /\ ContentValid(m[i].val, header[m[i].val].bits)
                            /\ \E j \in 1 .. i - 1 : /\ m[j].ns = "H"
                                                     /\ m[j].id = m[i].id - 1
                                                     /\ m[j].val = header[m[i].val].prev
                      /\ \A k \in 0 .. m[i].id - 1 :
                            \E j \in 1 .. i - 1 : m[j].ns = "H" /\ m[j].id = k
    BY DEF Linked
  <2>1. CASE i \in 1 .. N
    <3>1. m[i] = l[i] /\ i \in DOMAIN l /\ \A j \in 1 .. i - 1 : m[j] = l[j]
      BY <1>1, <2>1
    <3> QED BY <3>1 DEF Good, Linked
  <2>2. CASE i = N + 2
    <3>1. m[i].val = b /\ m[i].id = header[b].height
      BY <1>2, <2>2
    <3>2. CASE b \in Genesis
      <4>1. header[b].height = 0
        BY <3>2, GenesisAssumption DEF IsGenesis
      <4> QED BY <3>1, <3>2, <4>1
    <3>3. CASE /\ ContentValid(b, header[b].bits)
               /\ \E j \in DOMAIN l : /\ l[j].ns = "H"
                                      /\ header[b].height = l[j].id + 1
                                      /\ header[b].prev = l[j].val
      <4>1. PICK j \in DOMAIN l : /\ l[j].ns = "H"
                                  /\ header[b].height = l[j].id + 1
                                  /\ header[b].prev = l[j].val
        BY <3>3
      <4>2. j \in 1 .. i - 1 /\ m[j] = l[j] /\ l[j].id \in Nat
        BY <1>0, <1>1, <2>2, <4>1, EntryFacts
      <4>3. ASSUME NEW k \in 0 .. m[i].id - 1
            PROVE  \E n \in 1 .. i - 1 : m[n].ns = "H" /\ m[n].id = k
        <5>1. CASE k = l[j].id
          BY <4>1, <4>2, <5>1
        <5>2. CASE k \in 0 .. l[j].id - 1
          <6>1. PICK n \in 1 .. j - 1 : l[n].ns = "H" /\ l[n].id = k
            BY <4>1, <5>2 DEF Good, Linked
          <6>2. n \in 1 .. i - 1 /\ n \in 1 .. N
            <7>1. j \in 1 .. N /\ i = N + 2 /\ N \in Nat
              BY <1>1, <2>2
            <7> QED BY <7>1
          <6>3. m[n] = l[n]
            BY <1>1, <6>2
          <6>4. m[n].ns = "H" /\ m[n].id = k
            BY <6>1, <6>3
          <6> QED BY <6>2, <6>4
        <5>3. m[i].id - 1 = l[j].id /\ l[j].id \in Nat
          BY <3>1, <4>1, <4>2
        <5>4. k = l[j].id \/ k \in 0 .. l[j].id - 1
          BY <5>3
        <5> QED BY <5>1, <5>2, <5>4
      <4>4. m[i].id - 1 = l[j].id /\ m[i].id > 0
        BY <3>1, <4>1, <4>2
      <4>5. \E n \in 1 .. i - 1 : /\ m[n].ns = "H"
                                  /\ m[n].id = m[i].id - 1
                                  /\ m[n].val = header[m[i].val].prev
        BY <3>1, <4>1, <4>2, <4>4
      <4>6. ContentValid(m[i].val, header[m[i].val].bits)
        BY <3>1, <3>3
      <4>7. m[i].id # 0
        BY <4>2, <4>4
      <4> QED BY <4>3, <4>5, <4>6, <4>7
    <3> QED BY <3>2, <3>3 DEF Attaches
  <2> QED BY <1>2, <1>3, <2>1, <2>2
<1>9. Indexed(m)
  <2> SUFFICES ASSUME NEW i \in DOMAIN m, m[i].ns = "T"
               PROVE  \E j \in 1 .. i - 1 : m[j].ns = "H" /\ m[i].id \in TxsOf(m[j].val)
    BY DEF Indexed
  <2>1. CASE i \in 1 .. N
    <3>1. m[i] = l[i] /\ i \in DOMAIN l /\ \A j \in 1 .. i - 1 : m[j] = l[j]
      BY <1>1, <2>1
    <3> QED BY <3>1 DEF Good, Indexed
  <2>2. CASE i \in N + 3 .. Len(m)
    <3>1. N + 2 \in 1 .. i - 1
      BY <1>1, <2>2
    <3> QED BY <1>2, <2>2, <3>1
  <2> QED BY <1>2, <1>3, <2>1, <2>2
<1> QED BY <1>1, <1>5, <1>6, <1>7, <1>8, <1>9 DEF Good

\* What add_block accepts attaches to the chain.
LEMMA AcceptedAttaches ==
    ASSUME NEW l, Good(l), NEW b \in Block, Accepts(l, b)
    PROVE  Attaches(l, b) /\ Heights(l) # {}
<1>1. Heights(l) # {}
  BY DEF Accepts, GetLastBlock
<1>2. PICK i \in DOMAIN l : /\ l[i].ns = "H"
                            /\ l[i].val = GetLastBlock(l)
                            /\ \A j \in DOMAIN l : l[j].ns = "H" => l[j].id <= l[i].id
  BY <1>1, Top
<1>3. header[l[i].val].height = l[i].id
  BY <1>2, ReadHeight
<1> QED BY <1>1, <1>2, <1>3 DEF Attaches, Accepts, Validate

LEMMA GenesisAttaches ==
    ASSUME NEW l, Good(l), GetHeight(l) = -1, NEW g \in Genesis
    PROVE  g \in Block /\ Attaches(l, g)
BY HeightsAreInitial, BlocksAssumption DEF Attaches

\* A put_block that stops after n puts.
LEMMA PartialExtend ==
    ASSUME NEW l \in Seq(Entry), NEW b \in Block, NEW n \in 0 .. Len(PutBlock(b))
    PROVE  /\ Len(l) \in Nat /\ Len(l) + n \in 0 .. Len(l \o PutBlock(b))
           /\ l \o SubSeq(PutBlock(b), 1, n) = SubSeq(l \o PutBlock(b), 1, Len(l) + n)
           /\ l = SubSeq(l \o SubSeq(PutBlock(b), 1, n), 1, Len(l))
           /\ Len(l \o SubSeq(PutBlock(b), 1, n)) = Len(l) + n
<1> DEFINE q == PutBlock(b)
           p == SubSeq(q, 1, n)
           m == l \o q
<1>1. q \in Seq(Entry) /\ Len(q) \in Nat
  BY PutBlockShape
<1> HIDE DEF q
<1>2. p \in Seq(Entry) /\ Len(p) = n /\ \A i \in 1 .. n : p[i] = q[i]
  BY <1>1, PrefixShape DEF q
<1> HIDE DEF p
<1>3. /\ l \o p \in Seq(Entry)
      /\ Len(l \o p) = Len(l) + n
      /\ \A i \in 1 .. Len(l) + n : (l \o p)[i] = IF i <= Len(l) THEN l[i] ELSE p[i - Len(l)]
  BY <1>2, ConcatProperties
<1>4. /\ m \in Seq(Entry)
      /\ Len(m) = Len(l) + Len(q)
      /\ \A i \in 1 .. Len(l) + Len(q) : m[i] = IF i <= Len(l) THEN l[i] ELSE q[i - Len(l)]
  BY <1>1, ConcatProperties
<1> HIDE DEF m
<1>5. Len(l) \in Nat /\ n \in Nat /\ n <= Len(q)
  BY <1>1 DEF q
<1>6. Len(l) + n \in 0 .. Len(m)
  BY <1>1, <1>4, <1>5
<1>7. /\ SubSeq(m, 1, Len(l) + n) \in Seq(Entry)
      /\ Len(SubSeq(m, 1, Len(l) + n)) = Len(l) + n
      /\ \A i \in 1 .. Len(l) + n : SubSeq(m, 1, Len(l) + n)[i] = m[i]
  BY <1>4, <1>6, PrefixShape
<1>8. \A i \in 1 .. Len(l) + n : (l \o p)[i] = m[i]
  <2> TAKE i \in 1 .. Len(l) + n
  <2>1. CASE i <= Len(l)
    BY <1>1, <1>3, <1>4, <1>5, <2>1
  <2>2. CASE ~(i <= Len(l))
    <3>1. i - Len(l) \in 1 .. n /\ i \in 1 .. Len(l) + Len(q)
      BY <1>1, <1>5, <2>2
    <3> QED BY <1>2, <1>3, <1>4, <2>2, <3>1
  <2> QED BY <2>1, <2>2
<1>9. l \o p = SubSeq(m, 1, Len(l) + n)
  BY <1>3, <1>7, <1>8, SeqEqual
<1>10. l = SubSeq(l \o p, 1, Len(l))
  <2>1. Len(l) \in 0 .. Len(l \o p)
    BY <1>3, <1>5
  <2>2. /\ SubSeq(l \o p, 1, Len(l)) \in Seq(Entry)
        /\ Len(SubSeq(l \o p, 1, Len(l))) = Len(l)
        /\ \A i \in 1 .. Len(l) : SubSeq(l \o p, 1, Len(l))[i] = (l \o p)[i]
    BY <1>3, <2>1, PrefixShape
  <2>3. \A i \in 1 .. Len(l) : (l \o p)[i] = l[i]
    BY <1>3, <1>5
  <2> QED BY <2>2, <2>3, SeqEqual
<1> QED BY <1>3, <1>5, <1>6, <1>9, <1>10 DEF m, p, q

-----------------------------------------------------------------------------
(* Reading across a step: the log before a step is a prefix of the log     *)
(* after it, or the other way round.                                       *)

LEMMA PrefixReads ==
    ASSUME NEW l, Good(l), NEW n \in 0 .. Len(l), NEW p, p = SubSeq(l, 1, n)
    PROVE  /\ Heights(p) \subseteq Heights(l)
           /\ GetHeight(p) <= GetHeight(l)
           /\ \A h \in Heights(p) : GetBlockByHeight(p, h) = GetBlockByHeight(l, h)
<1>1. Good(p)
  BY PrefixGood
<1>2. l \in Seq(Entry)
  BY DEF Good
<1>3. /\ DOMAIN p = 1 .. n
      /\ 1 .. n \subseteq DOMAIN l
      /\ \A i \in 1 .. n : p[i] = l[i]
  BY <1>2, PrefixShape
<1>4. ASSUME NEW h \in Heights(p)
      PROVE  h \in Heights(l) /\ GetBlockByHeight(p, h) = GetBlockByHeight(l, h)
  <2>1. PICK i \in DOMAIN p : p[i].ns = "H" /\ p[i].id = h
    BY DEF Heights
  <2>2. i \in DOMAIN l /\ l[i] = p[i]
    BY <1>3
  <2>3. GetBlockByHeight(p, h) = p[i].val
    BY <1>1, <2>1, ReadHeight
  <2>4. GetBlockByHeight(l, h) = l[i].val
    BY <2>1, <2>2, ReadHeight
  <2> QED BY <2>1, <2>2, <2>3, <2>4 DEF Heights
<1>5. GetHeight(p) <= GetHeight(l)
  <2>1. /\ GetHeight(p) \in Int /\ GetHeight(p) >= -1 /\ Heights(p) = 0 .. GetHeight(p)
        /\ GetHeight(l) \in Int /\ GetHeight(l) >= -1 /\ Heights(l) = 0 .. GetHeight(l)
    BY <1>1, HeightsAreInitial
  <2>2. CASE GetHeight(p) = -1
    BY <2>1, <2>2
  <2>3. CASE GetHeight(p) >= 0
    <3>1. GetHeight(p) \in Heights(p)
      BY <2>1, <2>3
    <3>2. GetHeight(p) \in Heights(l)
      BY <1>4, <3>1
    <3> QED BY <2>1, <3>2
  <2> QED BY <2>1, <2>2, <2>3
<1> QED BY <1>4, <1>5

LEMMA ExtendReads ==
    ASSUME NEW l, Good(l), NEW b \in Block, Attaches(l, b),
           NEW m, m = l \o PutBlock(b)
    PROVE  /\ GetHeight(m) = GetHeight(l) + 1
           /\ GetBlockByHeight(m, GetHeight(m)) = b
<1> DEFINE N == Len(l)
<1>1. Good(m) /\ l \in Seq(Entry)
  BY ExtendGood DEF Good
<1>2. /\ N \in Nat /\ DOMAIN l = 1 .. N
      /\ N + 2 \in DOMAIN m
      /\ m[N + 2].ns = "H" /\ m[N + 2].id = header[b].height /\ m[N + 2].val = b
      /\ \A k \in N + 3 .. Len(m) : m[k].ns = "T"
  <2>1. N \in Nat /\ DOMAIN l = 1 .. N
    BY <1>1, ExtendShape
  <2>2. Len(m) \in Nat /\ DOMAIN m = 1 .. Len(m) /\ Len(m) >= N + 2
    BY <1>1, ExtendShape
  <2>3. m[N + 2] = HeightPut(b)
    BY <1>1, ExtendShape
  <2>4. l \in Seq(Entry) /\ b \in Block /\ m = l \o PutBlock(b)
    BY <1>1
  <2>6. ASSUME NEW i \in Len(l) + 3 .. Len(m)
        PROVE  m[i].ns = "T" /\ m[i].val = m[i].id /\ m[i].id \in TxsOf(b)
    BY <2>4, ExtendShape
  <2>7. m[N + 2].ns = "H" /\ m[N + 2].id = header[b].height /\ m[N + 2].val = b
    BY <2>3 DEF HeightPut, Put
  <2> QED BY <2>1, <2>2, <2>6, <2>7
<1>3. GetBlockByHeight(m, header[b].height) = b /\ header[b].height \in Heights(m)
  BY <1>1, <1>2, ReadHeight DEF Heights
<1>4. header[b].height = GetHeight(l) + 1
  <2>1. CASE b \in Genesis /\ Heights(l) = {}
    BY <2>1, GenesisAssumption DEF IsGenesis, GetHeight
  <2>2. CASE \E j \in DOMAIN l : /\ l[j].ns = "H"
                                 /\ header[b].height = l[j].id + 1
                                 /\ \A i \in DOMAIN l : l[i].ns = "H" => l[i].id <= l[j].id
    <3>1. PICK j \in DOMAIN l : /\ l[j].ns = "H"
                                /\ header[b].height = l[j].id + 1
                                /\ \A i \in DOMAIN l : l[i].ns = "H" => l[i].id <= l[j].id
      BY <2>2
    <3>2. Heights(l) # {}
      BY <3>1 DEF Heights
    <3>3. PICK i \in DOMAIN l : /\ l[i].ns = "H" /\ l[i].id = GetHeight(l)
                                /\ \A k \in DOMAIN l : l[k].ns = "H" => l[k].id <= l[i].id
      BY <3>2, Top
    <3>4. l[i].id \in Nat /\ l[j].id \in Nat /\ l[i].id <= l[j].id /\ l[j].id <= l[i].id
      BY <1>1, <3>1, <3>3, EntryFacts
    <3> QED BY <3>1, <3>3, <3>4
  <2> QED BY <2>1, <2>2 DEF Attaches
<1>5. GetHeight(m) = header[b].height
  <2>1. Heights(m) # {}
    BY <1>3
  <2>2. PICK i \in DOMAIN m : /\ m[i].ns = "H" /\ m[i].id = GetHeight(m)
                              /\ \A k \in DOMAIN m : m[k].ns = "H" => m[k].id <= m[i].id
    BY <1>1, <2>1, Top
  <2>3. i = N + 2
    <3>1. ~(i < N + 2)
      <4>1. \A j \in DOMAIN m : m[j].ns = "H" /\ j < N + 2 => m[j].id < m[N + 2].id
        BY <1>1, <1>2 DEF Good, Ascending
      <4>2. m[i].id \in Nat /\ m[N + 2].id \in Nat
        BY <1>1, <1>2, <2>2, EntryFacts DEF Good
      <4> QED BY <1>2, <2>2, <4>1, <4>2
    <3>2. ~(i > N + 2)
      <4>1. i \in 1 .. Len(m) /\ Len(m) \in Nat
        BY <1>1 DEF Good
      <4> QED BY <1>2, <2>2, <4>1
    <3>3. i \in Nat
      BY <1>1 DEF Good
    <3> QED BY <1>2, <3>1, <3>2, <3>3
  <2> QED BY <1>2, <2>2, <2>3
<1> QED BY <1>3, <1>4, <1>5

LEMMA PartialExtendGood ==
    ASSUME NEW l, Good(l), NEW b \in Block, Attaches(l, b),
           NEW n \in 0 .. Len(PutBlock(b)),
           NEW p, p = l \o SubSeq(PutBlock(b), 1, n)
    PROVE  Good(p) /\ (Heights(l) # {} => Heights(p) # {})
<1>1. l \in Seq(Entry) /\ Good(l \o PutBlock(b))
  <2>1. Good(l \o PutBlock(b))
    BY ExtendGood
  <2> QED BY <2>1 DEF Good
<1>2. /\ Len(l) \in Nat /\ Len(l) + n \in 0 .. Len(l \o PutBlock(b))
      /\ p = SubSeq(l \o PutBlock(b), 1, Len(l) + n)
      /\ l = SubSeq(p, 1, Len(l))
      /\ Len(p) = Len(l) + n
  BY <1>1, PartialExtend
<1>3. Good(p)
  BY <1>1, <1>2, PrefixGood
<1>4. Len(l) \in 0 .. Len(p)
  BY <1>2
<1>5. Heights(l) \subseteq Heights(p)
  BY <1>2, <1>3, <1>4, PrefixReads
<1> QED BY <1>3, <1>5

-----------------------------------------------------------------------------
(* The invariant is inductive *)

LEMMA IInvInit == Init => IInv
<1> SUFFICES ASSUME Init PROVE IInv
  OBVIOUS
<1>1. log = <<>> /\ log \in Seq(Entry)
  BY DEF Init
<1>2. Good(log)
  BY <1>1 DEF Good, Backed, Ascending, Linked, Indexed
<1>3. TypeOK
  <2>1. faults \in 0 .. MaxFaults
    BY MaxFaultsAssumption DEF Init
  <2> QED BY <1>1, <2>1 DEF Init, TypeOK
<1> QED BY <1>2, <1>3 DEF Init, IInv

LEMMA IInvNext == IInv /\ [Next]_vars => IInv'
<1> SUFFICES ASSUME IInv, [Next]_vars PROVE IInv'
  OBVIOUS
<1>1. Good(log) /\ TypeOK /\ (up => Heights(log) # {})
  BY DEF IInv
<1>2. \A b \in Block : Len(body[b]) \in Nat
  BY PutBlockShape
<1>3. CASE Start
  <2>1. CASE GetHeight(log) = -1
    <3>1. PICK g \in Genesis : log' = log \o PutBlock(g) /\ total' = Len(body[g])
      BY <1>3, <2>1 DEF Start
    <3>2. g \in Block /\ Attaches(log, g)
      BY <1>1, <2>1, GenesisAttaches
    <3>3. Good(log')
      BY <1>1, <3>1, <3>2, ExtendGood
    <3>4. GetHeight(log') = 0
      <4>1. GetHeight(log') = GetHeight(log) + 1
        BY <1>1, <3>1, <3>2, ExtendReads
      <4> QED BY <2>1, <4>1
    <3>5. Heights(log') # {}
      BY <3>3, <3>4, HeightsAreInitial
    <3>6. TypeOK'
      BY <1>1, <1>2, <1>3, <3>1, <3>2, <3>3 DEF Start, TypeOK, Good
    <3> QED BY <3>3, <3>5, <3>6 DEF IInv
  <2>2. CASE GetHeight(log) # -1
    <3>1. log' = log /\ total' = 0 /\ faults' = faults /\ up' = TRUE
      BY <1>3, <2>2 DEF Start
    <3>2. Heights(log) # {}
      BY <1>1, <2>2, HeightsAreInitial
    <3> QED BY <1>1, <3>1, <3>2 DEF IInv, TypeOK
  <2> QED BY <2>1, <2>2
<1>4. ASSUME NEW b \in Block, AddBlock(b) PROVE IInv'
  <2>1. Attaches(log, b) /\ log' = log \o PutBlock(b)
    BY <1>1, <1>4, AcceptedAttaches DEF AddBlock
  <2>2. Good(log')
    BY <1>1, <2>1, ExtendGood
  <2>3. Heights(log') # {}
    <3>1. GetHeight(log') = GetHeight(log) + 1
      BY <1>1, <2>1, ExtendReads
    <3>2. GetHeight(log) \in Int /\ GetHeight(log) >= -1
      BY <1>1, HeightsAreInitial
    <3>3. GetHeight(log') # -1
      BY <3>1, <3>2
    <3> QED BY <2>2, <3>3, HeightsAreInitial
  <2>4. TypeOK'
    BY <1>1, <1>2, <1>4, <2>2 DEF AddBlock, TypeOK, Good
  <2> QED BY <2>2, <2>3, <2>4 DEF IInv
<1>5. ASSUME NEW b \in Block, AddBlockFails(b) PROVE IInv'
  <2>1. Attaches(log, b) /\ Heights(log) # {}
    BY <1>1, <1>5, AcceptedAttaches DEF AddBlockFails
  <2>2. PICK n \in 0 .. Len(PutBlock(b)) - 1 : log' = log \o SubSeq(PutBlock(b), 1, n)
    BY <1>5 DEF AddBlockFails
  <2>3. n \in 0 .. Len(PutBlock(b))
    BY PutBlockShape
  <2>4. Good(log') /\ Heights(log') # {}
    <3>1. Good(log')
      BY <1>1, <2>1, <2>2, <2>3, PartialExtendGood
    <3>2. Heights(log') # {}
      BY <1>1, <2>1, <2>2, <2>3, PartialExtendGood
    <3> QED BY <3>1, <3>2
  <2>5. TypeOK'
    <3>1. log' \in Seq(Entry)
      BY <2>4 DEF Good
    <3>2. up' \in BOOLEAN /\ total' \in Nat
      BY <1>1, <1>5 DEF AddBlockFails, TypeOK
    <3>3. faults' \in 0 .. MaxFaults
      BY <1>1, <1>5, MaxFaultsAssumption DEF AddBlockFails, TypeOK
    <3> QED BY <3>1, <3>2, <3>3 DEF TypeOK
  <2> QED BY <2>4, <2>5 DEF IInv
<1>6. CASE Close
  BY <1>1, <1>6 DEF Close, IInv, TypeOK
<1>7. CASE Crash
  <2>1. PICK n \in 0 .. Len(log) : log' = SubSeq(log, 1, n)
    BY <1>7 DEF Crash
  <2>2. Good(log')
    BY <1>1, <2>1, PrefixGood
  <2>3. TypeOK'
    <3>1. log' \in Seq(Entry)
      BY <2>2 DEF Good
    <3>2. up' \in BOOLEAN /\ total' \in Nat
      BY <1>7 DEF Crash
    <3>3. faults' \in 0 .. MaxFaults
      BY <1>1, <1>7, MaxFaultsAssumption DEF Crash, TypeOK
    <3> QED BY <3>1, <3>2, <3>3 DEF TypeOK
  <2> QED BY <1>7, <2>2, <2>3 DEF IInv, Crash
<1>8. CASE UNCHANGED vars
  BY <1>1, <1>8 DEF vars, IInv, TypeOK, Good
<1> QED BY <1>3, <1>4, <1>5, <1>6, <1>7, <1>8 DEF Next

\* In every reachable state each put of the log found before it what it
\* needs: a height its block and the height below, a transaction the height
\* of its block.  A put_block that failed stays cut short wherever it is, also
\* in the middle of the log (chain_db.py:28-37, blockchain.py:33-38).
THEOREM Invariance == Spec => []IInv
BY IInvInit, IInvNext, PTL DEF Spec

-----------------------------------------------------------------------------
(* What it implies *)

\* Records and counters always have their types.
THEOREM TypeCorrect == Spec => []TypeOK
<1>1. IInv => TypeOK
  BY DEF IInv
<1> QED BY <1>1, Invariance, PTL

\* After any crashes and failed writes, an open or non-empty store has a tip
\* that add_block can extend.
THEOREM TipAlwaysResolves == Spec => []TipResolves
<1>1. IInv => TipResolves
  <2> SUFFICES ASSUME IInv, Heights(log) # {}
               PROVE  /\ GetLastBlock(log) # NoBlock
                      /\ header[GetLastBlock(log)].height = GetHeight(log)
    BY DEF IInv, TipResolves
  <2>1. PICK i \in DOMAIN log : /\ log[i].ns = "H"
                                /\ log[i].id = GetHeight(log)
                                /\ log[i].val = GetLastBlock(log)
    BY Top DEF IInv
  <2> QED BY <2>1, ReadHeight, BlocksAssumption DEF IInv
<1> QED BY <1>1, Invariance, PTL

\* The chain is linked from a genesis block to the tip, with valid blocks.
THEOREM ChainAlwaysLinked == Spec => []ChainLinked
<1>1. IInv => ChainLinked
  <2> SUFFICES ASSUME IInv, NEW h \in 0 .. GetHeight(log), NEW b,
                      b = GetBlockByHeight(log, h)
               PROVE  /\ b \in Block
                      /\ header[b].height = h
                      /\ h = 0 => b \in Genesis
                      /\ h > 0 => /\ header[b].prev = GetBlockByHeight(log, h - 1)
                                  /\ ContentValid(b, header[b].bits)
    BY DEF ChainLinked
  <2>1. Good(log)
    BY DEF IInv
  <2>2. h \in Heights(log)
    BY <2>1, HeightsAreInitial
  <2>3. PICK i \in DOMAIN log : log[i].ns = "H" /\ log[i].id = h
    BY <2>2 DEF Heights
  <2>4. b = log[i].val /\ b \in Block /\ header[b].height = h
    BY <2>1, <2>3, ReadHeight
  <2>5. h = 0 => b \in Genesis
    BY <2>1, <2>3, <2>4 DEF Good, Linked
  <2>6. ASSUME h > 0
        PROVE  header[b].prev = GetBlockByHeight(log, h - 1) /\ ContentValid(b, header[b].bits)
    <3>1. PICK j \in 1 .. i - 1 : /\ log[j].ns = "H"
                                  /\ log[j].id = h - 1
                                  /\ log[j].val = header[b].prev
      BY <2>1, <2>3, <2>4, <2>6 DEF Good, Linked
    <3>2. j \in DOMAIN log
      <4>1. DOMAIN log = 1 .. Len(log) /\ Len(log) \in Nat
        BY <2>1 DEF Good
      <4> QED BY <4>1
    <3>3. GetBlockByHeight(log, h - 1) = header[b].prev
      BY <2>1, <3>1, <3>2, ReadHeight
    <3>4. ContentValid(b, header[b].bits)
      BY <2>1, <2>3, <2>4, <2>6 DEF Good, Linked
    <3> QED BY <3>3, <3>4
  <2> QED BY <2>4, <2>5, <2>6
<1> QED BY <1>1, Invariance, PTL

\* What the transaction index returns is on the chain.
THEOREM TxIndexAlwaysSound == Spec => []TxIndexSound
<1>1. IInv => TxIndexSound
  <2> SUFFICES ASSUME IInv, NEW t \in Tx, Get(log, "T", t) # NoBlock
               PROVE  \E h \in Heights(log) : t \in TxsOf(GetBlockByHeight(log, h))
    BY DEF TxIndexSound
  <2>1. Good(log) /\ DOMAIN log = 1 .. Len(log)
    BY DEF IInv, Good
  <2>2. PICK i \in DOMAIN log : log[i].ns = "T" /\ log[i].id = t
    BY DEF Get, Writes
  <2>3. PICK j \in 1 .. i - 1 : log[j].ns = "H" /\ t \in TxsOf(log[j].val)
    BY <2>1, <2>2 DEF Good, Indexed
  <2>4. j \in DOMAIN log
    <3>1. Len(log) \in Nat
      BY <2>1 DEF Good
    <3> QED BY <2>1, <3>1
  <2>5. GetBlockByHeight(log, log[j].id) = log[j].val /\ log[j].id \in Heights(log)
    BY <2>1, <2>3, <2>4, ReadHeight DEF Heights
  <2> QED BY <2>3, <2>5
<1> QED BY <1>1, Invariance, PTL

\* put_block gets to every transaction of the block.
LEMMA PutBlockHasTxs ==
    ASSUME NEW b \in Block, NEW t \in TxsOf(b)
    PROVE  \E k \in 1 .. Len(PutBlock(b)) : PutBlock(b)[k] = TxPut(t)
<1> DEFINE heads == <<BlockPut(b), HeightPut(b)>>
           txs == [i \in 1 .. Len(body[b]) |-> TxPut(body[b][i])]
<1>1. body[b] \in Seq(Tx) /\ header[b].height \in Nat
  BY BlocksAssumption DEF Header
<1>2. heads \in Seq(Entry) /\ Len(heads) = 2
  BY <1>1 DEF BlockPut, HeightPut, Put, Entry
<1>3. \A i \in 1 .. Len(body[b]) : body[b][i] \in Tx /\ TxPut(body[b][i]) \in Entry
  BY <1>1 DEF TxPut, Put, Entry
<1>4. /\ txs \in Seq(Entry) /\ Len(txs) = Len(body[b]) /\ Len(txs) \in Nat
      /\ \A i \in 1 .. Len(body[b]) : txs[i] = TxPut(body[b][i])
  BY <1>1, <1>3
<1>5. PICK i \in 1 .. Len(body[b]) : body[b][i] = t
  BY <1>1 DEF TxsOf
<1>6. PutBlock(b) = heads \o txs
  BY DEF PutBlock
<1> HIDE DEF heads, txs
<1>7. /\ Len(PutBlock(b)) = 2 + Len(txs)
      /\ \A k \in 1 .. 2 + Len(txs) :
            PutBlock(b)[k] = IF k <= 2 THEN heads[k] ELSE txs[k - 2]
  <2>1. /\ Len(heads \o txs) = Len(heads) + Len(txs)
        /\ \A k \in 1 .. Len(heads) + Len(txs) : (heads \o txs)[k] =
                 IF k <= Len(heads) THEN heads[k] ELSE txs[k - Len(heads)]
    <3>1. heads \in Seq(Entry) /\ txs \in Seq(Entry)
      BY <1>2, <1>4
    <3> QED BY <3>1, ConcatProperties
  <2> QED BY <2>1, <1>2, <1>6
<1>8. i + 2 \in 1 .. 2 + Len(txs) /\ ~(i + 2 <= 2) /\ i + 2 - 2 = i
  BY <1>4, <1>5
<1>9. PutBlock(b)[i + 2] = txs[i]
  BY <1>7, <1>8
<1> QED BY <1>4, <1>5, <1>7, <1>8, <1>9

\* A put_block that is not cut short keeps the index complete.
LEMMA ExtendComplete ==
    ASSUME NEW l \in Seq(Entry), Complete(l), NEW b \in Block, NEW m, m = l \o PutBlock(b)
    PROVE  Complete(m)
<1> DEFINE q == PutBlock(b)
<1>1. /\ q \in Seq(Entry) /\ Len(q) \in Nat
      /\ \A t \in TxsOf(b) : \E k \in 1 .. Len(q) : q[k] = TxPut(t)
  BY PutBlockShape, PutBlockHasTxs
<1>2. /\ Len(l) \in Nat /\ DOMAIN l = 1 .. Len(l)
      /\ Len(m) = Len(l) + Len(q) /\ DOMAIN m = 1 .. Len(m)
      /\ \A i \in 1 .. Len(l) : m[i] = l[i]
      /\ m[Len(l) + 1] = BlockPut(b)
      /\ m[Len(l) + 2] = HeightPut(b)
      /\ \A i \in Len(l) + 3 .. Len(m) : m[i].ns = "T"
  BY ExtendShape
<1> HIDE DEF q
<1>3. \A i \in 1 .. Len(l) + Len(q) : m[i] = IF i <= Len(l) THEN l[i] ELSE q[i - Len(l)]
  BY <1>1, ConcatProperties DEF q
<1>4. ASSUME NEW i \in DOMAIN m, m[i].ns = "H", NEW t \in TxsOf(m[i].val)
      PROVE  \E j \in DOMAIN m : m[j].ns = "T" /\ m[j].id = t
  <2>1. CASE i \in 1 .. Len(l)
    <3>1. m[i] = l[i] /\ i \in DOMAIN l
      BY <1>2, <2>1
    <3>2. l[i].ns = "H" /\ t \in TxsOf(l[i].val)
      BY <1>4, <3>1
    <3>3. PICK j \in DOMAIN l : l[j].ns = "T" /\ l[j].id = t
      BY <3>1, <3>2 DEF Complete
    <3>4. j \in DOMAIN m /\ m[j] = l[j]
      BY <1>1, <1>2, <3>3
    <3> QED BY <3>3, <3>4
  <2>2. CASE i = Len(l) + 2
    <3>1. t \in TxsOf(b)
      BY <1>2, <1>4, <2>2 DEF HeightPut, Put
    <3>2. PICK k \in 1 .. Len(q) : q[k] = TxPut(t)
      BY <1>1, <3>1
    <3>3. /\ Len(l) + k \in 1 .. Len(l) + Len(q) /\ Len(l) + k \in DOMAIN m
          /\ ~(Len(l) + k <= Len(l)) /\ Len(l) + k - Len(l) = k
      BY <1>1, <1>2, <3>2
    <3>4. m[Len(l) + k] = TxPut(t)
      BY <1>3, <3>2, <3>3
    <3>5. m[Len(l) + k].ns = "T" /\ m[Len(l) + k].id = t
      BY <3>4 DEF TxPut, Put
    <3> QED BY <3>3, <3>5
  <2>3. CASE i = Len(l) + 1
    BY <1>2, <1>4, <2>3 DEF BlockPut, Put
  <2>4. CASE i \in Len(l) + 3 .. Len(m)
    BY <1>2, <1>4, <2>4
  <2>5. \/ i \in 1 .. Len(l) \/ i = Len(l) + 1 \/ i = Len(l) + 2
        \/ i \in Len(l) + 3 .. Len(m)
    BY <1>1, <1>2, <1>4
  <2> QED BY <2>1, <2>2, <2>3, <2>4, <2>5
<1> QED BY <1>4 DEF Complete

\* Only a fault can keep put_block from indexing all of a block.
LEMMA CompleteNext ==
    ASSUME IInv, [Next]_vars, faults = 0 => Complete(log), faults' = 0
    PROVE  Complete(log')
<1>1. Good(log) /\ log \in Seq(Entry) /\ faults \in Nat
  BY DEF IInv, TypeOK
<1>2. ASSUME faults' = faults + 1 PROVE FALSE
  BY <1>1, <1>2
<1>3. CASE Start
  <2>1. Complete(log)
    BY <1>3 DEF Start
  <2>2. \A g \in Genesis : g \in Block
    BY BlocksAssumption
  <2> QED BY <1>1, <1>3, <2>1, <2>2, ExtendComplete DEF Start
<1>4. ASSUME NEW b \in Block, AddBlock(b) PROVE Complete(log')
  BY <1>1, <1>4, ExtendComplete DEF AddBlock
<1>5. CASE Close \/ UNCHANGED vars
  BY <1>5 DEF Close, vars
<1>6. CASE Crash \/ \E b \in Block : AddBlockFails(b)
  BY <1>2, <1>6 DEF Crash, AddBlockFails
<1> QED BY <1>3, <1>4, <1>5, <1>6 DEF Next

\* While nothing fails, every transaction of the chain can be found through
\* the T index, over any number of stops and starts (chain_db.py:34-37).
THEOREM TxIndexCompleteUnlessFault == Spec => []TxIndexCompleteIfNoFault
<1>1. Init => (faults = 0 => Complete(log))
  BY DEF Init, Complete
<1>2. IInv /\ (faults = 0 => Complete(log)) /\ [Next]_vars => (faults = 0 => Complete(log))'
  BY CompleteNext
<1>3. IInv /\ (faults = 0 => Complete(log)) => TxIndexCompleteIfNoFault
  <2> SUFFICES ASSUME IInv, Complete(log), NEW h \in Heights(log),
                      NEW t \in TxsOf(GetBlockByHeight(log, h))
               PROVE  Get(log, "T", t) = t
    BY DEF TxIndexCompleteIfNoFault, TxIndexComplete
  <2>1. Good(log) /\ log \in Seq(Entry) /\ Len(log) \in Nat /\ DOMAIN log = 1 .. Len(log)
    BY EntryFacts DEF IInv, TypeOK
  <2>2. PICK i \in DOMAIN log : log[i].ns = "H" /\ log[i].id = h
    BY DEF Heights
  <2>3. t \in TxsOf(log[i].val)
    BY <2>1, <2>2, ReadHeight
  <2>4. PICK j \in DOMAIN log : log[j].ns = "T" /\ log[j].id = t
    BY <2>2, <2>3 DEF Complete
  <2> DEFINE W == Writes(log, "T", t)
  <2>5. W # {} /\ W \subseteq 1 .. Len(log)
    BY <2>1, <2>4 DEF Writes
  <2>6. Max(W) \in W
    <3> HIDE DEF W
    <3> QED BY <2>1, <2>5, MaxOfInterval
  <2>7. log[Max(W)].val = t
    BY <2>1, <2>6 DEF Writes, Good
  <2> QED BY <2>5, <2>7 DEF Get
<1> QED BY <1>1, <1>2, <1>3, Invariance, PTL DEF Spec

\* Cutting the log leaves no new places.
LEMMA PlacesOfPrefix ==
    ASSUME NEW l, Good(l), NEW n \in 0 .. Len(l), NEW p, p = SubSeq(l, 1, n)
    PROVE  TxPlaces(p) \subseteq TxPlaces(l)
<1>1. /\ Heights(p) \subseteq Heights(l)
      /\ \A h \in Heights(p) : GetBlockByHeight(p, h) = GetBlockByHeight(l, h)
  BY PrefixReads
<1> QED BY <1>1 DEF TxPlaces

\* A block that is stored brings the places of its own transactions.
LEMMA PlacesOfExtend ==
    ASSUME NEW l, Good(l), NEW b \in Block, Attaches(l, b),
           NEW m, m = l \o PutBlock(b), IsFiniteSet(TxPlaces(l))
    PROVE  /\ IsFiniteSet(TxPlaces(m))
           /\ Cardinality(TxPlaces(m)) = Cardinality(TxPlaces(l)) + Len(body[b])
           /\ Cardinality(TxPlaces(l)) \in Nat /\ Len(body[b]) \in Nat
<1> DEFINE H == GetHeight(m)
           n == Len(body[b])
           new == {H} \X (1 .. n)
           f == [i \in 1 .. n |-> <<H, i>>]
<1>1. Good(m) /\ GetHeight(m) = GetHeight(l) + 1 /\ GetBlockByHeight(m, H) = b
  BY ExtendGood, ExtendReads
<1>2. /\ GetHeight(l) \in Int /\ GetHeight(l) >= -1
      /\ Heights(l) = 0 .. GetHeight(l) /\ Heights(m) = 0 .. H
  BY <1>1, HeightsAreInitial
<1>3. Heights(m) = Heights(l) \cup {H} /\ H \notin Heights(l)
  BY <1>1, <1>2
<1>4. n \in Nat /\ DOMAIN body[b] = 1 .. n
  BY BlocksAssumption
<1>5. \A h \in Heights(l) : GetBlockByHeight(m, h) = GetBlockByHeight(l, h)
  <2>1. l \in Seq(Entry)
    BY DEF Good
  <2>2. Len(l) \in 0 .. Len(m) /\ l = SubSeq(m, 1, Len(l))
    <3>1. Len(PutBlock(b)) \in 0 .. Len(PutBlock(b)) /\ PutBlock(b) \in Seq(Entry)
      BY PutBlockShape
    <3>2. SubSeq(PutBlock(b), 1, Len(PutBlock(b))) = PutBlock(b)
      BY <3>1
    <3>3. /\ Len(l) \in Nat /\ l = SubSeq(m, 1, Len(l))
          /\ Len(m) = Len(l) + Len(PutBlock(b))
      BY <2>1, <3>1, <3>2, PartialExtend
    <3> QED BY <3>1, <3>3
  <2> QED BY <1>1, <2>2, PrefixReads
<1>6. TxPlaces(m) = TxPlaces(l) \cup new
  <2>1. UNION {{h} \X DOMAIN body[GetBlockByHeight(m, h)] : h \in Heights(l)} = TxPlaces(l)
    BY <1>5 DEF TxPlaces
  <2>2. {H} \X DOMAIN body[GetBlockByHeight(m, H)] = new
    BY <1>1, <1>4
  <2> HIDE DEF H, new
  <2> QED BY <1>3, <2>1, <2>2 DEF TxPlaces
<1>7. TxPlaces(l) \cap new = {}
  BY <1>3 DEF TxPlaces
<1>8. IsFiniteSet(new) /\ Cardinality(new) = n
  <2> HIDE DEF n, H
  <2>1. n \in Nat
    BY <1>4
  <2>2. IsFiniteSet(1 .. n) /\ Cardinality(1 .. n) = n
    BY <2>1, FS_Interval
  <2>3. f \in [1 .. n -> new] /\ \A i \in 1 .. n : f[i] = <<H, i>>
    OBVIOUS
  <2>4. f \in Injection(1 .. n, new)
    <3> HIDE DEF f, new
    <3> QED BY <2>3 DEF Injection, IsInjective
  <2>5. \A x \in new : \E i \in 1 .. n : x = <<H, i>>
    OBVIOUS
  <2>6. f \in Surjection(1 .. n, new)
    <3> HIDE DEF f, new
    <3> QED BY <2>3, <2>5 DEF Surjection
  <2>7. ExistsBijection(1 .. n, new)
    <3> HIDE DEF f, new
    <3> QED BY <2>4, <2>6 DEF ExistsBijection, Bijection
  <2> HIDE DEF f, new
  <2> QED BY <2>2, <2>7, FS_Bijection
<1> HIDE DEF H, n, new, f
<1>9. Cardinality(TxPlaces(l)) \in Nat /\ Cardinality({}) = 0
  BY FS_CardinalityType, FS_EmptySet
<1>10. /\ IsFiniteSet(TxPlaces(l) \cup new)
       /\ Cardinality(TxPlaces(l) \cup new) = Cardinality(TxPlaces(l)) + n - 0
  BY <1>7, <1>8, <1>9, FS_Union
<1> QED BY <1>4, <1>6, <1>9, <1>10 DEF n

\* The counter counts no place twice, and none that was not stored.
Counted == IsFiniteSet(TxPlaces(log)) /\ total <= Cardinality(TxPlaces(log))

LEMMA CountedNext == IInv /\ Counted /\ [Next]_vars => Counted'
<1> SUFFICES ASSUME IInv, Counted, [Next]_vars PROVE Counted'
  OBVIOUS
<1>1. Good(log) /\ log \in Seq(Entry) /\ total \in Nat /\ IsFiniteSet(TxPlaces(log))
  BY DEF IInv, TypeOK, Good, Counted
<1>2. Cardinality(TxPlaces(log)) \in Nat /\ total <= Cardinality(TxPlaces(log))
  BY <1>1, FS_CardinalityType DEF Counted
<1>3. ASSUME IsFiniteSet(TxPlaces(log')), total' = 0
      PROVE  Counted'
  BY <1>3, FS_CardinalityType DEF Counted
<1>4. CASE Start
  <2>1. ASSUME NEW g \in Genesis, GetHeight(log) = -1, log' = log \o PutBlock(g),
               total' = Len(body[g])
        PROVE  Counted'
    <3>1. g \in Block /\ Attaches(log, g)
      BY <1>1, <2>1, GenesisAttaches
    <3>2. /\ IsFiniteSet(TxPlaces(log'))
          /\ Cardinality(TxPlaces(log')) = Cardinality(TxPlaces(log)) + Len(body[g])
          /\ Len(body[g]) \in Nat
      BY <1>1, <2>1, <3>1, PlacesOfExtend
    <3> QED BY <1>2, <2>1, <3>2 DEF Counted
  <2>2. CASE GetHeight(log) # -1
    BY <1>1, <1>3, <1>4, <2>2 DEF Start
  <2> QED BY <1>4, <2>1, <2>2 DEF Start
<1>5. ASSUME NEW b \in Block, AddBlock(b) PROVE Counted'
  <2>1. Attaches(log, b)
    BY <1>1, <1>5, AcceptedAttaches DEF AddBlock
  <2>2. /\ IsFiniteSet(TxPlaces(log'))
        /\ Cardinality(TxPlaces(log')) = Cardinality(TxPlaces(log)) + Len(body[b])
        /\ Len(body[b]) \in Nat
    BY <1>1, <1>5, <2>1, PlacesOfExtend DEF AddBlock
  <2>3. total' = total + Len(body[b])
    BY <1>5 DEF AddBlock
  <2> QED BY <1>1, <1>2, <2>2, <2>3 DEF Counted
<1>6. ASSUME NEW b \in Block, AddBlockFails(b) PROVE Counted'
  <2>1. PICK n \in 0 .. Len(PutBlock(b)) - 1 : log' = log \o SubSeq(PutBlock(b), 1, n)
    BY <1>6 DEF AddBlockFails
  <2>2. n \in 0 .. Len(PutBlock(b))
    BY PutBlockShape
  <2>3. Attaches(log, b)
    BY <1>1, <1>6, AcceptedAttaches DEF AddBlockFails
  <2> DEFINE m == log \o PutBlock(b)
  <2>4. Good(m) /\ Good(log') /\ IsFiniteSet(TxPlaces(m))
    <3>1. Good(m)
      BY <1>1, <2>3, ExtendGood
    <3>2. Good(log')
      BY <1>1, <2>1, <2>2, <2>3, PartialExtendGood
    <3> QED BY <1>1, <2>3, <3>1, <3>2, PlacesOfExtend
  <2>5. /\ Len(log) + n \in 0 .. Len(m) /\ log' = SubSeq(m, 1, Len(log) + n)
        /\ Len(log) \in 0 .. Len(log') /\ log = SubSeq(log', 1, Len(log))
    <3>1. /\ Len(log) \in Nat /\ Len(log) + n \in 0 .. Len(m)
          /\ log' = SubSeq(m, 1, Len(log) + n) /\ log = SubSeq(log', 1, Len(log))
          /\ Len(log') = Len(log) + n
      BY <1>1, <2>1, <2>2, PartialExtend
    <3> QED BY <2>2, <3>1
  <2> HIDE DEF m
  <2>6. TxPlaces(log') \in SUBSET TxPlaces(m) /\ TxPlaces(log) \in SUBSET TxPlaces(log')
    <3>1. TxPlaces(log') \subseteq TxPlaces(m)
      BY <2>4, <2>5, PlacesOfPrefix
    <3>2. TxPlaces(log) \subseteq TxPlaces(log')
      BY <2>4, <2>5, PlacesOfPrefix
    <3> QED BY <3>1, <3>2
  <2>7. IsFiniteSet(TxPlaces(log'))
    BY <2>4, <2>6, FS_Subset
  <2>8. Cardinality(TxPlaces(log)) <= Cardinality(TxPlaces(log'))
    BY <2>6, <2>7, FS_Subset
  <2>9. Cardinality(TxPlaces(log')) \in Nat /\ total' = total
    BY <1>6, <2>7, FS_CardinalityType DEF AddBlockFails
  <2> QED BY <1>1, <1>2, <2>7, <2>8, <2>9 DEF Counted
<1>7. CASE Close
  BY <1>1, <1>3, <1>7 DEF Close
<1>8. CASE Crash
  <2>1. PICK n \in 0 .. Len(log) : log' = SubSeq(log, 1, n)
    BY <1>8 DEF Crash
  <2>2. TxPlaces(log') \in SUBSET TxPlaces(log)
    BY <1>1, <2>1, PlacesOfPrefix
  <2>3. IsFiniteSet(TxPlaces(log'))
    BY <1>1, <2>2, FS_Subset
  <2> QED BY <1>3, <1>8, <2>3 DEF Crash
<1>9. CASE UNCHANGED vars
  BY <1>1, <1>2, <1>9 DEF vars, Counted
<1> QED BY <1>4, <1>5, <1>6, <1>7, <1>8, <1>9 DEF Next

\* The counter never exceeds the transactions of the chain, whatever fails
\* between a put and the counting (blockchain.py:37-38).
THEOREM TotalAlwaysBounded == Spec => []TotalBounded
<1>1. Init => Counted
  <2> SUFFICES ASSUME Init PROVE Counted
    OBVIOUS
  <2>1. Heights(log) = {}
    BY DEF Init, Heights
  <2>2. TxPlaces(log) = {}
    BY <2>1 DEF TxPlaces
  <2>3. IsFiniteSet({}) /\ Cardinality({}) = 0 /\ total = 0
    BY FS_EmptySet DEF Init
  <2> QED BY <2>2, <2>3 DEF Counted
<1>2. Counted => TotalBounded
  BY DEF Counted, TotalBounded
<1> QED BY <1>1, <1>2, CountedNext, Invariance, PTL DEF Spec

\* One of the logs before and after a step is a prefix of the other.
LEMMA StepIsPrefix ==
    ASSUME IInv, [Next]_vars
    PROVE  \/ \E n \in 0 .. Len(log') : log = SubSeq(log', 1, n)
           \/ \E n \in 0 .. Len(log) : log' = SubSeq(log, 1, n)
<1>1. Good(log) /\ log \in Seq(Entry) /\ Len(log) \in 0 .. Len(log)
  <2>1. Good(log)
    BY DEF IInv
  <2>2. log \in Seq(Entry)
    BY <2>1 DEF Good
  <2> QED BY <2>1, <2>2
<1>2. log = SubSeq(log, 1, Len(log))
  <2>1. /\ SubSeq(log, 1, Len(log)) \in Seq(Entry)
        /\ Len(SubSeq(log, 1, Len(log))) = Len(log)
        /\ \A i \in 1 .. Len(log) : SubSeq(log, 1, Len(log))[i] = log[i]
    BY <1>1, PrefixShape
  <2> QED BY <1>1, <2>1, SeqEqual
<1>3. ASSUME NEW b \in Block, NEW n \in 0 .. Len(PutBlock(b)),
             log' = log \o SubSeq(PutBlock(b), 1, n)
      PROVE  \E k \in 0 .. Len(log') : log = SubSeq(log', 1, k)
  <2>1. Len(log) \in Nat /\ log = SubSeq(log', 1, Len(log)) /\ Len(log') = Len(log) + n
    BY <1>1, <1>3, PartialExtend
  <2>2. Len(log) \in 0 .. Len(log')
    BY <2>1
  <2> QED BY <2>1, <2>2
<1>4. ASSUME NEW b \in Block
      PROVE  /\ PutBlock(b) = SubSeq(PutBlock(b), 1, Len(PutBlock(b)))
             /\ Len(PutBlock(b)) \in 0 .. Len(PutBlock(b))
  <2>1. PutBlock(b) \in Seq(Entry) /\ Len(PutBlock(b)) \in 0 .. Len(PutBlock(b))
    BY PutBlockShape
  <2>2. /\ SubSeq(PutBlock(b), 1, Len(PutBlock(b))) \in Seq(Entry)
        /\ Len(SubSeq(PutBlock(b), 1, Len(PutBlock(b)))) = Len(PutBlock(b))
        /\ \A i \in 1 .. Len(PutBlock(b)) :
              SubSeq(PutBlock(b), 1, Len(PutBlock(b)))[i] = PutBlock(b)[i]
    BY <2>1, PrefixShape
  <2> QED BY <2>1, <2>2, SeqEqual
<1>5. CASE Start
  <2>1. CASE GetHeight(log) = -1
    <3>1. PICK g \in Genesis : log' = log \o PutBlock(g)
      BY <1>5, <2>1 DEF Start
    <3>2. g \in Block
      BY BlocksAssumption
    <3> QED BY <1>3, <1>4, <3>1, <3>2
  <2>2. CASE GetHeight(log) # -1
    BY <1>1, <1>2, <1>5, <2>2 DEF Start
  <2> QED BY <2>1, <2>2
<1>6. ASSUME NEW b \in Block, AddBlock(b)
      PROVE  \E n \in 0 .. Len(log') : log = SubSeq(log', 1, n)
  BY <1>3, <1>4, <1>6 DEF AddBlock
<1>7. ASSUME NEW b \in Block, AddBlockFails(b)
      PROVE  \E n \in 0 .. Len(log') : log = SubSeq(log', 1, n)
  <2>1. PICK n \in 0 .. Len(PutBlock(b)) - 1 : log' = log \o SubSeq(PutBlock(b), 1, n)
    BY <1>7 DEF AddBlockFails
  <2>2. n \in 0 .. Len(PutBlock(b))
    BY PutBlockShape
  <2> QED BY <1>3, <2>1, <2>2
<1>8. CASE Close \/ UNCHANGED vars
  BY <1>1, <1>2, <1>8 DEF Close, vars
<1>9. CASE Crash
  BY <1>9 DEF Crash
<1> QED BY <1>5, <1>6, <1>7, <1>8, <1>9 DEF Next

\* A block never leaves its height while the height is in the store.
THEOREM HeightsAlwaysStable == Spec => HeightsStable
<1>1. ASSUME IInv, [Next]_vars
      PROVE  \A h \in Heights(log) \cap Heights(log') :
                GetBlockByHeight(log', h) = GetBlockByHeight(log, h)
  <2>1. Good(log) /\ Good(log')
    BY <1>1, IInvNext DEF IInv
  <2>2. CASE \E n \in 0 .. Len(log') : log = SubSeq(log', 1, n)
    BY <2>1, <2>2, PrefixReads
  <2>3. CASE \E n \in 0 .. Len(log) : log' = SubSeq(log, 1, n)
    BY <2>1, <2>3, PrefixReads
  <2> QED BY <1>1, <2>2, <2>3, StepIsPrefix
<1> QED BY <1>1, Invariance, PTL DEF Spec, HeightsStable

-----------------------------------------------------------------------------
(* The store implements ChainSpec *)

LEMMA ChainShape ==
    ASSUME NEW l, Good(l)
    PROVE  /\ StoredChain(l) \in Seq(Block)
           /\ Len(StoredChain(l)) = GetHeight(l) + 1
           /\ GetHeight(l) + 1 \in Nat
           /\ \A n \in 1 .. GetHeight(l) + 1 :
                 StoredChain(l)[n] = GetBlockByHeight(l, n - 1)
           /\ \A h \in Heights(l) : StoredChain(l)[h + 1] = GetBlockByHeight(l, h)
<1>1. GetHeight(l) + 1 \in Nat /\ Heights(l) = 0 .. GetHeight(l)
  BY HeightsAreInitial
<1>2. ASSUME NEW n \in 1 .. GetHeight(l) + 1 PROVE GetBlockByHeight(l, n - 1) \in Block
  <2>1. n - 1 \in Heights(l)
    <3>1. GetHeight(l) \in Int
      BY HeightsAreInitial
    <3> QED BY <1>1, <3>1
  <2>2. PICK i \in DOMAIN l : l[i].ns = "H" /\ l[i].id = n - 1
    BY <2>1 DEF Heights
  <2>3. GetBlockByHeight(l, l[i].id) = l[i].val /\ l[i].val \in Block
    BY <2>2, ReadHeight
  <2> QED BY <2>2, <2>3
<1>3. ASSUME NEW h \in Heights(l)
      PROVE  StoredChain(l)[h + 1] = GetBlockByHeight(l, h)
  <2>1. PICK n \in Int : n = h + 1
    BY <1>1
  <2>2. n \in 1 .. GetHeight(l) + 1 /\ n - 1 = h
    <3>1. h \in 0 .. GetHeight(l) /\ GetHeight(l) \in Int
      BY HeightsAreInitial
    <3> QED BY <2>1, <3>1
  <2>3. StoredChain(l)[n] = GetBlockByHeight(l, n - 1)
    BY <2>2 DEF StoredChain
  <2> QED BY <2>1, <2>2, <2>3
<1> QED BY <1>1, <1>2, <1>3 DEF StoredChain

\* The chain of a prefix of the log is a prefix of the chain.
LEMMA ChainOfPrefix ==
    ASSUME NEW l, Good(l), NEW n \in 0 .. Len(l), NEW p, p = SubSeq(l, 1, n)
    PROVE  /\ GetHeight(p) + 1 \in 0 .. Len(StoredChain(l))
           /\ StoredChain(p) = SubSeq(StoredChain(l), 1, GetHeight(p) + 1)
<1> DEFINE k == GetHeight(p) + 1
           c == StoredChain(l)
<1>1. Good(p)
  BY PrefixGood
<1>2. /\ StoredChain(p) \in Seq(Block) /\ Len(StoredChain(p)) = k /\ k \in Nat
      /\ \A i \in 1 .. k : StoredChain(p)[i] = GetBlockByHeight(p, i - 1)
  BY <1>1, ChainShape
<1>3. /\ c \in Seq(Block) /\ Len(c) = GetHeight(l) + 1
      /\ \A i \in 1 .. GetHeight(l) + 1 : c[i] = GetBlockByHeight(l, i - 1)
  BY ChainShape
<1>4. GetHeight(p) <= GetHeight(l) /\ GetHeight(p) \in Int /\ GetHeight(l) \in Int
  BY <1>1, PrefixReads, HeightsAreInitial
<1>5. \A h \in 0 .. GetHeight(p) : GetBlockByHeight(p, h) = GetBlockByHeight(l, h)
  <2>1. Heights(p) = 0 .. GetHeight(p)
    BY <1>1, HeightsAreInitial
  <2>2. \A h \in Heights(p) : GetBlockByHeight(p, h) = GetBlockByHeight(l, h)
    BY PrefixReads
  <2> QED BY <2>1, <2>2
<1> HIDE DEF c
<1>6. \A i \in 1 .. k : StoredChain(p)[i] = c[i]
  <2> TAKE i \in 1 .. k
  <2>1. i - 1 \in 0 .. GetHeight(p) /\ i \in 1 .. GetHeight(l) + 1
    BY <1>4
  <2> QED BY <1>2, <1>3, <1>5, <2>1
<1>7. k \in 0 .. Len(c)
  BY <1>2, <1>3, <1>4
<1>8. /\ SubSeq(c, 1, k) \in Seq(Block)
      /\ Len(SubSeq(c, 1, k)) = k
      /\ \A i \in 1 .. k : SubSeq(c, 1, k)[i] = c[i]
  <2>1. \A i \in 1 .. k : c[i] \in Block
    BY <1>3, <1>7
  <2>2. k \in Int /\ 1 \in Int /\ k = k - 1 + 1
    BY <1>2
  <2> HIDE DEF k
  <2> QED BY <1>2, <2>1, <2>2, SubSeqProperties
<1>9. StoredChain(p) = SubSeq(c, 1, k)
  BY <1>2, <1>6, <1>8, SeqEqual
<1> QED BY <1>7, <1>9 DEF c

\* put_block appends one block to the chain.
LEMMA ChainOfExtend ==
    ASSUME NEW l, Good(l), NEW b \in Block, Attaches(l, b)
    PROVE  StoredChain(l \o PutBlock(b)) = Append(StoredChain(l), b)
<1> DEFINE m == l \o PutBlock(b)
           c == StoredChain(l)
           d == StoredChain(m)
<1>1. Good(m) /\ GetHeight(m) = GetHeight(l) + 1
  BY ExtendGood, ExtendReads
<1>2. GetBlockByHeight(m, GetHeight(m)) = b
  BY ExtendReads
<1>3. /\ d \in Seq(Block) /\ Len(d) = GetHeight(m) + 1
      /\ \A i \in 1 .. GetHeight(m) + 1 : d[i] = GetBlockByHeight(m, i - 1)
  BY <1>1, ChainShape
<1>4. c \in Seq(Block) /\ Len(c) = GetHeight(l) + 1 /\ GetHeight(l) + 1 \in Nat
  BY ChainShape
<1>5. l = SubSeq(m, 1, Len(l)) /\ Len(l) \in 0 .. Len(m)
  <2>1. l \in Seq(Entry) /\ m \in Seq(Entry)
    BY <1>1 DEF Good
  <2> HIDE DEF m
  <2>2. /\ Len(l) \in Nat /\ Len(m) \in Nat /\ Len(m) >= Len(l) + 2
    BY <2>1, ExtendShape DEF m
  <2>3. \A i \in 1 .. Len(l) : m[i] = l[i]
    BY <2>1, ExtendShape DEF m
  <2>4. Len(l) \in 0 .. Len(m)
    BY <2>2
  <2>5. /\ SubSeq(m, 1, Len(l)) \in Seq(Entry)
        /\ Len(SubSeq(m, 1, Len(l))) = Len(l)
        /\ \A i \in 1 .. Len(l) : SubSeq(m, 1, Len(l))[i] = m[i]
    BY <2>1, <2>4, PrefixShape
  <2> QED BY <2>1, <2>3, <2>4, <2>5, SeqEqual
<1>6. c = SubSeq(d, 1, Len(c))
  <2> HIDE DEF m
  <2>1. c = SubSeq(d, 1, GetHeight(l) + 1)
    BY <1>1, <1>5, ChainOfPrefix
  <2> QED BY <1>4, <2>1
<1> HIDE DEF m, c, d
<1>7. Len(d) = Len(c) + 1 /\ d[Len(c) + 1] = b /\ Len(c) \in Nat
  <2>1. GetHeight(m) \in Heights(m)
    BY <1>1, <1>4, HeightsAreInitial
  <2>2. d[GetHeight(m) + 1] = GetBlockByHeight(m, GetHeight(m))
    BY <1>1, <2>1, ChainShape DEF d
  <2> QED BY <1>1, <1>2, <1>3, <1>4, <2>2
<1>8. \A i \in 1 .. Len(c) : c[i] = d[i]
  <2>1. \A i \in 1 .. Len(c) : d[i] \in Block
    BY <1>3, <1>7
  <2>2. \A i \in 1 .. Len(c) : SubSeq(d, 1, Len(c))[i] = d[i]
    <3>1. Len(c) \in Int /\ 1 \in Int /\ Len(c) = Len(c) - 1 + 1
      BY <1>7
    <3> QED BY <2>1, <3>1, SubSeqProperties
  <2> QED BY <1>6, <2>2
<1>9. /\ Append(c, b) \in Seq(Block)
      /\ Len(Append(c, b)) = Len(c) + 1
      /\ \A i \in 1 .. Len(c) : Append(c, b)[i] = c[i]
      /\ Append(c, b)[Len(c) + 1] = b
  BY <1>4, AppendProperties
<1>10. \A i \in 1 .. Len(d) : d[i] = Append(c, b)[i]
  BY <1>7, <1>8, <1>9
<1>11. d = Append(c, b)
  BY <1>3, <1>7, <1>9, <1>10, SeqEqual
<1> QED BY <1>11 DEF m, c, d

\* A put_block that stops early appends the block or does nothing.
LEMMA ChainOfPartial ==
    ASSUME NEW l, Good(l), NEW b \in Block, Attaches(l, b),
           NEW n \in 0 .. Len(PutBlock(b)),
           NEW p, p = l \o SubSeq(PutBlock(b), 1, n)
    PROVE  StoredChain(p) \in {StoredChain(l), Append(StoredChain(l), b)}
<1> DEFINE m == l \o PutBlock(b)
           c == StoredChain(l)
           d == StoredChain(m)
<1>1. Good(m) /\ GetHeight(m) = GetHeight(l) + 1
  BY ExtendGood, ExtendReads
<1>2. d = Append(c, b)
  BY ChainOfExtend
<1>3. l \in Seq(Entry)
  BY DEF Good
<1>4. Good(p)
  BY PartialExtendGood
<1>5. /\ Len(l) \in Nat /\ Len(l) + n \in 0 .. Len(m)
      /\ p = SubSeq(m, 1, Len(l) + n)
      /\ l = SubSeq(p, 1, Len(l))
      /\ Len(p) = Len(l) + n
  BY <1>3, PartialExtend
<1>6. GetHeight(p) <= GetHeight(m) /\ StoredChain(p) = SubSeq(d, 1, GetHeight(p) + 1)
  <2> HIDE DEF m
  <2> QED BY <1>1, <1>5, PrefixReads, ChainOfPrefix
<1>7. GetHeight(l) <= GetHeight(p)
  <2>1. Len(l) \in 0 .. Len(p)
    BY <1>5
  <2> QED BY <1>4, <1>5, <2>1, PrefixReads
<1>8. /\ GetHeight(l) \in Int /\ GetHeight(p) \in Int /\ GetHeight(m) \in Int
      /\ GetHeight(l) >= -1
  BY <1>1, <1>4, HeightsAreInitial
<1>9. /\ c \in Seq(Block) /\ Len(c) = GetHeight(l) + 1
      /\ d \in Seq(Block) /\ Len(d) = GetHeight(m) + 1
  BY <1>1, ChainShape
<1>10. CASE GetHeight(p) = GetHeight(l)
  <2>1. StoredChain(p) = SubSeq(d, 1, GetHeight(l) + 1)
    BY <1>6, <1>10
  <2>2. \A i \in 1 .. Len(c) : d[i] = c[i]
    BY <1>2, <1>9, AppendProperties
  <2> HIDE DEF c, d, m
  <2>3. \A i \in 1 .. Len(c) : d[i] \in Block
    BY <1>9, <2>2
  <2>4. Len(c) \in Int /\ 1 \in Int /\ Len(c) = Len(c) - 1 + 1 /\ Len(c) >= 0
    BY <1>8, <1>9
  <2>5. /\ SubSeq(d, 1, Len(c)) \in Seq(Block)
        /\ Len(SubSeq(d, 1, Len(c))) = IF 1 <= Len(c) THEN Len(c) - 1 + 1 ELSE 0
        /\ \A i \in 1 .. Len(c) : SubSeq(d, 1, Len(c))[i] = d[i]
    BY <2>3, <2>4, SubSeqProperties
  <2>6. Len(SubSeq(d, 1, Len(c))) = Len(c)
    BY <2>4, <2>5
  <2>7. SubSeq(d, 1, Len(c)) = c
    BY <1>9, <2>2, <2>5, <2>6, SeqEqual
  <2> QED BY <1>9, <2>1, <2>7 DEF c
<1>11. CASE GetHeight(p) = GetHeight(m)
  <2> HIDE DEF c, d, m
  <2>1. StoredChain(p) = SubSeq(d, 1, Len(d))
    BY <1>6, <1>9, <1>11
  <2>2. SubSeq(d, 1, Len(d)) = d
    BY <1>9
  <2> QED BY <1>2, <2>1, <2>2 DEF c
<1> QED BY <1>1, <1>6, <1>7, <1>8, <1>10, <1>11

\* Every behaviour of the store is a behaviour of ChainSpec.
THEOREM Refinement == Spec => ImplementsChain
<1>1. Init => Abs!Init
  <2> SUFFICES ASSUME Init PROVE Abs!Init
    OBVIOUS
  <2>1. Good(log) /\ log = <<>>
    BY IInvInit DEF IInv, Init
  <2>2. GetHeight(log) = -1
    BY <2>1 DEF GetHeight, Heights
  <2>3. StoredChain(log) \in Seq(Block) /\ Len(StoredChain(log)) = 0
    BY <2>1, <2>2, ChainShape
  <2>4. StoredChain(log) = <<>>
    BY <2>3
  <2> QED BY <2>4 DEF Init, Abs!Init
<1>2. ASSUME IInv, [Next]_vars
      PROVE  [Abs!Next]_(Abs!vars)
  <2>1. Good(log) /\ Good(log') /\ (up => Heights(log) # {})
    BY <1>2, IInvNext DEF IInv
  <2>2. /\ StoredChain(log) \in Seq(Block)
        /\ Len(StoredChain(log)) = GetHeight(log) + 1
        /\ GetHeight(log) \in Int
    BY <2>1, ChainShape, HeightsAreInitial
  <2>3. ASSUME NEW b \in Block, up, Accepts(log, b), up' = up,
               StoredChain(log') = Append(StoredChain(log), b)
        PROVE  Abs!Extend(b)
    <3>1. Heights(log) # {} /\ GetHeight(log) \in Nat
      <4>1. Heights(log) # {}
        BY <2>1, <2>3
      <4>2. GetHeight(log) \in Int /\ GetHeight(log) >= -1 /\ GetHeight(log) # -1
        BY <2>1, <4>1, HeightsAreInitial
      <4> QED BY <4>1, <4>2
    <3>2. GetLastBlock(log) = GetBlockByHeight(log, GetHeight(log))
      BY <3>1 DEF GetLastBlock
    <3>3. StoredChain(log)[GetHeight(log) + 1] = GetBlockByHeight(log, GetHeight(log))
      <4>1. GetHeight(log) \in Heights(log)
        BY <2>1, <3>1, HeightsAreInitial
      <4> QED BY <2>1, <4>1, ChainShape
    <3>4. Abs!Tip = GetLastBlock(log)
      BY <2>2, <3>2, <3>3 DEF Abs!Tip
    <3>5. Validate(b, GetLastBlock(log), header[GetLastBlock(log)].height, header[b].bits)
      BY <2>3 DEF Accepts
    <3> QED BY <2>3, <3>4, <3>5 DEF Abs!Extend, Abs!Validate, Validate,
                ContentValid, Abs!ContentValid, ValidatePow, Abs!ValidatePow,
                Target, Abs!Target, TxsOf, Abs!TxsOf
  <2>4. CASE Start
    <3>1. CASE GetHeight(log) = -1
      <4>1. PICK g \in Genesis : log' = log \o PutBlock(g)
        BY <2>4, <3>1 DEF Start
      <4>2. g \in Block /\ Attaches(log, g)
        BY <2>1, <3>1, GenesisAttaches
      <4>3. StoredChain(log') = Append(StoredChain(log), g)
        BY <2>1, <4>1, <4>2, ChainOfExtend
      <4>4. StoredChain(log) = <<>>
        BY <2>2, <3>1
      <4>5. StoredChain(log') = <<g>>
        BY <4>3, <4>4
      <4> QED BY <2>4, <4>4, <4>5 DEF Start, Abs!Next, Abs!Boot
    <3>2. CASE GetHeight(log) # -1
      <4>1. log' = log
        BY <2>4, <3>2 DEF Start
      <4>2. StoredChain(log) # <<>>
        BY <2>2, <3>2
      <4> QED BY <2>4, <4>1, <4>2 DEF Start, Abs!Next, Abs!Boot
    <3> QED BY <3>1, <3>2
  <2>5. ASSUME NEW b \in Block, AddBlock(b) PROVE Abs!Extend(b)
    <3>1. Attaches(log, b)
      BY <2>1, <2>5, AcceptedAttaches DEF AddBlock
    <3>2. StoredChain(log') = Append(StoredChain(log), b)
      BY <2>1, <2>5, <3>1, ChainOfExtend DEF AddBlock
    <3> QED BY <2>3, <2>5, <3>2 DEF AddBlock
  <2>6. ASSUME NEW b \in Block, AddBlockFails(b) PROVE [Abs!Next]_(Abs!vars)
    <3>1. Attaches(log, b)
      BY <2>1, <2>6, AcceptedAttaches DEF AddBlockFails
    <3>2. PICK n \in 0 .. Len(PutBlock(b)) - 1 : log' = log \o SubSeq(PutBlock(b), 1, n)
      BY <2>6 DEF AddBlockFails
    <3>3. n \in 0 .. Len(PutBlock(b))
      BY PutBlockShape
    <3>4. StoredChain(log') \in {StoredChain(log), Append(StoredChain(log), b)}
      BY <2>1, <3>1, <3>2, <3>3, ChainOfPartial
    <3>5. CASE StoredChain(log') = StoredChain(log)
      BY <2>6, <3>5 DEF AddBlockFails, Abs!vars
    <3>6. CASE StoredChain(log') = Append(StoredChain(log), b)
      BY <2>3, <2>6, <3>6 DEF AddBlockFails, Abs!Next
    <3> QED BY <3>4, <3>5, <3>6
  <2>7. ASSUME NEW n \in 0 .. Len(log), log' = SubSeq(log, 1, n), up, up' = FALSE
        PROVE  Abs!Halt
    <3>1. /\ GetHeight(log') + 1 \in 0 .. Len(StoredChain(log))
          /\ StoredChain(log') = SubSeq(StoredChain(log), 1, GetHeight(log') + 1)
      BY <2>1, <2>7, ChainOfPrefix
    <3> QED BY <2>7, <3>1 DEF Abs!Halt
  <2>8. CASE Close
    <3>1. Len(StoredChain(log)) \in 0 .. Len(StoredChain(log))
      BY <2>2
    <3>2. StoredChain(log) = SubSeq(StoredChain(log), 1, Len(StoredChain(log)))
      BY <2>2
    <3> QED BY <2>8, <3>1, <3>2 DEF Close, Abs!Next, Abs!Halt
  <2>9. CASE Crash
    BY <2>7, <2>9 DEF Crash, Abs!Next
  <2>10. CASE UNCHANGED vars
    BY <2>10 DEF vars, Abs!vars
  <2> QED BY <1>2, <2>4, <2>5, <2>6, <2>8, <2>9, <2>10 DEF Next, Abs!Next
<1> QED BY <1>1, <1>2, Invariance, PTL DEF Spec, ImplementsChain, Abs!Spec
=============================================================================
