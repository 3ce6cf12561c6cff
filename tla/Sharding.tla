------------------------------- MODULE Sharding -------------------------------
(***************************************************************************)
(* Master::create_sharding_data: the shard size from the total size of the *)
(* input blobs (DBConnection::calc_shard_sz, in single precision), the cut *)
(* of the blobs into pieces (make_shards), and the joining of the pieces   *)
(* into the shards of the job.  The loops run one turn per step.           *)
(***************************************************************************)
EXTENDS Integers, Sequences

CONSTANTS
    Inputs,     \* the containers considered: sequences of blob sizes
    MaxMappers, \* bound: the m of the request
    FloatBits,  \* bits of a float's significand (24 in the code)
    OffsetBits  \* bits of an offset in a MapperInput (32 in the code)

VARIABLES
    sizes,         \* sizes of the blobs, in list_blobs order
    m_nmappers,
    shard_sz,
    pc,            \* blob, piece, join, done
    k,             \* the current blob
    rem_shard_sz, begin, end,
    shard_list,    \* the pieces
    info_set,      \* the pieces of the shard being joined
    m_shards

pieceVars == <<k, rem_shard_sz, begin, end, shard_list>>
joinVars == <<info_set, m_shards>>
vars == <<sizes, m_nmappers, shard_sz, pc, pieceVars, joinVars>>

-------------------------------------------------------------------------------
(* Single precision.                                                         *)

\* num / den to the nearest integer, a tie to the even one.
RoundedQuotient(num, den) ==
    LET q == num \div den
        r == 2 * (num % den)
    IN  IF r > den \/ (r = den /\ q % 2 = 1) THEN q + 1 ELSE q

\* bound on a float's exponent
MaxExponent == FloatBits + 8

\* num / den as a float, and then through ceil: the quotient is rounded to a
\* multiple of the power of two 2^e that leaves FloatBits bits.
CeilOfFloat(num, den) ==
    IF num = 0 THEN 0
    ELSE LET Up(e) == IF e < 0 THEN num * 2^(-e) ELSE num
             Down(e) == IF e < 0 THEN den ELSE den * 2^e
             e == CHOOSE x \in -MaxExponent..MaxExponent :
                     (Up(x) \div Down(x)) \in 2^(FloatBits - 1)..2^FloatBits - 1
             m == RoundedQuotient(Up(e), Down(e))
         IN  IF e < 0 THEN (m + 2^(-e) - 1) \div 2^(-e) ELSE m * 2^e

\* tot_sz += blob_sz, blob by blob; every operand and every sum is a float.
TotalSize(s) ==
    LET tot_sz[i \in 0..Len(s)] ==
            IF i = 0 THEN 0
            ELSE CeilOfFloat(tot_sz[i - 1] + CeilOfFloat(s[i], 1), 1)
    IN  tot_sz[Len(s)]

\* ceil(tot_sz/nshards)
calc_shard_sz(s, nshards) == CeilOfFloat(TotalSize(s), nshards)

\* One more than the largest offset of a MapperInput.
OffsetLimit == 2^(OffsetBits - 1)

ASSUME ShardingAssumption ==
    /\ Inputs \subseteq Seq(Nat)
    /\ MaxMappers \in Nat
    /\ FloatBits \in Nat
    /\ OffsetBits \in Nat \ {0}
    /\ OffsetLimit \in Nat \ {0}

\* The size is a number, and 0 only if there is no data: make_shards would never
\* leave a blob with a size of 0.
ASSUME ShardSizeAssumption ==
    \A s \in Inputs, n \in 1..MaxMappers :
        /\ calc_shard_sz(s, n) \in Nat
        /\ calc_shard_sz(s, n) = 0 => \A i \in DOMAIN s : s[i] = 0

-------------------------------------------------------------------------------
Init ==
    /\ sizes \in Inputs
    /\ m_nmappers \in 1..MaxMappers
    /\ shard_sz = calc_shard_sz(sizes, m_nmappers)
    /\ pc = "blob"
    /\ k = 1
    /\ rem_shard_sz = shard_sz
    /\ begin = 0
    /\ end = 0
    /\ shard_list = <<>>
    /\ info_set = <<>>
    /\ m_shards = <<>>

Piece(from, to, partial) == [blob |-> k, begin |-> from, end |-> to, is_partial |-> partial]

\* Mutant: every blob starts a new shard.
EnterBlobAfresh ==
    /\ pc = "blob"
    /\ k <= Len(sizes)
    /\ begin' = 0
    /\ end' = shard_sz
    /\ pc' = "piece"
    /\ UNCHANGED <<sizes, m_nmappers, shard_sz, k, rem_shard_sz, shard_list, joinVars>>

\* Mutant: an empty blob is skipped by a jump that does not advance the iterator.
EnterBlobUnlessEmpty ==
    /\ pc = "blob"
    /\ k <= Len(sizes)
    /\ IF sizes[k] = 0
       THEN UNCHANGED <<begin, end, pc>>
       ELSE begin' = 0 /\ end' = rem_shard_sz /\ pc' = "piece"
    /\ UNCHANGED <<sizes, m_nmappers, shard_sz, k, rem_shard_sz, shard_list, joinVars>>

\* The next blob: its first piece fills up the shard the previous blob left open.
EnterBlob ==
    /\ pc = "blob"
    /\ k <= Len(sizes)
    /\ begin' = 0
    /\ end' = rem_shard_sz
    /\ pc' = "piece"
    /\ UNCHANGED <<sizes, m_nmappers, shard_sz, k, rem_shard_sz, shard_list, joinVars>>

\* begin = end; end = begin + shard_sz;
Advance == begin' = end /\ end' = end + shard_sz

\* Mutant: the next shard starts with what was left of this one.
KeepRemainder == UNCHANGED rem_shard_sz

\* The next shard is empty.
ResetRemainder == rem_shard_sz' = shard_sz

\* A piece that completes a shard.
FullPiece ==
    /\ pc = "piece"
    /\ end <= sizes[k]
    /\ shard_list' = Append(shard_list, Piece(begin, end, FALSE))
    /\ ResetRemainder
    /\ IF end = sizes[k]
       THEN k' = k + 1 /\ pc' = "blob" /\ UNCHANGED <<begin, end>>
       ELSE Advance /\ UNCHANGED <<k, pc>>
    /\ UNCHANGED <<sizes, m_nmappers, shard_sz, joinVars>>

\* rem_shard_sz - (blob_sz - begin)
SubtractPiece == rem_shard_sz' = rem_shard_sz - (sizes[k] - begin)

\* The rest of a blob, too short to complete a shard.
TailPiece ==
    /\ pc = "piece"
    /\ end > sizes[k]
    /\ shard_list' = Append(shard_list, Piece(begin, sizes[k], TRUE))
    /\ SubtractPiece
    /\ k' = k + 1
    /\ pc' = "blob"
    /\ UNCHANGED <<sizes, m_nmappers, shard_sz, begin, end, joinVars>>

\* No more blobs.  From here k is the next piece to join.
StartJoin ==
    /\ pc = "blob"
    /\ k > Len(sizes)
    /\ pc' = "join"
    /\ k' = 1
    /\ UNCHANGED <<sizes, m_nmappers, shard_sz, rem_shard_sz, begin, end, shard_list, joinVars>>

\* A piece joins the open shard and, unless it is partial, closes it.
JoinPiece ==
    /\ pc = "join"
    /\ k <= Len(shard_list)
    /\ LET joined == Append(info_set, shard_list[k]) IN
         IF shard_list[k].is_partial
         THEN info_set' = joined /\ UNCHANGED m_shards
         ELSE m_shards' = Append(m_shards, joined) /\ info_set' = <<>>
    /\ k' = k + 1
    /\ UNCHANGED <<sizes, m_nmappers, shard_sz, pc, rem_shard_sz, begin, end, shard_list>>

\* Mutant: the pieces that fill no shard are dropped.
JoinNoRest ==
    /\ pc = "join"
    /\ k > Len(shard_list)
    /\ pc' = "done"
    /\ UNCHANGED <<sizes, m_nmappers, shard_sz, pieceVars, joinVars>>

\* What is left makes one more shard.
JoinRest ==
    /\ pc = "join"
    /\ k > Len(shard_list)
    /\ m_shards' = IF info_set = <<>> THEN m_shards ELSE Append(m_shards, info_set)
    /\ pc' = "done"
    /\ UNCHANGED <<sizes, m_nmappers, shard_sz, pieceVars, info_set>>

\* A size_t offset as the worker gets it: the low bits, as a signed number.
Wire(offset) == ((offset + OffsetLimit) % (2 * OffsetLimit)) - OffsetLimit

\* invokeMapTaskAsync: a shard's pieces as ShardTuples.
ShardTuples(shard) ==
    [i \in DOMAIN shard |-> [shard[i] EXCEPT !.begin = Wire(@), !.end = Wire(@)]]

Sharded ==
    /\ pc = "done"
    /\ UNCHANGED vars

Step == EnterBlob \/ FullPiece \/ TailPiece \/ StartJoin \/ JoinPiece \/ JoinRest

Next == Step \/ Sharded

Spec == Init /\ [][Next]_vars

FairSpec == Spec /\ WF_vars(Step)

-------------------------------------------------------------------------------
PieceType == [blob : Nat, begin : Nat, end : Nat, is_partial : BOOLEAN]

\* Every variable has its type; offsets and sizes, all size_t, never go below 0.
TypeOK ==
    /\ sizes \in Inputs
    /\ m_nmappers \in 1..MaxMappers
    /\ shard_sz \in Nat
    /\ pc \in {"blob", "piece", "join", "done"}
    /\ k \in Nat
    /\ rem_shard_sz \in Nat
    /\ begin \in Nat
    /\ end \in Nat
    /\ shard_list \in Seq(PieceType)
    /\ info_set \in Seq(PieceType)
    /\ m_shards \in Seq(Seq(PieceType))

\* Piece q starts where piece p ends: in the same blob, or at the start of the next
\* blob when p ends its own.
Follows(p, q) ==
    IF q.blob = p.blob
    THEN q.begin = p.end
    ELSE q.blob = p.blob + 1 /\ p.end = sizes[p.blob] /\ q.begin = 0

\* make_shards skips no byte and takes none twice: the pieces start at the first
\* byte of the first blob, each one follows the one before, and when the cutting
\* is over the last one ends the last blob.
PiecesTile ==
    /\ shard_list # <<>> => shard_list[1].blob = 1 /\ shard_list[1].begin = 0
    /\ \A i \in 1..Len(shard_list) - 1 : Follows(shard_list[i], shard_list[i + 1])
    /\ pc \in {"join", "done"} /\ sizes # <<>> =>
          /\ shard_list # <<>>
          /\ LET last == shard_list[Len(shard_list)]
             IN  last.blob = Len(sizes) /\ last.end = sizes[Len(sizes)]

SumOf(numbers) ==
    LET sum[i \in 0..Len(numbers)] == IF i = 0 THEN 0 ELSE sum[i - 1] + numbers[i]
    IN  sum[Len(numbers)]

\* The bytes of a list of pieces.
Bytes(pieces) == SumOf([i \in DOMAIN pieces |-> pieces[i].end - pieces[i].begin])

\* Every shard but the last has exactly shard_sz bytes, whichever blobs its pieces
\* come from, and the last has no more.
EqualShards ==
    pc = "done" =>
        \A i \in DOMAIN m_shards :
            IF i < Len(m_shards)
            THEN Bytes(m_shards[i]) = shard_sz
            ELSE Bytes(m_shards[i]) <= shard_sz

\* Every byte of the blobs reaches a worker, once: joining loses no piece, and as long
\* as the size of every blob has room in the int32 of a ShardTuple the workers get as
\* many bytes as there are, wherever the pieces were cut.
AllBytesSharded ==
    pc = "done" /\ (\A i \in DOMAIN sizes : sizes[i] < OffsetLimit) =>
        SumOf([i \in DOMAIN m_shards |-> Bytes(ShardTuples(m_shards[i]))]) = SumOf(sizes)

\* rem_shard_sz, a size_t, never wraps below 0, and never is 0 while there is
\* data: it is what the open shard still lacks.
RemainderInRange == rem_shard_sz \in (IF shard_sz = 0 THEN 0 ELSE 1)..shard_sz

\* create_sharding_data ends.
ShardingEnds == <>(pc = "done")
===============================================================================
