----------------------------- MODULE ShardingProofs -----------------------------
(***************************************************************************)
(* make_shards cuts any container of any number of blobs of any sizes into *)
(* pieces that cover every byte once; create_sharding_data joins them into *)
(* shards of shard_sz bytes, but for the last one, and while the offsets   *)
(* fit into their field the workers are given every byte once.  Of         *)
(* calc_shard_sz only ShardSizeAssumption is used, so the result holds     *)
(* whatever the rounding of single precision does to the shard size.       *)
(***************************************************************************)
EXTENDS Sharding, SequenceTheorems, WellFoundedInduction, TLAPS

\* What the cutting loop knows at its two places: the blobs before k are covered,
\* and within blob k the bytes before begin are; end is where the open shard ends.
Last == shard_list[Len(shard_list)]

AtBlob ==
    pc = "blob" =>
        /\ k \in 1..Len(sizes) + 1
        /\ shard_list = <<>> <=> k = 1
        /\ k # 1 => Last.blob = k - 1 /\ Last.end = sizes[k - 1]

AtPiece ==
    pc = "piece" =>
        /\ k \in 1..Len(sizes)
        /\ end = begin + rem_shard_sz
        /\ begin <= sizes[k]
        /\ shard_list = <<>> => k = 1 /\ begin = 0
        /\ shard_list # <<>> =>
              \/ Last.blob = k /\ Last.end = begin
              \/ Last.blob = k - 1 /\ Last.end = sizes[k - 1] /\ begin = 0

AtJoin == pc = "join" => k >= 1

SizeInv == shard_sz = 0 => \A i \in DOMAIN sizes : sizes[i] = 0

ShardInv ==
    /\ TypeOK
    /\ SizeInv
    /\ AtBlob
    /\ AtPiece
    /\ AtJoin
    /\ RemainderInRange
    /\ PiecesTile

\* A piece that continues the list keeps the tiling.
LEMMA AppendPiece ==
    ASSUME NEW list \in Seq(PieceType), NEW p \in PieceType,
           list # <<>> => list[1].blob = 1 /\ list[1].begin = 0,
           list = <<>> => p.blob = 1 /\ p.begin = 0,
           \A i \in 1..Len(list) - 1 : Follows(list[i], list[i + 1]),
           list # <<>> => Follows(list[Len(list)], p)
    PROVE  /\ Append(list, p) \in Seq(PieceType)
           /\ Append(list, p) # <<>>
           /\ Len(Append(list, p)) = Len(list) + 1
           /\ Append(list, p)[Len(list) + 1] = p
           /\ Append(list, p)[1].blob = 1 /\ Append(list, p)[1].begin = 0
           /\ \A i \in 1..Len(Append(list, p)) - 1 :
                 Follows(Append(list, p)[i], Append(list, p)[i + 1])
<1> DEFINE new == Append(list, p)
<1>1. /\ new \in Seq(PieceType)
      /\ Len(new) = Len(list) + 1
      /\ \A i \in 1..Len(list) : new[i] = list[i]
      /\ new[Len(list) + 1] = p
  BY AppendProperties
<1>2. Len(list) \in Nat /\ (list = <<>> <=> Len(list) = 0)
  BY LenProperties, EmptySeq
<1>3. new # <<>>
  BY AppendProperties
<1>4. new[1].blob = 1 /\ new[1].begin = 0
  <2>1. CASE list = <<>>
    BY <1>1, <1>2, <2>1
  <2>2. CASE list # <<>>
    <3>1. new[1] = list[1]
      BY <1>1, <1>2, <2>2
    <3>2. QED
      BY <2>2, <3>1
  <2>3. QED
    BY <2>1, <2>2
<1>5. ASSUME NEW i \in 1..Len(new) - 1 PROVE Follows(new[i], new[i + 1])
  <2>1. i \in 1..Len(list) /\ new[i] = list[i]
    BY <1>1, <1>2
  <2>2. CASE i < Len(list)
    <3>1. i \in 1..Len(list) - 1 /\ new[i + 1] = list[i + 1]
      BY <1>1, <1>2, <2>1, <2>2
    <3>2. QED
      BY <2>1, <3>1
  <2>3. CASE i = Len(list)
    BY <1>1, <1>2, <2>1, <2>3
  <2>4. QED
    BY <1>2, <2>1, <2>2, <2>3
<1>6. QED
  BY <1>1, <1>3, <1>4, <1>5

\* Nothing is cut at first.
LEMMA ShardInit == Init => ShardInv
<1> SUFFICES ASSUME Init PROVE ShardInv
  OBVIOUS
<1>1. /\ shard_sz \in Nat
      /\ SizeInv
  BY ShardSizeAssumption DEF Init, SizeInv
<1>2. sizes \in Seq(Nat) /\ Len(sizes) \in Nat
  BY ShardingAssumption, LenProperties DEF Init
<1>3. TypeOK
  BY <1>1, EmptySeq DEF Init, TypeOK
<1>4. QED
  BY <1>1, <1>2, <1>3, EmptySeq
     DEF Init, ShardInv, AtBlob, AtPiece, AtJoin, RemainderInRange, PiecesTile

\* Every turn of the loops keeps the invariant.
LEMMA ShardNext == ShardInv /\ [Next]_vars => ShardInv'
<1> SUFFICES ASSUME ShardInv, [Next]_vars PROVE ShardInv'
  OBVIOUS
<1> USE DEF pieceVars, joinVars
<1>0. /\ sizes \in Seq(Nat) /\ Len(sizes) \in Nat
      /\ \A i \in 1..Len(sizes) : sizes[i] \in Nat
      /\ DOMAIN sizes = 1..Len(sizes)
      /\ shard_list \in Seq(PieceType) /\ Len(shard_list) \in Nat
      /\ shard_sz \in Nat /\ rem_shard_sz \in Nat /\ begin \in Nat /\ end \in Nat /\ k \in Nat
      /\ info_set \in Seq(PieceType) /\ m_shards \in Seq(Seq(PieceType))
  <2>1. sizes \in Seq(Nat)
    BY ShardingAssumption DEF ShardInv, TypeOK
  <2>2. Len(sizes) \in Nat /\ DOMAIN sizes = 1..Len(sizes) /\ \A i \in 1..Len(sizes) : sizes[i] \in Nat
    BY <2>1, LenProperties, ElementOfSeq
  <2>3. QED
    BY <2>1, <2>2, LenProperties DEF ShardInv, TypeOK
<1>1. CASE EnterBlob
  <2>1. TypeOK' /\ SizeInv' /\ RemainderInRange' /\ PiecesTile'
    BY <1>0, <1>1 DEF EnterBlob, ShardInv, TypeOK, SizeInv, RemainderInRange, PiecesTile, Follows
  <2>2. AtPiece' /\ AtBlob' /\ AtJoin'
    BY <1>0, <1>1 DEF EnterBlob, ShardInv, AtPiece, AtBlob, AtJoin, Last
  <2>3. QED
    BY <2>1, <2>2 DEF ShardInv
<1>2. CASE FullPiece \/ TailPiece
  <2> DEFINE last == IF FullPiece THEN end ELSE sizes[k]
             p == Piece(begin, last, ~FullPiece)
  <2>0. pc = "piece" /\ k \in 1..Len(sizes) /\ sizes[k] \in Nat /\ last \in Nat
    BY <1>0, <1>2 DEF FullPiece, TailPiece, ShardInv, AtPiece
  <2>1. /\ shard_list' = Append(shard_list, p)
        /\ UNCHANGED <<sizes, m_nmappers, shard_sz, info_set, m_shards>>
    BY <1>2 DEF FullPiece, TailPiece
  <2>2. p \in PieceType /\ p.blob = k /\ p.begin = begin /\ p.end = last
    BY <1>0, <2>0 DEF Piece, PieceType
  <2>3. /\ shard_list = <<>> => p.blob = 1 /\ p.begin = 0
        /\ shard_list # <<>> => Follows(Last, p)
    <3>1. /\ shard_list = <<>> => k = 1 /\ begin = 0
          /\ shard_list # <<>> =>
                \/ Last.blob = k /\ Last.end = begin
                \/ Last.blob = k - 1 /\ Last.end = sizes[k - 1] /\ begin = 0
      BY <2>0 DEF ShardInv, AtPiece
    <3>2. shard_list = <<>> => p.blob = 1 /\ p.begin = 0
      BY <3>1, <2>2
    <3> HIDE DEF p
    <3>3. CASE Last.blob = k /\ Last.end = begin
      BY <3>2, <3>3, <2>2 DEF Follows
    <3>4. CASE Last.blob = k - 1 /\ Last.end = sizes[k - 1] /\ begin = 0
      <4>1. /\ p.blob # Last.blob /\ p.blob = Last.blob + 1
            /\ Last.end = sizes[Last.blob] /\ p.begin = 0
        BY <3>4, <2>2, <2>0
      <4>2. QED
        BY <3>2, <4>1 DEF Follows
    <3>5. QED
      BY <3>1, <3>2, <3>3, <3>4
  <2>4. /\ shard_list' \in Seq(PieceType)
        /\ shard_list' # <<>>
        /\ Len(shard_list') = Len(shard_list) + 1
        /\ shard_list'[Len(shard_list) + 1] = p
        /\ shard_list'[1].blob = 1 /\ shard_list'[1].begin = 0
        /\ \A i \in 1..Len(shard_list') - 1 : Follows(shard_list'[i], shard_list'[i + 1])
    BY <1>0, <2>1, <2>2, <2>3, AppendPiece DEF ShardInv, PiecesTile, Last
  <2>5. Last' = p
    BY <2>4 DEF Last
  <2>6. CASE FullPiece
    <3>1. /\ rem_shard_sz' = shard_sz
          /\ \/ end = sizes[k] /\ k' = k + 1 /\ pc' = "blob" /\ begin' = begin /\ end' = end
             \/ /\ end < sizes[k] /\ k' = k /\ pc' = "piece"
                /\ begin' = end /\ end' = end + shard_sz
      BY <1>0, <2>0, <2>6 DEF FullPiece, Advance, ResetRemainder
    <3>2. TypeOK'
      <4>1. k' \in Nat /\ begin' \in Nat /\ end' \in Nat /\ pc' \in {"blob", "piece"}
        BY <1>0, <3>1
      <4>2. QED
        BY <1>0, <2>1, <2>4, <3>1, <4>1 DEF ShardInv, TypeOK
    <3>3. SizeInv' /\ RemainderInRange'
      BY <1>0, <2>1, <3>1 DEF ShardInv, SizeInv, RemainderInRange
    <3>4. PiecesTile'
      BY <2>1, <2>4, <3>1 DEF PiecesTile, Follows
    <3>5. AtPiece' /\ AtBlob' /\ AtJoin'
      <4>1. Last'.blob = k /\ Last'.end = end
        BY <2>2, <2>5, <2>6
      <4>2. CASE pc' = "piece"
        <5>1. k' = k /\ begin' = end /\ end' = begin' + rem_shard_sz' /\ end <= sizes[k]
          BY <1>0, <2>0, <3>1, <4>2
        <5>2. QED
          BY <2>0, <2>1, <2>4, <4>1, <4>2, <5>1 DEF AtPiece, AtBlob, AtJoin
      <4>3. CASE pc' = "blob"
        <5>1. k' = k + 1 /\ end = sizes[k]
          BY <1>0, <3>1, <4>3
        <5>2. k' \in 1..Len(sizes) + 1 /\ k' # 1 /\ k' - 1 = k
          BY <1>0, <2>0, <5>1
        <5>3. QED
          BY <2>1, <2>4, <4>1, <4>3, <5>1, <5>2 DEF AtPiece, AtBlob, AtJoin
      <4>4. QED
        BY <3>1, <4>2, <4>3
    <3>6. QED
      BY <3>2, <3>3, <3>4, <3>5 DEF ShardInv
  <2>7. CASE ~FullPiece
    <3>1. /\ end > sizes[k]
          /\ rem_shard_sz' = rem_shard_sz - (sizes[k] - begin)
          /\ k' = k + 1 /\ pc' = "blob" /\ begin' = begin /\ end' = end
      BY <1>2, <2>7 DEF TailPiece, SubtractPiece
    <3>2. end = begin + rem_shard_sz /\ begin <= sizes[k]
      BY <2>0 DEF ShardInv, AtPiece
    <3>3. RemainderInRange' /\ rem_shard_sz' \in Nat
      <4>1. rem_shard_sz <= shard_sz
        BY <1>0 DEF ShardInv, RemainderInRange
      <4>2. rem_shard_sz' \in 1..shard_sz
        <5>1. /\ begin \in Nat /\ sizes[k] \in Nat /\ rem_shard_sz \in Nat /\ shard_sz \in Nat
              /\ begin <= sizes[k] /\ begin + rem_shard_sz > sizes[k]
          BY <1>0, <2>0, <3>1, <3>2
        <5>2. QED
          BY <3>1, <4>1, <5>1
      <4>3. QED
        BY <1>0, <2>1, <4>2 DEF RemainderInRange
    <3>4. TypeOK'
      BY <1>0, <2>1, <2>4, <3>1, <3>3 DEF ShardInv, TypeOK
    <3>5. SizeInv'
      BY <2>1 DEF ShardInv, SizeInv
    <3>6. PiecesTile'
      BY <2>1, <2>4, <3>1 DEF PiecesTile, Follows
    <3>7. AtPiece' /\ AtBlob' /\ AtJoin'
      <4>1. Last'.blob = k /\ Last'.end = sizes[k]
        BY <2>2, <2>5, <2>7
      <4>2. k' \in 1..Len(sizes) + 1 /\ k' # 1 /\ k' - 1 = k
        BY <1>0, <2>0, <3>1
      <4>3. QED
        BY <2>1, <2>4, <3>1, <4>1, <4>2 DEF AtPiece, AtBlob, AtJoin
    <3>8. QED
      BY <3>3, <3>4, <3>5, <3>6, <3>7 DEF ShardInv
  <2>8. QED
    BY <2>6, <2>7
<1>3. CASE StartJoin
  <2>1. /\ pc = "blob" /\ pc' = "join" /\ k = Len(sizes) + 1 /\ k' = 1
        /\ UNCHANGED <<sizes, m_nmappers, shard_sz, rem_shard_sz, begin, end, shard_list, joinVars>>
    BY <1>0, <1>3 DEF StartJoin, ShardInv, AtBlob
  <2>2. TypeOK' /\ SizeInv' /\ RemainderInRange' /\ AtPiece' /\ AtBlob' /\ AtJoin'
    BY <1>0, <2>1 DEF ShardInv, TypeOK, SizeInv, RemainderInRange, AtPiece, AtBlob, AtJoin
  <2>3. sizes # <<>> => /\ shard_list # <<>>
                        /\ Last.blob = Len(sizes) /\ Last.end = sizes[Len(sizes)]
    BY <1>0, <2>1, EmptySeq DEF ShardInv, AtBlob
  <2>4. PiecesTile'
    BY <2>1, <2>3 DEF ShardInv, PiecesTile, Follows, Last
  <2>5. QED
    BY <2>2, <2>4 DEF ShardInv
<1>4. CASE JoinPiece \/ JoinRest
  <2>1. /\ pc = "join" /\ pc' \in {"join", "done"} /\ k' \in Nat /\ k' >= 1
        /\ UNCHANGED <<sizes, m_nmappers, shard_sz, rem_shard_sz, begin, end, shard_list>>
    BY <1>0, <1>4 DEF JoinPiece, JoinRest, ShardInv, AtJoin
  <2>2. info_set' \in Seq(PieceType) /\ m_shards' \in Seq(Seq(PieceType))
    <3>1. CASE JoinPiece
      <4>1. shard_list[k] \in PieceType
        BY <1>0, <2>1, <3>1, ElementOfSeq DEF JoinPiece, ShardInv, AtJoin
      <4>2. Append(info_set, shard_list[k]) \in Seq(PieceType)
        BY <1>0, <4>1, AppendProperties
      <4>3. Append(m_shards, Append(info_set, shard_list[k])) \in Seq(Seq(PieceType))
        BY <1>0, <4>2, AppendProperties
      <4>4. QED
        BY <1>0, <3>1, <4>2, <4>3, EmptySeq DEF JoinPiece
    <3>2. CASE JoinRest
      BY <1>0, <3>2, AppendProperties DEF JoinRest
    <3>3. QED
      BY <1>4, <3>1, <3>2
  <2>3. TypeOK'
    BY <1>0, <2>1, <2>2 DEF ShardInv, TypeOK
  <2>4. SizeInv' /\ RemainderInRange' /\ AtPiece' /\ AtBlob' /\ AtJoin'
    BY <2>1 DEF ShardInv, SizeInv, RemainderInRange, AtPiece, AtBlob, AtJoin
  <2>5. PiecesTile'
    BY <2>1 DEF ShardInv, PiecesTile, Follows
  <2>6. QED
    BY <2>3, <2>4, <2>5 DEF ShardInv
<1>5. CASE UNCHANGED vars
  BY <1>5 DEF vars, ShardInv, TypeOK, SizeInv, RemainderInRange, AtPiece, AtBlob, AtJoin,
              PiecesTile, Follows, Last
<1>6. QED
  BY <1>1, <1>2, <1>3, <1>4, <1>5 DEF Next, Step, Sharded

\* The invariant holds throughout.
LEMMA ShardInductive == Spec => []ShardInv
  BY ShardInit, ShardNext, PTL DEF Spec

\* make_shards skips no byte and takes none twice, for any blobs and shard size.
THEOREM TilingCorrect == Spec => []PiecesTile
<1>1. ShardInv => PiecesTile
  BY DEF ShardInv
<1>2. QED
  BY <1>1, ShardInductive, PTL

\* rem_shard_sz never wraps, and never is 0 while there is data.
THEOREM RemainderCorrect == Spec => []RemainderInRange
<1>1. ShardInv => RemainderInRange
  BY DEF ShardInv
<1>2. QED
  BY <1>1, ShardInductive, PTL

--------------------------------------------------------------------------------
(* Sums of lists.  What holds of a sum up to every place is proved by looking  *)
(* at the first place where it would not hold.                                *)

\* A set of places has a first one.
LEMMA FirstPlace ==
    ASSUME NEW S, S \subseteq Nat, S # {}
    PROVE  \E n \in S : \A m \in S : n <= m
<1> DEFINE R == OpToRel(<, Nat)
<1>1. \E n \in S : \A m \in S : ~(<<m, n>> \in R)
  <2> HIDE DEF R
  <2>1. IsWellFoundedOn(R, Nat)
    BY NatLessThanWellFounded, Zenon DEF R
  <2>2. QED
    BY <2>1, WFMin, Zenon
<1>2. \A m, n \in S : ~(<<m, n>> \in R) => n <= m
  BY DEF OpToRel
<1>3. QED
  <2> HIDE DEF R
  <2>1. QED
    BY <1>1, <1>2

\* Two sums start alike and go on alike.
Alike(n, g, h) == g[0] = h[0] /\ \A i \in 1..n : g[i - 1] = h[i - 1] => g[i] = h[i]

\* Such sums are the same.
LEMMA SameSums ==
    ASSUME NEW n \in Nat, NEW g, NEW h, Alike(n, g, h)
    PROVE  \A i \in 0..n : g[i] = h[i]
<1> DEFINE Bad == {i \in 0..n : g[i] # h[i]}
<1>1. SUFFICES ASSUME Bad # {} PROVE FALSE
  OBVIOUS
<1>2. PICK i \in Bad : \A j \in Bad : i <= j
  <2>1. Bad \subseteq Nat
    OBVIOUS
  <2> HIDE DEF Bad
  <2>2. QED
    BY <1>1, <2>1, FirstPlace
<1>3. i \in 1..n /\ i - 1 \in 0..n /\ i - 1 \notin Bad
  BY <1>2 DEF Alike
<1>4. QED
  BY <1>2, <1>3 DEF Alike

\* The function by which SumOf is defined.
Sums(s) == CHOOSE sum : sum = [i \in 0..Len(s) |-> IF i = 0 THEN 0 ELSE sum[i - 1] + s[i]]

\* There is a list of sums up to each place, so SumOf has the values it looks to have.
LEMMA SumsAre ==
    ASSUME NEW s \in Seq(Int)
    PROVE  /\ SumOf(s) = Sums(s)[Len(s)]
           /\ Sums(s)[0] = 0
           /\ \A i \in 1..Len(s) : Sums(s)[i] = Sums(s)[i - 1] + s[i]
           /\ \A i \in 0..Len(s) : Sums(s)[i] \in Int
<1> DEFINE n == Len(s)
           UpTo(j, g) == g \in [0..j -> Int] /\ g[0] = 0 /\ \A i \in 1..j : g[i] = g[i - 1] + s[i]
           Bad == {j \in 0..n : ~\E g : UpTo(j, g)}
<1>0. n \in Nat /\ \A i \in 1..n : s[i] \in Int
  BY LenProperties, ElementOfSeq
<1>1. Bad = {}
  <2>1. SUFFICES ASSUME Bad # {} PROVE FALSE
    OBVIOUS
  <2>2. PICK j \in Bad : \A m \in Bad : j <= m
    <3>1. Bad \subseteq Nat
      OBVIOUS
    <3> HIDE DEF Bad
    <3>2. QED
      BY <2>1, <3>1, FirstPlace
  <2>3. j # 0
    <3>1. UpTo(0, [i \in 0..0 |-> 0])
      OBVIOUS
    <3>2. QED
      BY <2>2, <3>1
  <2>4. j \in 1..n /\ j - 1 \in 0..n
    <3> HIDE DEF UpTo, n
    <3>1. QED
      BY <1>0, <2>2, <2>3
  <2>5. PICK g : UpTo(j - 1, g)
    <3> HIDE DEF UpTo
    <3>1. j - 1 \notin Bad
      <4> HIDE DEF Bad
      <4>1. QED
        BY <1>0, <2>2, <2>4
    <3>2. QED
      BY <2>4, <3>1
  <2> DEFINE h == [i \in 0..j |-> IF i < j THEN g[i] ELSE g[j - 1] + s[j]]
  <2>6. UpTo(j, h)
    <3>1. h \in [0..j -> Int]
      BY <1>0, <2>4, <2>5
    <3>2. h[0] = 0
      BY <2>4, <2>5
    <3>3. ASSUME NEW i \in 1..j PROVE h[i] = h[i - 1] + s[i]
      BY <1>0, <2>4, <2>5
    <3>4. QED
      BY <3>1, <3>2, <3>3
  <2>7. QED
    BY <2>2, <2>6
<1>2. PICK g : UpTo(n, g)
  <2> HIDE DEF UpTo
  <2>1. n \in 0..n
    BY <1>0
  <2>2. QED
    BY <1>1, <2>1
<1>3. g = [i \in 0..n |-> IF i = 0 THEN 0 ELSE g[i - 1] + s[i]]
  BY <1>0, <1>2
<1>4. Sums(s) = [i \in 0..n |-> IF i = 0 THEN 0 ELSE Sums(s)[i - 1] + s[i]]
  BY <1>3 DEF Sums
<1>5. Sums(s)[0] = 0 /\ \A i \in 1..n : Sums(s)[i] = Sums(s)[i - 1] + s[i]
  <2> DEFINE f == Sums(s)
  <2>1. f = [i \in 0..n |-> IF i = 0 THEN 0 ELSE f[i - 1] + s[i]]
    BY <1>4
  <2> HIDE DEF f
  <2>2. f[0] = 0 /\ \A i \in 1..n : f[i] = f[i - 1] + s[i]
    BY <1>0, <2>1
  <2>3. QED
    BY <2>2 DEF f
<1>6. \A i \in 0..n : Sums(s)[i] = g[i]
  <2> HIDE DEF n
  <2>1. Sums(s)[0] = g[0] /\ \A i \in 1..n : Sums(s)[i - 1] = g[i - 1] => Sums(s)[i] = g[i]
    BY <1>2, <1>5
  <2>2. Alike(n, Sums(s), g)
    BY <2>1, Zenon DEF Alike
  <2>3. QED
    BY <1>0, <2>2, SameSums
<1>7. SumOf(s) = Sums(s)[n]
  BY Zenon DEF SumOf, Sums
<1>8. QED
  BY <1>2, <1>5, <1>6, <1>7

\* The sum of an empty list, and of a list with one number more.
LEMMA SumOfAppend ==
    /\ SumOf(<<>>) = 0
    /\ \A s \in Seq(Int) : SumOf(s) \in Int
    /\ \A s \in Seq(Int), x \in Int : SumOf(Append(s, x)) = SumOf(s) + x
<1>1. SumOf(<<>>) = 0
  <2>1. <<>> \in Seq(Int) /\ Len(<<>>) = 0
    BY EmptySeq
  <2>2. QED
    BY <2>1, SumsAre
<1>2. ASSUME NEW s \in Seq(Int) PROVE SumOf(s) \in Int
  <2>1. Len(s) \in 0..Len(s)
    BY LenProperties
  <2>2. QED
    BY <2>1, SumsAre
<1>3. ASSUME NEW s \in Seq(Int), NEW x \in Int PROVE SumOf(Append(s, x)) = SumOf(s) + x
  <2> DEFINE t == Append(s, x)
             n == Len(s)
  <2>1. /\ t \in Seq(Int) /\ Len(t) = n + 1 /\ n \in Nat
        /\ \A i \in 1..n : t[i] = s[i]
        /\ t[n + 1] = x
    BY AppendProperties, LenProperties
  <2>2. /\ SumOf(s) = Sums(s)[n] /\ Sums(s)[0] = 0
        /\ \A i \in 1..n : Sums(s)[i] = Sums(s)[i - 1] + s[i]
        /\ \A i \in 0..n : Sums(s)[i] \in Int
    BY SumsAre
  <2> HIDE DEF t
  <2>3. /\ SumOf(t) = Sums(t)[n + 1] /\ Sums(t)[0] = 0
        /\ \A i \in 1..n + 1 : Sums(t)[i] = Sums(t)[i - 1] + t[i]
    BY <2>1, SumsAre
  <2>4. \A i \in 0..n : Sums(t)[i] = Sums(s)[i]
    <3> HIDE DEF n
    <3>1. ASSUME NEW i \in 1..n, Sums(t)[i - 1] = Sums(s)[i - 1] PROVE Sums(t)[i] = Sums(s)[i]
      <4>1. i \in 1..n + 1
        BY <2>1
      <4>2. QED
        BY <2>1, <2>2, <2>3, <3>1, <4>1
    <3>2. n \in Nat /\ Sums(t)[0] = Sums(s)[0]
      BY <2>1, <2>2, <2>3
    <3>3. Alike(n, Sums(t), Sums(s))
      BY <3>1, <3>2, Zenon DEF Alike
    <3>4. QED
      BY <3>2, <3>3, SameSums
  <2>5. Sums(t)[n + 1] = Sums(t)[n] + t[n + 1]
    <3> HIDE DEF n
    <3>1. n + 1 \in 1..n + 1 /\ (n + 1) - 1 = n
      BY <2>1
    <3>2. Sums(t)[n + 1] = Sums(t)[(n + 1) - 1] + t[n + 1]
      BY <2>3, <3>1
    <3>3. QED
      BY <3>1, <3>2
  <2>6. QED
    BY <2>1, <2>2, <2>3, <2>4, <2>5 DEF t
<1>4. QED
  BY <1>1, <1>2, <1>3

--------------------------------------------------------------------------------
(* The bytes of pieces and shards.                                            *)

PieceSizes(pieces) == [i \in DOMAIN pieces |-> pieces[i].end - pieces[i].begin]

ShardSizes(shards) == [i \in DOMAIN shards |-> Bytes(shards[i])]

\* The sum of the first n numbers.
UpTo(s, n) == SumOf(SubSeq(s, 1, n))

\* A piece of a blob of the container.
Stretch == {p \in PieceType : p.blob \in 1..Len(sizes) /\ p.begin <= p.end /\ p.end <= sizes[p.blob]}

StretchInv ==
    /\ shard_list \in Seq(Stretch)
    /\ info_set \in Seq(Stretch)
    /\ m_shards \in Seq(Seq(Stretch))
    /\ pc \in {"blob", "piece"} => info_set = <<>> /\ m_shards = <<>>
    /\ pc = "join" => k \in 1..Len(shard_list) + 1

\* fill[i] is what the open shard has after the i-th piece: a partial piece adds to
\* it, any other one makes it exactly shard_sz.
IsFill(fill, list) ==
    /\ fill \in [0..Len(list) -> 0..shard_sz]
    /\ fill[0] = 0
    /\ \A i \in 1..Len(list) :
          IF list[i].is_partial
          THEN fill[i] = fill[i - 1] + list[i].end - list[i].begin
          ELSE fill[i] = 0 /\ fill[i - 1] + list[i].end - list[i].begin = shard_sz

\* While the blobs are cut rem_shard_sz is what the open shard lacks; when the pieces
\* are joined info_set holds what the open shard has.
FillInv ==
    /\ \E fill :
          /\ IsFill(fill, shard_list)
          /\ pc \in {"blob", "piece"} => fill[Len(shard_list)] = shard_sz - rem_shard_sz
          /\ pc = "join" => Bytes(info_set) = fill[k - 1]
    /\ pc = "join" => \A i \in DOMAIN m_shards : Bytes(m_shards[i]) = shard_sz
    /\ EqualShards

\* The pieces have the bytes of the blobs up to where the cutting is, and the shards
\* those of the pieces up to where the joining is.
BytesInv ==
    /\ pc = "blob" => Bytes(shard_list) = UpTo(sizes, k - 1)
    /\ pc = "piece" => Bytes(shard_list) = UpTo(sizes, k - 1) + begin
    /\ pc = "join" =>
          /\ Bytes(shard_list) = SumOf(sizes)
          /\ SumOf(ShardSizes(m_shards)) + Bytes(info_set) = UpTo(PieceSizes(shard_list), k - 1)
    /\ pc = "done" => SumOf(ShardSizes(m_shards)) = SumOf(sizes)

\* Adding a piece adds its bytes.
LEMMA BytesAppend ==
    /\ Bytes(<<>>) = 0
    /\ \A list \in Seq(PieceType) :
          /\ PieceSizes(list) \in Seq(Int) /\ Len(PieceSizes(list)) = Len(list)
          /\ Bytes(list) \in Int /\ Bytes(list) = SumOf(PieceSizes(list))
    /\ \A list \in Seq(PieceType), p \in PieceType :
          Bytes(Append(list, p)) = Bytes(list) + p.end - p.begin
<1>1. \A list : Bytes(list) = SumOf(PieceSizes(list))
  BY Zenon DEF Bytes, PieceSizes
<1>2. ASSUME NEW list \in Seq(PieceType)
      PROVE  PieceSizes(list) \in Seq(Int) /\ Len(PieceSizes(list)) = Len(list)
  <2>1. Len(list) \in Nat /\ DOMAIN list = 1..Len(list) /\ \A i \in 1..Len(list) : list[i] \in PieceType
    BY LenProperties, ElementOfSeq
  <2>2. PieceSizes(list) \in [1..Len(list) -> Int]
    BY <2>1 DEF PieceSizes, PieceType
  <2>3. QED
    BY <2>1, <2>2, SeqDef, LenProperties
<1>3. Bytes(<<>>) = 0
  <2>1. <<>> \in Seq(PieceType) /\ Len(<<>>) = 0
    BY EmptySeq
  <2>2. PieceSizes(<<>>) = <<>>
    BY <1>2, <2>1, EmptySeq
  <2>3. QED
    BY <1>1, <2>2, SumOfAppend
<1>4. ASSUME NEW list \in Seq(PieceType), NEW p \in PieceType
      PROVE  Bytes(Append(list, p)) = Bytes(list) + p.end - p.begin
  <2> DEFINE t == Append(list, p)
             x == p.end - p.begin
             u == PieceSizes(list)
  <2>1. x \in Int
    BY DEF PieceType
  <2>2. /\ t \in Seq(PieceType) /\ Len(t) = Len(list) + 1
        /\ \A i \in 1..Len(list) : t[i] = list[i]
        /\ t[Len(list) + 1] = p
        /\ Len(list) \in Nat /\ DOMAIN list = 1..Len(list) /\ DOMAIN t = 1..Len(t)
    BY AppendProperties, LenProperties
  <2>3. u \in Seq(Int) /\ Len(u) = Len(list)
    BY <1>2
  <2>4. PieceSizes(t) \in Seq(Int) /\ Len(PieceSizes(t)) = Len(t)
    BY <1>2, <2>2
  <2>5. /\ Append(u, x) \in Seq(Int) /\ Len(Append(u, x)) = Len(u) + 1
        /\ \A i \in 1..Len(u) : Append(u, x)[i] = u[i]
        /\ Append(u, x)[Len(u) + 1] = x
    <3> HIDE DEF u, x
    <3>1. QED
      BY <2>1, <2>3, AppendProperties
  <2>6. PieceSizes(t) = Append(u, x)
    <3>1. \A i \in 1..Len(t) : PieceSizes(t)[i] = t[i].end - t[i].begin
      BY <2>2 DEF PieceSizes
    <3>2. \A i \in 1..Len(list) : u[i] = list[i].end - list[i].begin
      BY <2>2 DEF PieceSizes
    <3>3. ASSUME NEW i \in 1..Len(t) PROVE PieceSizes(t)[i] = Append(u, x)[i]
      <4>1. CASE i = Len(list) + 1
        BY <2>2, <2>3, <2>5, <3>1, <4>1
      <4>2. CASE i # Len(list) + 1
        <5>1. i \in 1..Len(list)
          BY <2>2, <4>2
        <5>2. QED
          BY <2>2, <2>3, <2>5, <3>1, <3>2, <5>1
      <4>3. QED
        BY <4>1, <4>2
    <3>4. Len(PieceSizes(t)) = Len(Append(u, x)) /\ Len(PieceSizes(t)) = Len(t)
      BY <2>2, <2>3, <2>4, <2>5
    <3> HIDE DEF t, u, x
    <3>5. QED
      BY <2>4, <2>5, <3>3, <3>4, SeqEqual
  <2>7. SumOf(u) \in Int /\ SumOf(Append(u, x)) = SumOf(u) + x
    <3> HIDE DEF u, x
    <3>1. QED
      BY <2>1, <2>3, SumOfAppend
  <2>8. Bytes(list) = SumOf(u) /\ Bytes(t) = SumOf(Append(u, x))
    BY <1>1, <2>6
  <2>9. p.end \in Int /\ p.begin \in Int
    BY DEF PieceType
  <2>10. QED
    BY <2>7, <2>8, <2>9
<1>5. ASSUME NEW list \in Seq(PieceType) PROVE Bytes(list) \in Int
  BY <1>1, <1>2, SumOfAppend
<1>6. QED
  BY <1>1, <1>2, <1>3, <1>4, <1>5

\* Adding a shard adds its bytes.
LEMMA ShardSizesAppend ==
    ASSUME NEW shards \in Seq(Seq(PieceType)), NEW list \in Seq(PieceType)
    PROVE  /\ ShardSizes(shards) \in Seq(Int)
           /\ SumOf(ShardSizes(shards)) \in Int
           /\ SumOf(ShardSizes(Append(shards, list))) = SumOf(ShardSizes(shards)) + Bytes(list)
<1> DEFINE t == Append(shards, list)
           x == Bytes(list)
           u == ShardSizes(shards)
<1>1. ASSUME NEW s \in Seq(Seq(PieceType))
      PROVE  ShardSizes(s) \in Seq(Int) /\ Len(ShardSizes(s)) = Len(s)
  <2>1. Len(s) \in Nat /\ DOMAIN s = 1..Len(s) /\ \A i \in 1..Len(s) : s[i] \in Seq(PieceType)
    BY LenProperties, ElementOfSeq
  <2>2. \A i \in 1..Len(s) : Bytes(s[i]) \in Int
    BY <2>1, BytesAppend
  <2>3. ShardSizes(s) \in [1..Len(s) -> Int]
    BY <2>1, <2>2 DEF ShardSizes
  <2>4. ShardSizes(s) \in Seq(Int)
    <3> DEFINE f == ShardSizes(s)
               n == Len(s)
    <3>1. n \in Nat /\ f \in [1..n -> Int]
      BY <2>1, <2>3
    <3> HIDE DEF f, n
    <3>2. f \in Seq(Int)
      BY <3>1, SeqDef
    <3>3. QED
      BY <3>2 DEF f
  <2>5. QED
    BY <2>1, <2>3, <2>4, LenProperties
<1>2. x \in Int
  BY BytesAppend
<1>3. /\ t \in Seq(Seq(PieceType)) /\ Len(t) = Len(shards) + 1
      /\ \A i \in 1..Len(shards) : t[i] = shards[i]
      /\ t[Len(shards) + 1] = list
      /\ Len(shards) \in Nat /\ DOMAIN shards = 1..Len(shards) /\ DOMAIN t = 1..Len(t)
  <2>1. t \in Seq(Seq(PieceType)) /\ Len(t) = Len(shards) + 1
    BY AppendProperties
  <2>2. QED
    BY <2>1, AppendProperties, LenProperties
<1>4. /\ u \in Seq(Int) /\ Len(u) = Len(shards)
      /\ ShardSizes(t) \in Seq(Int) /\ Len(ShardSizes(t)) = Len(t)
  <2> HIDE DEF t
  <2>1. QED
    BY <1>1, <1>3
<1>5. /\ Append(u, x) \in Seq(Int) /\ Len(Append(u, x)) = Len(u) + 1
      /\ \A i \in 1..Len(u) : Append(u, x)[i] = u[i]
      /\ Append(u, x)[Len(u) + 1] = x
  <2> HIDE DEF u, x
  <2>1. QED
    BY <1>2, <1>4, AppendProperties
<1>6. ShardSizes(t) = Append(u, x)
  <2>1. \A i \in 1..Len(t) : ShardSizes(t)[i] = Bytes(t[i])
    <3> HIDE DEF t
    <3>1. QED
      BY <1>3 DEF ShardSizes
  <2>2. \A i \in 1..Len(shards) : u[i] = Bytes(shards[i])
    BY <1>3 DEF ShardSizes
  <2> HIDE DEF t, u
  <2>3. ASSUME NEW i \in 1..Len(t) PROVE ShardSizes(t)[i] = Append(u, x)[i]
    <3>1. CASE i = Len(shards) + 1
      BY <1>3, <1>4, <1>5, <2>1, <3>1
    <3>2. CASE i # Len(shards) + 1
      <4>1. i \in 1..Len(shards)
        BY <1>3, <3>2
      <4>2. QED
        BY <1>3, <1>4, <1>5, <2>1, <2>2, <4>1
    <3>3. QED
      BY <3>1, <3>2
  <2>4. Len(ShardSizes(t)) = Len(Append(u, x)) /\ Len(ShardSizes(t)) = Len(t)
    BY <1>3, <1>4, <1>5
  <2> HIDE DEF x
  <2>5. QED
    BY <1>4, <1>5, <2>3, <2>4, SeqEqual
<1>7. SumOf(u) \in Int /\ SumOf(Append(u, x)) = SumOf(u) + x
  <2> HIDE DEF u, x
  <2>1. QED
    BY <1>2, <1>4, SumOfAppend
<1>8. QED
  BY <1>4, <1>6, <1>7

\* The sum of the first numbers grows by the next one, up to the sum of all.
LEMMA UpToNext ==
    ASSUME NEW s \in Seq(Int)
    PROVE  /\ UpTo(s, 0) = 0
           /\ UpTo(s, Len(s)) = SumOf(s)
           /\ \A n \in 0..Len(s) : UpTo(s, n) \in Int
           /\ \A n \in 1..Len(s) : UpTo(s, n) = UpTo(s, n - 1) + s[n]
<1>0. Len(s) \in Nat /\ \A i \in 1..Len(s) : s[i] \in Int
  BY LenProperties, ElementOfSeq
<1>1. ASSUME NEW n \in 0..Len(s)
      PROVE  /\ SubSeq(s, 1, n) \in Seq(Int)
             /\ Len(SubSeq(s, 1, n)) = n
             /\ \A i \in 1..n : SubSeq(s, 1, n)[i] = s[i]
  <2>1. n \in Int /\ \A i \in 1..n : s[i] \in Int
    BY <1>0
  <2>2. /\ SubSeq(s, 1, n) \in Seq(Int)
        /\ Len(SubSeq(s, 1, n)) = (IF 1 <= n THEN n - 1 + 1 ELSE 0)
        /\ \A i \in 1..n - 1 + 1 : SubSeq(s, 1, n)[i] = s[1 + i - 1]
    BY <2>1, SubSeqProperties
  <2>3. QED
    BY <1>0, <2>1, <2>2
<1>2. UpTo(s, 0) = 0
  <2>1. SubSeq(s, 1, 0) = <<>>
    BY <1>0, <1>1, EmptySeq
  <2>2. QED
    BY <2>1, SumOfAppend DEF UpTo
<1>3. UpTo(s, Len(s)) = SumOf(s)
  <2>1. SubSeq(s, 1, Len(s)) = s
    <3>1. Len(s) \in 0..Len(s)
      BY <1>0
    <3>2. QED
      BY <1>1, <3>1, SeqEqual
  <2>2. QED
    BY <2>1 DEF UpTo
<1>4. \A n \in 0..Len(s) : UpTo(s, n) \in Int
  BY <1>1, SumOfAppend DEF UpTo
<1>5. ASSUME NEW n \in 1..Len(s) PROVE UpTo(s, n) = UpTo(s, n - 1) + s[n]
  <2> DEFINE u == SubSeq(s, 1, n - 1)
             t == SubSeq(s, 1, n)
             x == s[n]
  <2>0. x \in Int /\ n \in 0..Len(s) /\ n - 1 \in 0..Len(s)
    BY <1>0
  <2>1. /\ u \in Seq(Int) /\ Len(u) = n - 1 /\ \A i \in 1..n - 1 : u[i] = s[i]
        /\ t \in Seq(Int) /\ Len(t) = n /\ \A i \in 1..n : t[i] = s[i]
    BY <1>1, <2>0
  <2> HIDE DEF u, t
  <2>2. /\ Append(u, x) \in Seq(Int) /\ Len(Append(u, x)) = Len(u) + 1
        /\ \A i \in 1..Len(u) : Append(u, x)[i] = u[i]
        /\ Append(u, x)[Len(u) + 1] = x
    <3> HIDE DEF x
    <3>1. QED
      BY <2>0, <2>1, AppendProperties
  <2>3. t = Append(u, x)
    <3>1. ASSUME NEW i \in 1..Len(t) PROVE t[i] = Append(u, x)[i]
      <4>1. CASE i = n
        BY <2>0, <2>1, <2>2, <4>1
      <4>2. CASE i # n
        <5>1. i \in 1..n - 1 /\ i \in 1..n /\ i \in 1..Len(u)
          BY <2>0, <2>1, <4>2
        <5>2. QED
          BY <2>1, <2>2, <5>1
      <4>3. QED
        BY <4>1, <4>2
    <3>2. Len(t) = Len(Append(u, x))
      BY <2>0, <2>1, <2>2
    <3> HIDE DEF x
    <3>3. QED
      BY <2>1, <2>2, <3>1, <3>2, SeqEqual
  <2>4. SumOf(Append(u, x)) = SumOf(u) + x
    <3> HIDE DEF x
    <3>1. QED
      BY <2>0, <2>1, SumOfAppend
  <2>5. QED
    BY <2>3, <2>4 DEF UpTo, u, t
<1>6. QED
  BY <1>2, <1>3, <1>4, <1>5

--------------------------------------------------------------------------------
(* Cutting and joining keep the bytes.                                        *)

\* The types and bounds the steps below use.
LEMMA ShardFacts ==
    ASSUME ShardInv
    PROVE  /\ sizes \in Seq(Nat) /\ sizes \in Seq(Int) /\ Len(sizes) \in Nat
           /\ \A i \in 1..Len(sizes) : sizes[i] \in Nat
           /\ DOMAIN sizes = 1..Len(sizes)
           /\ shard_list \in Seq(PieceType) /\ Len(shard_list) \in Nat
           /\ info_set \in Seq(PieceType) /\ m_shards \in Seq(Seq(PieceType))
           /\ shard_sz \in Nat /\ rem_shard_sz \in Nat /\ begin \in Nat /\ end \in Nat /\ k \in Nat
           /\ rem_shard_sz <= shard_sz
           /\ pc = "piece" => k \in 1..Len(sizes) /\ end = begin + rem_shard_sz /\ begin <= sizes[k]
           /\ pc = "blob" => k \in 1..Len(sizes) + 1
<1>1. sizes \in Seq(Nat)
  BY ShardingAssumption DEF ShardInv, TypeOK
<1>2. /\ Len(sizes) \in Nat /\ DOMAIN sizes = 1..Len(sizes)
      /\ \A i \in 1..Len(sizes) : sizes[i] \in Nat
      /\ sizes \in Seq(Int)
  BY <1>1, LenProperties, ElementOfSeq, SeqMonotonic
<1>3. QED
  BY <1>1, <1>2, LenProperties DEF ShardInv, TypeOK, AtPiece, AtBlob, RemainderInRange

\* The piece a turn of make_shards cuts is a stretch of blob k, and completes the
\* open shard or leaves it with what it lacks.
LEMMA CutsStretch ==
    ASSUME ShardInv, FullPiece \/ TailPiece
    PROVE  \E p \in Stretch :
              /\ shard_list' = Append(shard_list, p)
              /\ p.begin = begin
              /\ \/ /\ end <= sizes[k] /\ p.end = end /\ p.is_partial = FALSE
                    /\ rem_shard_sz' = shard_sz
                 \/ /\ end > sizes[k] /\ p.end = sizes[k] /\ p.is_partial = TRUE
                    /\ rem_shard_sz' = rem_shard_sz - (sizes[k] - begin)
<1>1. pc = "piece"
  BY DEF FullPiece, TailPiece
<1>2. /\ k \in 1..Len(sizes) /\ sizes[k] \in Nat /\ k \in Nat
      /\ begin \in Nat /\ end \in Nat /\ begin <= end /\ begin <= sizes[k]
  <2>1. /\ \A i \in 1..Len(sizes) : sizes[i] \in Nat
        /\ k \in 1..Len(sizes) /\ k \in Nat /\ begin \in Nat /\ end \in Nat
        /\ rem_shard_sz \in Nat /\ end = begin + rem_shard_sz /\ begin <= sizes[k]
    BY <1>1, ShardFacts
  <2>2. QED
    BY <2>1
<1>3. CASE FullPiece
  <2> DEFINE p == Piece(begin, end, FALSE)
  <2>1. end <= sizes[k] /\ shard_list' = Append(shard_list, p) /\ rem_shard_sz' = shard_sz
    BY <1>3 DEF FullPiece, ResetRemainder
  <2>2. p \in Stretch
    BY <1>2, <2>1 DEF Stretch, PieceType, Piece
  <2>3. p.begin = begin /\ p.end = end /\ p.is_partial = FALSE
    BY DEF Piece
  <2> HIDE DEF p
  <2>4. QED
    BY <2>1, <2>2, <2>3
<1>4. CASE TailPiece
  <2> DEFINE p == Piece(begin, sizes[k], TRUE)
  <2>1. /\ end > sizes[k] /\ shard_list' = Append(shard_list, p)
        /\ rem_shard_sz' = rem_shard_sz - (sizes[k] - begin)
    BY <1>4 DEF TailPiece, SubtractPiece
  <2>2. p \in Stretch
    BY <1>2, <2>1 DEF Stretch, PieceType, Piece
  <2>3. p.begin = begin /\ p.end = sizes[k] /\ p.is_partial = TRUE
    BY DEF Piece
  <2> HIDE DEF p
  <2>4. QED
    BY <2>1, <2>2, <2>3
<1>5. QED
  BY <1>3, <1>4

\* Every piece stays a stretch of its blob.
LEMMA StretchNext ==
    ASSUME ShardInv, StretchInv, [Next]_vars
    PROVE  StretchInv'
<1> USE DEF pieceVars, joinVars
<1>0. Stretch' = Stretch
  BY DEF Stretch, Next, Step, Sharded, EnterBlob, FullPiece, TailPiece, StartJoin, JoinPiece, JoinRest, vars
<1> HIDE DEF Stretch
<1>1. CASE EnterBlob \/ StartJoin
  <2>1. UNCHANGED <<shard_list, info_set, m_shards>> /\ pc' \in {"piece", "join"}
        /\ pc = "blob" /\ (pc' = "join" => k' = 1)
    BY <1>1 DEF EnterBlob, StartJoin
  <2>2. Len(shard_list) \in Nat
    BY ShardFacts
  <2>3. QED
    BY <1>0, <2>1, <2>2 DEF StretchInv
<1>2. CASE FullPiece \/ TailPiece
  <2>1. PICK p \in Stretch : shard_list' = Append(shard_list, p)
    BY <1>2, CutsStretch
  <2>2. shard_list' \in Seq(Stretch)
    BY <2>1, AppendProperties DEF StretchInv
  <2>3. UNCHANGED <<info_set, m_shards>> /\ pc = "piece" /\ pc' \in {"blob", "piece"}
    BY <1>2 DEF FullPiece, TailPiece
  <2>4. QED
    BY <1>0, <2>2, <2>3 DEF StretchInv
<1>3. CASE JoinPiece
  <2>1. pc = "join" /\ k \in 1..Len(shard_list) /\ Len(shard_list) \in Nat
    BY <1>3, ShardFacts DEF JoinPiece, StretchInv
  <2>2. shard_list[k] \in Stretch
    BY <2>1, ElementOfSeq DEF StretchInv
  <2>3. Append(info_set, shard_list[k]) \in Seq(Stretch)
    BY <2>2, AppendProperties DEF StretchInv
  <2>4. Append(m_shards, Append(info_set, shard_list[k])) \in Seq(Seq(Stretch))
    BY <2>3, AppendProperties DEF StretchInv
  <2>5. info_set' \in Seq(Stretch) /\ m_shards' \in Seq(Seq(Stretch))
    BY <1>3, <2>3, <2>4, EmptySeq DEF JoinPiece, StretchInv
  <2>6. QED
    BY <1>0, <1>3, <2>1, <2>5 DEF JoinPiece, StretchInv
<1>4. CASE JoinRest
  <2>1. Append(m_shards, info_set) \in Seq(Seq(Stretch))
    BY AppendProperties DEF StretchInv
  <2>2. QED
    BY <1>0, <1>4, <2>1 DEF JoinRest, StretchInv
<1>5. CASE UNCHANGED vars
  BY <1>0, <1>5 DEF vars, StretchInv
<1>6. QED
  BY <1>1, <1>2, <1>3, <1>4, <1>5 DEF Next, Step, Sharded

\* One more piece, and what the open shard has after it.
LEMMA ExtendFill ==
    ASSUME shard_sz \in Nat, NEW list \in Seq(PieceType), NEW p \in PieceType,
           NEW fill, IsFill(fill, list), NEW v \in 0..shard_sz,
           IF p.is_partial
           THEN v = fill[Len(list)] + p.end - p.begin
           ELSE v = 0 /\ fill[Len(list)] + p.end - p.begin = shard_sz
    PROVE  \E h : IsFill(h, Append(list, p)) /\ h[Len(Append(list, p))] = v
<1> DEFINE n == Len(list)
           t == Append(list, p)
           h == [i \in 0..n + 1 |-> IF i <= n THEN fill[i] ELSE v]
<1>1. /\ t \in Seq(PieceType) /\ Len(t) = n + 1 /\ n \in Nat
      /\ \A i \in 1..n : t[i] = list[i]
      /\ t[n + 1] = p
  BY AppendProperties, LenProperties
<1>2. /\ fill \in [0..n -> 0..shard_sz] /\ fill[0] = 0
      /\ \A i \in 1..n :
          IF list[i].is_partial
          THEN fill[i] = fill[i - 1] + list[i].end - list[i].begin
          ELSE fill[i] = 0 /\ fill[i - 1] + list[i].end - list[i].begin = shard_sz
  BY DEF IsFill
<1> HIDE DEF n, t
<1>3. h \in [0..n + 1 -> 0..shard_sz] /\ h[0] = 0 /\ h[n + 1] = v /\ h[n] = fill[n]
  BY <1>1, <1>2
<1>4. ASSUME NEW i \in 1..n + 1
      PROVE  IF t[i].is_partial
             THEN h[i] = h[i - 1] + t[i].end - t[i].begin
             ELSE h[i] = 0 /\ h[i - 1] + t[i].end - t[i].begin = shard_sz
  <2>1. CASE i = n + 1
    <3>1. i - 1 = n
      BY <1>1, <2>1
    <3>2. QED
      BY <1>1, <1>3, <2>1, <3>1 DEF n
  <2>2. CASE i # n + 1
    <3>1. i \in 1..n /\ i - 1 \in 0..n /\ i \in 0..n + 1 /\ i - 1 \in 0..n + 1
      BY <1>1, <2>2
    <3>2. h[i] = fill[i] /\ h[i - 1] = fill[i - 1] /\ t[i] = list[i]
      BY <1>1, <3>1
    <3>3. QED
      BY <1>2, <3>1, <3>2
  <2>3. QED
    BY <2>1, <2>2
<1>5. IsFill(h, t) /\ h[Len(t)] = v
  BY <1>1, <1>3, <1>4 DEF IsFill
<1>6. QED
  BY <1>5 DEF t

\* Every turn of the loops keeps the shards equal.
LEMMA FillNext ==
    ASSUME ShardInv, StretchInv, FillInv, [Next]_vars
    PROVE  FillInv'
<1> USE DEF pieceVars, joinVars
<1>0. /\ shard_list \in Seq(PieceType) /\ Len(shard_list) \in Nat
      /\ info_set \in Seq(PieceType) /\ m_shards \in Seq(Seq(PieceType))
      /\ shard_sz \in Nat /\ rem_shard_sz \in Nat /\ rem_shard_sz <= shard_sz
      /\ begin \in Nat /\ end \in Nat /\ k \in Nat
  BY ShardFacts
<1>1. PICK fill :
          /\ IsFill(fill, shard_list)
          /\ pc \in {"blob", "piece"} => fill[Len(shard_list)] = shard_sz - rem_shard_sz
          /\ pc = "join" => Bytes(info_set) = fill[k - 1]
  BY DEF FillInv
<1>2. CASE EnterBlob
  BY <1>1, <1>2 DEF EnterBlob, FillInv, IsFill, EqualShards
<1>3. CASE FullPiece \/ TailPiece
  <2>1. PICK p \in Stretch :
              /\ shard_list' = Append(shard_list, p)
              /\ p.begin = begin
              /\ \/ /\ end <= sizes[k] /\ p.end = end /\ p.is_partial = FALSE
                    /\ rem_shard_sz' = shard_sz
                 \/ /\ end > sizes[k] /\ p.end = sizes[k] /\ p.is_partial = TRUE
                    /\ rem_shard_sz' = rem_shard_sz - (sizes[k] - begin)
    BY <1>3, CutsStretch
  <2>2. /\ pc = "piece" /\ pc' \in {"blob", "piece"} /\ shard_sz' = shard_sz
        /\ k \in 1..Len(sizes) /\ end = begin + rem_shard_sz /\ begin <= sizes[k] /\ sizes[k] \in Nat
    <3>1. pc = "piece" /\ pc' \in {"blob", "piece"} /\ shard_sz' = shard_sz
      BY <1>3 DEF FullPiece, TailPiece
    <3>2. /\ \A i \in 1..Len(sizes) : sizes[i] \in Nat
          /\ k \in 1..Len(sizes) /\ end = begin + rem_shard_sz /\ begin <= sizes[k]
      BY <3>1, ShardFacts
    <3>3. sizes[k] \in Nat
      BY <3>2
    <3>4. QED
      BY <3>1, <3>2, <3>3
  <2> DEFINE v == shard_sz - rem_shard_sz'
  <2>3. /\ v \in 0..shard_sz
        /\ IF p.is_partial
           THEN v = fill[Len(shard_list)] + p.end - p.begin
           ELSE v = 0 /\ fill[Len(shard_list)] + p.end - p.begin = shard_sz
    <3>1. fill[Len(shard_list)] = shard_sz - rem_shard_sz
      BY <1>1, <2>2
    <3>2. CASE end <= sizes[k]
      <4>1. p.end = end /\ p.is_partial = FALSE /\ rem_shard_sz' = shard_sz
        BY <1>0, <2>1, <2>2, <3>2
      <4>2. v = 0 /\ fill[Len(shard_list)] + p.end - p.begin = shard_sz
        BY <1>0, <2>1, <2>2, <3>1, <4>1
      <4>3. QED
        BY <1>0, <4>1, <4>2
    <3>3. CASE ~(end <= sizes[k])
      <4>1. p.end = sizes[k] /\ p.is_partial = TRUE /\ rem_shard_sz' = rem_shard_sz - (sizes[k] - begin)
        BY <1>0, <2>1, <2>2, <3>3
      <4>2. v \in 0..shard_sz /\ v = fill[Len(shard_list)] + p.end - p.begin
        <5>1. /\ v = shard_sz - (rem_shard_sz - (sizes[k] - begin))
              /\ sizes[k] - begin \in Nat /\ sizes[k] - begin < rem_shard_sz
          <6>1. /\ begin \in Nat /\ sizes[k] \in Nat /\ rem_shard_sz \in Nat
                /\ begin <= sizes[k] /\ begin + rem_shard_sz > sizes[k]
            BY <1>0, <2>2, <3>3
          <6>2. QED
            BY <4>1, <6>1
        <5>2. fill[Len(shard_list)] + p.end - p.begin = shard_sz - rem_shard_sz + sizes[k] - begin
          BY <2>1, <3>1, <4>1
        <5> HIDE DEF v
        <5>3. begin \in Nat /\ sizes[k] \in Nat /\ rem_shard_sz \in Nat /\ shard_sz \in Nat /\ rem_shard_sz <= shard_sz
          BY <1>0, <2>2
        <5>4. v \in 0..shard_sz /\ v = shard_sz - rem_shard_sz + sizes[k] - begin
          BY <5>1, <5>3
        <5>5. QED
          BY <5>2, <5>4
      <4>3. QED
        BY <4>1, <4>2
    <3>4. QED
      BY <3>2, <3>3
  <2>4. p \in PieceType
    BY DEF Stretch
  <2>5. PICK h : IsFill(h, Append(shard_list, p)) /\ h[Len(Append(shard_list, p))] = v
    <3> HIDE DEF v
    <3>1. QED
      BY <1>0, <1>1, <2>3, <2>4, ExtendFill
  <2>6. IsFill(h, shard_list)' /\ h[Len(shard_list')] = shard_sz' - rem_shard_sz'
    BY <2>1, <2>2, <2>5 DEF IsFill
  <2>7. QED
    BY <2>2, <2>6 DEF FillInv, EqualShards
<1>4. CASE StartJoin
  <2>1. /\ pc = "blob" /\ pc' = "join" /\ k' = 1 /\ info_set = <<>> /\ m_shards = <<>>
        /\ UNCHANGED <<shard_list, info_set, m_shards, shard_sz>>
    BY <1>4 DEF StartJoin, StretchInv
  <2>2. Bytes(info_set') = fill[k' - 1]
    BY <1>1, <2>1, BytesAppend DEF IsFill
  <2>3. DOMAIN m_shards' = {}
    BY <2>1
  <2>4. IsFill(fill, shard_list)'
    BY <1>1, <2>1 DEF IsFill
  <2>5. QED
    BY <2>1, <2>2, <2>3, <2>4 DEF FillInv, EqualShards
<1>5. CASE JoinPiece
  <2> DEFINE p == shard_list[k]
             joined == Append(info_set, p)
  <2>1. pc = "join" /\ pc' = "join" /\ k \in 1..Len(shard_list) /\ k' = k + 1
        /\ UNCHANGED <<shard_list, shard_sz>>
    BY <1>5, <1>0 DEF JoinPiece, StretchInv
  <2>2. p \in PieceType
    BY <1>0, <2>1, ElementOfSeq
  <2>3. Bytes(joined) = Bytes(info_set) + p.end - p.begin /\ joined \in Seq(PieceType)
    <3> HIDE DEF p
    <3>1. QED
      BY <1>0, <2>2, BytesAppend, AppendProperties
  <2>4. /\ Bytes(info_set) = fill[k - 1]
        /\ IF p.is_partial
           THEN fill[k] = fill[k - 1] + p.end - p.begin
           ELSE fill[k] = 0 /\ fill[k - 1] + p.end - p.begin = shard_sz
    BY <1>1, <2>1 DEF IsFill
  <2>5. IsFill(fill, shard_list)' /\ k' - 1 = k
    BY <1>0, <1>1, <2>1 DEF IsFill
  <2>6. \A i \in DOMAIN m_shards : Bytes(m_shards[i]) = shard_sz
    BY <2>1 DEF FillInv
  <2>7. CASE p.is_partial
    <3>1. info_set' = joined /\ UNCHANGED m_shards
      BY <1>5, <2>7 DEF JoinPiece
    <3>2. Bytes(info_set') = fill[k' - 1]
      BY <2>3, <2>4, <2>5, <2>7, <3>1
    <3>3. QED
      BY <2>1, <2>5, <2>6, <3>1, <3>2 DEF FillInv, EqualShards
  <2>8. CASE ~p.is_partial
    <3>1. info_set' = <<>> /\ m_shards' = Append(m_shards, joined)
      BY <1>5, <2>8 DEF JoinPiece
    <3>2. Bytes(info_set') = fill[k' - 1]
      BY <2>4, <2>5, <2>8, <3>1, BytesAppend
    <3>3. Bytes(joined) = shard_sz
      BY <2>3, <2>4, <2>8
    <3>4. \A i \in DOMAIN m_shards' : Bytes(m_shards'[i]) = shard_sz
      <4> HIDE DEF joined
      <4>1. /\ DOMAIN m_shards' = 1..Len(m_shards) + 1 /\ Len(m_shards) \in Nat
            /\ DOMAIN m_shards = 1..Len(m_shards)
            /\ \A i \in 1..Len(m_shards) : m_shards'[i] = m_shards[i]
            /\ m_shards'[Len(m_shards) + 1] = joined
        BY <1>0, <2>3, <3>1, AppendProperties, LenProperties
      <4>2. QED
        BY <2>6, <3>3, <4>1
    <3>5. QED
      BY <2>1, <2>5, <3>2, <3>4 DEF FillInv, EqualShards
  <2>9. QED
    BY <2>7, <2>8
<1>6. CASE JoinRest
  <2>1. /\ pc = "join" /\ pc' = "done" /\ k \in 1..Len(shard_list) + 1
        /\ UNCHANGED <<shard_list, shard_sz, info_set>>
        /\ m_shards' = IF info_set = <<>> THEN m_shards ELSE Append(m_shards, info_set)
    BY <1>6 DEF JoinRest, StretchInv
  <2>2. Bytes(info_set) \in 0..shard_sz
    <3>1. k - 1 \in 0..Len(shard_list) /\ fill \in [0..Len(shard_list) -> 0..shard_sz]
      BY <1>0, <1>1, <2>1 DEF IsFill
    <3>2. Bytes(info_set) = fill[k - 1]
      BY <1>1, <2>1
    <3>3. QED
      BY <3>1, <3>2
  <2>3. \A i \in DOMAIN m_shards : Bytes(m_shards[i]) = shard_sz
    BY <2>1 DEF FillInv
  <2>4. Len(m_shards) \in Nat /\ DOMAIN m_shards = 1..Len(m_shards)
    BY <1>0, LenProperties
  <2>5. EqualShards'
    <3>1. CASE info_set = <<>>
      BY <1>0, <2>1, <2>3, <2>4, <3>1 DEF EqualShards
    <3>2. CASE info_set # <<>>
      <4>1. /\ Len(m_shards') = Len(m_shards) + 1
            /\ DOMAIN m_shards' = 1..Len(m_shards) + 1
            /\ \A i \in 1..Len(m_shards) : m_shards'[i] = m_shards[i]
            /\ m_shards'[Len(m_shards) + 1] = info_set
        BY <1>0, <2>1, <3>2, AppendProperties, LenProperties
      <4>2. ASSUME NEW i \in DOMAIN m_shards'
            PROVE  IF i < Len(m_shards') THEN Bytes(m_shards'[i]) = shard_sz
                   ELSE Bytes(m_shards'[i]) <= shard_sz
        <5>1. CASE i = Len(m_shards) + 1
          BY <1>0, <2>2, <2>4, <4>1, <5>1
        <5>2. CASE i # Len(m_shards) + 1
          <6>1. i \in 1..Len(m_shards) /\ i < Len(m_shards')
            BY <2>4, <4>1, <5>2
          <6>2. QED
            BY <2>3, <2>4, <4>1, <6>1
        <5>3. QED
          BY <5>1, <5>2
      <4>3. QED
        BY <2>1, <4>2 DEF EqualShards
    <3>3. QED
      BY <3>1, <3>2
  <2>6. IsFill(fill, shard_list)'
    BY <1>1, <2>1 DEF IsFill
  <2>7. QED
    BY <2>1, <2>5, <2>6 DEF FillInv
<1>7. CASE UNCHANGED vars
  <2>1. IsFill(fill, shard_list)'
    BY <1>1, <1>7 DEF IsFill, vars
  <2>2. QED
    BY <1>1, <1>7, <2>1 DEF FillInv, EqualShards, vars
<1>8. QED
  BY <1>2, <1>3, <1>4, <1>5, <1>6, <1>7 DEF Next, Step, Sharded

\* Every turn of the loops accounts for the bytes it passes.
LEMMA BytesNext ==
    ASSUME ShardInv, StretchInv, BytesInv, [Next]_vars
    PROVE  BytesInv'
<1> USE DEF pieceVars, joinVars
<1> DEFINE ps == PieceSizes(shard_list)
<1>0. /\ sizes \in Seq(Int) /\ Len(sizes) \in Nat
      /\ \A i \in 1..Len(sizes) : sizes[i] \in Nat
      /\ shard_list \in Seq(PieceType) /\ Len(shard_list) \in Nat
      /\ info_set \in Seq(PieceType) /\ m_shards \in Seq(Seq(PieceType))
      /\ begin \in Nat /\ end \in Nat /\ k \in Nat
  BY ShardFacts
<1>1. /\ UpTo(sizes, 0) = 0
      /\ UpTo(sizes, Len(sizes)) = SumOf(sizes)
      /\ \A n \in 0..Len(sizes) : UpTo(sizes, n) \in Int
      /\ \A n \in 1..Len(sizes) : UpTo(sizes, n) = UpTo(sizes, n - 1) + sizes[n]
  BY <1>0, UpToNext
<1>2. /\ Bytes(shard_list) \in Int /\ Bytes(info_set) \in Int
      /\ SumOf(ShardSizes(m_shards)) \in Int
      /\ ps \in Seq(Int) /\ Len(ps) = Len(shard_list) /\ SumOf(ps) = Bytes(shard_list)
  BY <1>0, BytesAppend, ShardSizesAppend
<1>3. /\ UpTo(ps, 0) = 0
      /\ UpTo(ps, Len(shard_list)) = Bytes(shard_list)
      /\ \A n \in 0..Len(shard_list) : UpTo(ps, n) \in Int
      /\ \A n \in 1..Len(shard_list) : UpTo(ps, n) = UpTo(ps, n - 1) + ps[n]
  <2> HIDE DEF ps
  <2>1. QED
    BY <1>2, UpToNext
<1>4. CASE EnterBlob
  <2>1. /\ pc = "blob" /\ pc' = "piece" /\ begin' = 0 /\ UNCHANGED <<shard_list, sizes, k>>
        /\ k - 1 \in 0..Len(sizes)
    BY <1>4, ShardFacts DEF EnterBlob
  <2>2. Bytes(shard_list) = UpTo(sizes, k - 1) + 0
    BY <1>1, <2>1 DEF BytesInv
  <2>3. QED
    BY <2>1, <2>2 DEF BytesInv
<1>5. CASE FullPiece \/ TailPiece
  <2>1. PICK p \in Stretch :
              /\ shard_list' = Append(shard_list, p)
              /\ p.begin = begin
              /\ \/ end <= sizes[k] /\ p.end = end
                 \/ end > sizes[k] /\ p.end = sizes[k]
    BY <1>5, CutsStretch
  <2>2. pc = "piece" /\ UNCHANGED sizes
    BY <1>5 DEF FullPiece, TailPiece
  <2>3. k \in 1..Len(sizes) /\ k - 1 \in 0..Len(sizes) /\ sizes[k] \in Nat
    <3>1. k \in 1..Len(sizes)
      BY <2>2, ShardFacts
    <3>2. QED
      BY <1>0, <3>1
  <2>4. p \in PieceType
    BY DEF Stretch
  <2>5. Bytes(shard_list') = Bytes(shard_list) + p.end - p.begin
    BY <1>0, <2>1, <2>4, BytesAppend
  <2>6. Bytes(shard_list') = UpTo(sizes, k - 1) + p.end /\ p.end \in Nat
    <3>1. Bytes(shard_list) = UpTo(sizes, k - 1) + begin
      BY <2>2 DEF BytesInv
    <3>2. UpTo(sizes, k - 1) \in Int /\ p.end \in Nat
      BY <1>0, <1>1, <2>1, <2>3
    <3>3. QED
      BY <1>0, <2>1, <2>5, <3>1, <3>2
  <2>7. UpTo(sizes, k) = UpTo(sizes, k - 1) + sizes[k]
    BY <1>1, <2>3
  <2>8. CASE p.end = sizes[k] /\ pc' = "blob" /\ k' = k + 1
    <3>1. k' - 1 = k
      BY <1>0, <2>8
    <3>2. QED
      BY <2>2, <2>6, <2>7, <2>8, <3>1 DEF BytesInv
  <2>9. CASE p.end = begin' /\ pc' = "piece" /\ k' = k
    BY <2>2, <2>6, <2>9 DEF BytesInv
  <2>10. QED
    <3>1. CASE FullPiece
      <4>1. p.end = end
        BY <1>0, <2>1, <2>3, <3>1 DEF FullPiece
      <4>2. QED
        BY <2>8, <2>9, <3>1, <4>1 DEF FullPiece, Advance
    <3>2. CASE TailPiece
      <4>1. p.end = sizes[k]
        BY <1>0, <2>1, <2>3, <3>2 DEF TailPiece
      <4>2. QED
        BY <2>8, <3>2, <4>1 DEF TailPiece
    <3>3. QED
      BY <1>5, <3>1, <3>2
<1>6. CASE StartJoin
  <2>1. /\ pc = "blob" /\ pc' = "join" /\ k' = 1 /\ k > Len(sizes)
        /\ UNCHANGED <<sizes, shard_list, info_set, m_shards>>
        /\ info_set = <<>> /\ m_shards = <<>>
    BY <1>6 DEF StartJoin, StretchInv
  <2>2. k - 1 = Len(sizes)
    <3>1. k \in 1..Len(sizes) + 1
      BY <2>1, ShardFacts
    <3>2. QED
      BY <1>0, <2>1, <3>1
  <2>3. Bytes(shard_list) = SumOf(sizes)
    BY <1>1, <2>1, <2>2 DEF BytesInv
  <2>4. SumOf(ShardSizes(m_shards)) = 0
    <3>1. ShardSizes(<<>>) = <<>>
      BY DEF ShardSizes
    <3>2. QED
      BY <2>1, <3>1, SumOfAppend
  <2>5. Bytes(info_set) = 0
    BY <2>1, BytesAppend
  <2>6. SumOf(ShardSizes(m_shards)) + Bytes(info_set) = UpTo(ps, k' - 1)
    BY <1>3, <2>1, <2>4, <2>5
  <2>7. QED
    BY <2>1, <2>3, <2>6 DEF BytesInv
<1>7. CASE JoinPiece
  <2> DEFINE p == shard_list[k]
             joined == Append(info_set, p)
  <2>1. pc = "join" /\ pc' = "join" /\ k \in 1..Len(shard_list) /\ k' - 1 = k
        /\ UNCHANGED <<shard_list, sizes>>
    BY <1>7, <1>0 DEF JoinPiece, StretchInv
  <2>2. p \in PieceType
    BY <1>0, <2>1, ElementOfSeq
  <2>3. p.end \in Nat /\ p.begin \in Nat
    BY <2>2 DEF PieceType
  <2>4. Bytes(joined) = Bytes(info_set) + p.end - p.begin /\ joined \in Seq(PieceType)
    <3> HIDE DEF p
    <3>1. QED
      BY <1>0, <2>2, BytesAppend, AppendProperties
  <2>5. ps[k] = p.end - p.begin
    <3>1. k \in DOMAIN shard_list
      BY <1>0, <2>1, LenProperties
    <3>2. QED
      BY <3>1 DEF PieceSizes
  <2>6. UpTo(ps, k) = UpTo(ps, k - 1) + ps[k] /\ UpTo(ps, k - 1) \in Int
    <3>1. k - 1 \in 0..Len(shard_list)
      BY <1>0, <2>1
    <3>2. QED
      BY <1>3, <2>1, <3>1
  <2>7. /\ Bytes(shard_list) = SumOf(sizes)
        /\ SumOf(ShardSizes(m_shards)) + Bytes(info_set) = UpTo(ps, k - 1)
    BY <2>1 DEF BytesInv
  <2>8. SumOf(ShardSizes(m_shards)) + Bytes(joined) = UpTo(ps, k)
    <3>1. SumOf(ShardSizes(m_shards)) \in Int /\ Bytes(info_set) \in Int
      BY <1>2
    <3> HIDE DEF ps, joined
    <3>2. Bytes(joined) = Bytes(info_set) + ps[k] /\ ps[k] \in Int
      BY <2>3, <2>4, <2>5, <3>1
    <3>3. QED
      BY <2>6, <2>7, <3>1, <3>2
  <2>9. SumOf(ShardSizes(m_shards'))  + Bytes(info_set') = UpTo(ps, k)
    <3>1. CASE p.is_partial
      <4>1. info_set' = joined /\ UNCHANGED m_shards
        BY <1>7, <3>1 DEF JoinPiece
      <4>2. QED
        BY <2>8, <4>1
    <3>2. CASE ~p.is_partial
      <4>1. info_set' = <<>> /\ m_shards' = Append(m_shards, joined)
        BY <1>7, <3>2 DEF JoinPiece
      <4> HIDE DEF joined, ps
      <4>2. SumOf(ShardSizes(m_shards')) = SumOf(ShardSizes(m_shards)) + Bytes(joined)
        BY <1>0, <2>4, <4>1, ShardSizesAppend
      <4>3. Bytes(info_set') = 0 /\ Bytes(joined) \in Int
        BY <2>4, <4>1, BytesAppend
      <4>4. QED
        BY <1>2, <2>8, <4>2, <4>3
    <3>3. QED
      BY <3>1, <3>2
  <2>10. QED
    BY <2>1, <2>7, <2>9 DEF BytesInv
<1>8. CASE JoinRest
  <2>1. /\ pc = "join" /\ pc' = "done" /\ k > Len(shard_list) /\ k \in 1..Len(shard_list) + 1
        /\ m_shards' = (IF info_set = <<>> THEN m_shards ELSE Append(m_shards, info_set))
        /\ UNCHANGED sizes
    BY <1>8 DEF JoinRest, StretchInv
  <2>2. k - 1 = Len(shard_list)
    BY <1>0, <2>1
  <2>3. SumOf(ShardSizes(m_shards)) + Bytes(info_set) = SumOf(sizes)
    BY <1>3, <2>1, <2>2 DEF BytesInv
  <2>4. SumOf(ShardSizes(m_shards')) = SumOf(ShardSizes(m_shards)) + Bytes(info_set)
    <3>1. CASE info_set = <<>>
      <4>1. Bytes(info_set) = 0 /\ m_shards' = m_shards
        BY <2>1, <3>1, BytesAppend
      <4>2. QED
        BY <1>2, <4>1
    <3>2. CASE info_set # <<>>
      BY <1>0, <2>1, <3>2, ShardSizesAppend
    <3>3. QED
      BY <3>1, <3>2
  <2>5. QED
    BY <2>1, <2>3, <2>4 DEF BytesInv
<1>9. CASE UNCHANGED vars
  BY <1>9 DEF vars, BytesInv
<1>10. QED
  BY <1>4, <1>5, <1>6, <1>7, <1>8, <1>9 DEF Next, Step, Sharded

\* Both accounts hold throughout.
LEMMA SharesInductive == Spec => [](ShardInv /\ StretchInv /\ FillInv /\ BytesInv)
<1>1. Init => StretchInv /\ FillInv /\ BytesInv
  <2> SUFFICES ASSUME Init PROVE StretchInv /\ FillInv /\ BytesInv
    OBVIOUS
  <2>1. ShardInv
    BY ShardInit
  <2>2. StretchInv
    BY EmptySeq DEF Init, StretchInv
  <2>3. FillInv
    <3> DEFINE fill == [i \in 0..0 |-> 0]
    <3>1. shard_sz \in Nat /\ rem_shard_sz = shard_sz /\ shard_list = <<>> /\ Len(<<>>) = 0 /\ pc = "blob"
      BY <2>1, ShardFacts, EmptySeq DEF Init
    <3>2. IsFill(fill, <<>>)
      BY <3>1 DEF IsFill
    <3>3. fill[Len(shard_list)] = shard_sz - rem_shard_sz
      BY <3>1
    <3> HIDE DEF fill
    <3>4. QED
      BY <3>1, <3>2, <3>3 DEF FillInv, EqualShards
  <2>4. BytesInv
    <3>1. sizes \in Seq(Int)
      BY <2>1, ShardFacts
    <3>2. UpTo(sizes, 0) = 0
      BY <3>1, UpToNext
    <3>3. QED
      BY <3>2, BytesAppend DEF Init, BytesInv
  <2>5. QED
    BY <2>2, <2>3, <2>4
<1>2. ShardInv /\ StretchInv /\ FillInv /\ BytesInv /\ [Next]_vars
        => StretchInv' /\ FillInv' /\ BytesInv'
  BY StretchNext, FillNext, BytesNext
<1>3. QED
  BY <1>1, <1>2, ShardInit, ShardNext, PTL DEF Spec

\* Every shard but the last has exactly shard_sz bytes, for any container and any
\* shard size: a piece that closes a shard brings just what rem_shard_sz says the
\* pieces before it, of whatever blobs, left over.
THEOREM SharesEqual == Spec => []EqualShards
<1>1. FillInv => EqualShards
  BY DEF FillInv
<1>2. QED
  BY <1>1, SharesInductive, PTL

\* An offset that has room in the int32 is itself on the wire.
LEMMA WireKeeps ==
    ASSUME NEW x \in Nat, x < OffsetLimit
    PROVE  Wire(x) = x
<1> DEFINE H == OffsetLimit
<1>1. H \in Nat \ {0}
  BY ShardingAssumption
<1> HIDE DEF H
<1>2. \A h \in Nat \ {0} : \A y \in 0..h - 1 : ((y + h) % (2 * h)) - h = y
  OBVIOUS
<1>3. x \in 0..H - 1
  BY <1>1 DEF H
<1>4. ((x + H) % (2 * H)) - H = x
  BY <1>1, <1>2, <1>3
<1>5. QED
  BY <1>4 DEF Wire, H

\* Whatever the blobs, the number of mappers and the places of the cuts, the workers
\* get as many bytes as there are, as long as every blob's size fits its int32.
THEOREM BytesReachWorkers == Spec => []AllBytesSharded
<1>1. ASSUME ShardInv, StretchInv, BytesInv PROVE AllBytesSharded
  <2> SUFFICES ASSUME pc = "done", \A i \in DOMAIN sizes : sizes[i] < OffsetLimit
               PROVE  SumOf([i \in DOMAIN m_shards |-> Bytes(ShardTuples(m_shards[i]))]) = SumOf(sizes)
    BY DEF AllBytesSharded
  <2>1. ASSUME NEW shard \in Seq(Stretch) PROVE ShardTuples(shard) = shard
    <3>1. Len(shard) \in Nat /\ DOMAIN shard = 1..Len(shard) /\ shard \in [1..Len(shard) -> Stretch]
      BY LenProperties
    <3>2. ASSUME NEW i \in DOMAIN shard
          PROVE  [shard[i] EXCEPT !.begin = Wire(@), !.end = Wire(@)] = shard[i]
      <4> DEFINE p == shard[i]
      <4>1. p \in Stretch
        BY <3>1
      <4> HIDE DEF p
      <4>2. /\ p \in [blob : Nat, begin : Nat, end : Nat, is_partial : BOOLEAN]
            /\ p.blob \in 1..Len(sizes) /\ p.begin <= p.end /\ p.end <= sizes[p.blob]
        BY <4>1 DEF Stretch, PieceType
      <4>3. sizes[p.blob] \in Nat /\ sizes[p.blob] < OffsetLimit
        BY <1>1, <4>2, ShardFacts
      <4>4. p.begin \in Nat /\ p.end \in Nat /\ p.begin < OffsetLimit /\ p.end < OffsetLimit
        <5>1. OffsetLimit \in Nat
          BY ShardingAssumption
        <5>2. p.begin \in Nat /\ p.end \in Nat
          BY <4>2
        <5>3. QED
          BY <4>2, <4>3, <5>1, <5>2
      <4>5. Wire(p.begin) = p.begin /\ Wire(p.end) = p.end
        BY <4>4, WireKeeps
      <4>6. [p EXCEPT !.begin = Wire(@), !.end = Wire(@)] = p
        BY <4>2, <4>5
      <4>7. QED
        BY <4>6 DEF p
    <3>3. ShardTuples(shard) = [i \in DOMAIN shard |-> shard[i]]
      BY <3>2 DEF ShardTuples
    <3>4. QED
      BY <3>1, <3>3
  <2>2. \A i \in DOMAIN m_shards : m_shards[i] \in Seq(Stretch)
    <3>1. DOMAIN m_shards = 1..Len(m_shards)
      BY LenProperties, <1>1 DEF StretchInv
    <3>2. QED
      BY <1>1, <3>1, ElementOfSeq DEF StretchInv
  <2>3. [i \in DOMAIN m_shards |-> Bytes(ShardTuples(m_shards[i]))] = ShardSizes(m_shards)
    BY <2>1, <2>2 DEF ShardSizes
  <2>4. QED
    BY <1>1, <2>3 DEF BytesInv
<1>2. QED
  BY <1>1, SharesInductive, PTL
================================================================================
