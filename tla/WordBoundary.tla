----------------------------- MODULE WordBoundary -----------------------------
(***************************************************************************)
(* How the workers turn the pieces of one input blob into words.  The      *)
(* master cuts a blob at byte offsets (make_shards); a worker downloads a  *)
(* piece and EXTRA_LEN bytes more, blanks the word it starts in the middle *)
(* of and keeps the one it ends in the middle of (fix_word_boundary), and  *)
(* map.py splits what is left into words.                                  *)
(*                                                                         *)
(* A byte is a letter, a delimiter of fix_word_boundary (space, full stop, *)
(* comma), or a separator that only map.py knows (newline, any other       *)
(* punctuation).                                                           *)
(***************************************************************************)
EXTENDS Integers, Sequences, FiniteSetsExt

CONSTANTS
    EXTRA_LEN,
    Texts,      \* the blobs considered: sequences of bytes
    MaxShard    \* bound: size of a shard

Letter == "a"
Delimiter == " "
Separator == ";"
Byte == {Letter, Delimiter, Separator}

ASSUME WordBoundaryAssumption ==
    /\ EXTRA_LEN \in Nat
    /\ Texts \subseteq Seq(Byte)
    /\ MaxShard \in Nat

VARIABLES
    text,
    shard_sz,
    begin, end, \* the next piece
    kept,       \* how many pieces kept each byte
    counted     \* how often each word was counted

vars == <<text, shard_sz, begin, end, kept, counted>>

-------------------------------------------------------------------------------
IsDelimiter(c) == c = Delimiter

\* Bytes are numbered from 0, as in the code.
At(coll, i) == coll[i + 1]

\* download_range_to_stream: what there is of the piece and of the extra bytes.
Download(b, e) ==
    SubSeq(text, b + 1, IF e + EXTRA_LEN <= Len(text) THEN e + EXTRA_LEN ELSE Len(text))

\* Where the loop over the head stops; at the size of the collection, at() throws.
HeadStop(coll) ==
    Min({i \in 0..EXTRA_LEN : i = EXTRA_LEN \/ i >= Len(coll) \/ IsDelimiter(At(coll, i))})

Throws(coll) == HeadStop(coll) < EXTRA_LEN /\ HeadStop(coll) >= Len(coll)

\* Mutant: the word at the start stays, although the piece before has it.
KeepHead(coll) == coll

\* collection[i] = ' ' up to there.
BlankHead(coll) == [i \in DOMAIN coll |-> IF i <= HeadStop(coll) THEN Delimiter ELSE coll[i]]

\* Mutant: the tail is cut after the delimiter.
CutAfter(coll, endpos) ==
    IF Len(coll) <= endpos THEN coll
    ELSE LET stop == Min({i \in endpos..Len(coll) : i = Len(coll) \/ IsDelimiter(At(coll, i))})
         IN  SubSeq(coll, 1, IF stop < Len(coll) THEN stop + 1 ELSE stop)

\* The tail runs to the first delimiter at or after the end of the piece.
CutTail(coll, endpos) ==
    IF Len(coll) <= endpos THEN coll
    ELSE SubSeq(coll, 1,
                Min({i \in endpos..Len(coll) : i = Len(coll) \/ IsDelimiter(At(coll, i))}))

\* write_partial_data_to_local_file: the local copy of piece [b, e).  An exception
\* leaves none, and map.py then finds no file to open.
LocalCopy(b, e) ==
    LET coll == Download(b, e) IN
    IF b # 0 /\ Throws(coll) THEN <<>>
    ELSE CutTail(IF b # 0 THEN BlankHead(coll) ELSE coll, e - b)

\* map.py: the maximal runs of letters, as positions in the blob.
Words(coll, offset) ==
    LET runs == {r \in (DOMAIN coll) \X (DOMAIN coll) :
                    /\ r[1] <= r[2]
                    /\ \A x \in r[1]..r[2] : coll[x] = Letter
                    /\ r[1] = 1 \/ coll[r[1] - 1] # Letter
                    /\ r[2] = Len(coll) \/ coll[r[2] + 1] # Letter}
    IN  {<<offset + r[1] - 1, offset + r[2]>> : r \in runs}

-------------------------------------------------------------------------------
Least(a, b) == IF a <= b THEN a ELSE b

\* The first piece of a blob may complete a shard that an earlier blob began.
Init ==
    /\ text \in Texts
    /\ shard_sz \in 1..MaxShard
    /\ begin = 0
    /\ \E first \in 1..shard_sz : end = Least(first, Len(text))
    /\ kept = [p \in 0..Len(text) - 1 |-> 0]
    /\ counted = [w \in {} |-> 0]

\* The bytes of the local copy that come from the blob.
KeptBytes(copy, b) == {b + i - 1 : i \in {i \in DOMAIN copy : copy[i] = text[b + i]}}

Count(words) ==
    [w \in DOMAIN counted \cup words |->
        (IF w \in DOMAIN counted THEN counted[w] ELSE 0) + (IF w \in words THEN 1 ELSE 0)]

\* One piece is mapped.
MapPiece ==
    /\ begin < Len(text)
    /\ LET copy == LocalCopy(begin, end) IN
         /\ kept' = [p \in DOMAIN kept |->
                        kept[p] + IF p \in KeptBytes(copy, begin) THEN 1 ELSE 0]
         /\ counted' = Count(Words(copy, begin))
    /\ begin' = end
    /\ end' = Least(end + shard_sz, Len(text))
    /\ UNCHANGED <<text, shard_sz>>

Done ==
    /\ begin = Len(text)
    /\ UNCHANGED vars

Next == MapPiece \/ Done

Spec == Init /\ [][Next]_vars

-------------------------------------------------------------------------------
\* The two loops of fix_word_boundary agree: with shards of at least EXTRA_LEN bytes
\* each byte of a blob is kept by exactly one of its pieces, whatever the text
\* (words longer than EXTRA_LEN, no delimiter up to the end of the blob, a piece
\* that at() throws away), and never by two at any time.
EveryByteOnce ==
    shard_sz >= EXTRA_LEN =>
        /\ \A p \in DOMAIN kept : kept[p] <= 1
        /\ begin = Len(text) => \A p \in DOMAIN kept : kept[p] = 1

\* No EXTRA_LEN + 1 bytes in a row are without a delimiter.
ShortRuns ==
    \A p \in 1..Len(text) - EXTRA_LEN : \E i \in p..p + EXTRA_LEN : IsDelimiter(text[i])

\* If a delimiter follows within EXTRA_LEN bytes of any byte, every word of the blob
\* is counted once and as a whole, wherever the blob is cut and however small the
\* pieces are.
WordsOnce ==
    ShortRuns /\ begin = Len(text) =>
        DOMAIN counted = Words(text, 0) /\ \A w \in DOMAIN counted : counted[w] = 1
===============================================================================
