------------------------------- MODULE Tables -------------------------------
(***************************************************************************)
(* The memtable and sstable packages: the skip list, the table a Writer    *)
(* makes of it (data blocks, index, bloom filter), a Reader's Get and      *)
(* iterator, and the block cache all Readers share.                        *)
(*                                                                         *)
(* Keys are numbers in the order of bytes.Compare.  An entry is its kind,  *)
(* which decides its size, and its sequence number.  A section under a     *)
(* mutex is one action, so two Gets may both miss the cache on one block.  *)
(***************************************************************************)
EXTENDS Integers, Sequences, FiniteSets

CONSTANTS
    MaxKey,      \* the keys are 1..MaxKey
    Size(_),     \* Size(kind): the encoded length of an entry
    H1(_), H2(_),  \* the two hashes of a key
    Bits, Probes,  \* a bloom filter's m and k
    BlockSize,   \* Options.BlockSize
    MaxBytes,    \* the cache's maxBytes
    MaxHeight,   \* a skip list's levels
    Reader,      \* the goroutines that call Get or walk a table
    MaxPuts,     \* bound: entries written
    MaxTables,   \* bound: tables made
    MaxGets,     \* bound: Gets and walks
    MaxDamage    \* bound: data blocks that go bad on disk

Key  == 1..MaxKey
Kind == {"short", "long", "deleted"}
Top  == 0            \* the skip list's head node; a node's name is its key
Nil  == MaxKey + 1

Absent == [kind |-> "absent", seq |-> 0]
Failed == [kind |-> "error", seq |-> 0]
Entry  == [kind : Kind, seq : 1..MaxPuts]

ASSUME TableBounds ==
    /\ {MaxKey, BlockSize, MaxHeight, MaxPuts, Bits, Probes} \subseteq Nat \ {0}
    /\ {MaxBytes, MaxTables, MaxGets, MaxDamage} \subseteq Nat
    /\ \A kind \in Kind : Size(kind) \in Nat \ {0}

VARIABLES
    \* the memtable
    forward,     \* forward[n][i]: the successor of node n at level i
    height,
    entry,       \* entry[n]: what node n holds
    approxSize,
    \* the SSTables, oldest first, and the cache
    tables,
    cache,       \* most recently used first: [block, bytes]
    curBytes,
    damaged,     \* the data blocks that fail their checksum
    \* the Gets and the iterators
    reading,     \* reading[r]: the block r went to the disk for, and the key
    answer,      \* answer[r]: what r's last Get returned
    walk,        \* walk[r]: where r's iterator is, and what it has yielded
    gets,        \* how many Gets and walks were started
    \* history
    puts,        \* how many entries were written; the next sequence number
    written,     \* the last entry written to the memtable for every key
    content      \* the same for every table, when it was made

memVars   == <<forward, height, entry, approxSize>>
cacheVars == <<cache, curBytes>>
getVars   == <<reading, answer, walk, gets>>
vars == <<memVars, tables, cacheVars, damaged, getVars, puts, written, content>>

Nothing == [k \in Key |-> Absent]
NoKey   == 0   \* an iterator reads a block for all its keys
Idle    == [table |-> 0, block |-> 0, key |-> NoKey]
NoWalk  == [table |-> 0, block |-> 0, seen |-> <<>>, err |-> FALSE]

-----------------------------------------------------------------------------
(***************************************************************************)
(* The skip list.                                                          *)
(***************************************************************************)
NewList == [n \in {Top} |-> [i \in 1..MaxHeight |-> Nil]]

RECURSIVE Along(_, _, _)
Along(n, i, k) ==
    IF forward[n][i] # Nil /\ forward[n][i] < k THEN Along(forward[n][i], i, k) ELSE n

\* update[i]: where the search for k, coming down from the top, leaves level i.
RECURSIVE Update(_, _)
Update(i, k) == Along(IF i >= height THEN Top ELSE Update(i + 1, k), i, k)

\* A level above the old height starts at the head.
Before(i, k) == IF i > height THEN Top ELSE Update(i, k)

\* get.
Found(k) == forward[Update(1, k)][1] = k

\* Mutant of MemGet: the search does not come down from the top level.
MemGetTop(k) == IF forward[Update(height, k)][1] = k THEN entry[k] ELSE Absent

MemGet(k) == IF Found(k) THEN entry[k] ELSE Absent

\* The bottom level from n on: what the iterator copies.
RECURSIVE Chain(_)
Chain(n) == IF n = Nil THEN <<>> ELSE <<n>> \o Chain(forward[n][1])

Iterated == Chain(forward[Top][1])

\* put's result: by how much the memtable grew.
Grown(k, kind) == IF Found(k) THEN Size(kind) - Size(entry[k].kind) ELSE Size(kind)

\* Put and Delete, with randomLevel's level.
Put(k, kind, level) ==
    /\ puts < MaxPuts
    /\ puts' = puts + 1
    /\ written' = [written EXCEPT ![k] = [kind |-> kind, seq |-> puts']]
    /\ entry' = [n \in DOMAIN entry \cup {k} |-> IF n = k THEN written'[k] ELSE entry[n]]
    /\ approxSize' = approxSize + Grown(k, kind)
    /\ \/ Found(k) /\ level = 1 /\ UNCHANGED <<forward, height>>
       \/ /\ ~Found(k)
          /\ height' = IF level > height THEN level ELSE height
          /\ forward' = [n \in DOMAIN forward \cup {k} |->
                IF n = k THEN [i \in 1..level |-> forward[Before(i, k)][i]]
                ELSE [i \in DOMAIN forward[n] |->
                        IF i <= level /\ n = Before(i, k) THEN k ELSE forward[n][i]]]
    /\ UNCHANGED <<tables, cacheVars, damaged, getVars, content>>

-----------------------------------------------------------------------------
(***************************************************************************)
(* Writer.  A table is its data blocks, and what OpenWithCache loads: the  *)
(* last key of each block, the filter's bits, the highest sequence number. *)
(***************************************************************************)
RECURSIVE Bytes(_)
Bytes(block) == IF block = <<>> THEN 0 ELSE Size(Head(block).kind) + Bytes(Tail(block))

Record(k) == [key |-> k, kind |-> entry[k].kind, seq |-> entry[k].seq]

\* Add for every key of the iterator, then Finish's flushBlock.
RECURSIVE Blocks(_, _)
Blocks(cur, rest) ==
    IF rest = <<>> THEN (IF cur = <<>> THEN <<>> ELSE <<cur>>)
    ELSE LET more == Append(cur, Record(Head(rest)))
         IN  IF Bytes(more) >= BlockSize THEN <<more>> \o Blocks(<<>>, Tail(rest))
             ELSE Blocks(more, Tail(rest))

Index(blocks) == [b \in DOMAIN blocks |-> blocks[b][Len(blocks[b])].key]

\* The bits add sets and mayContain tests.
BitsOf(k) == {(H1(k) + i * H2(k)) % Bits : i \in 0..(Probes - 1)}

Largest(S) == CHOOSE x \in S : \A y \in S : y <= x

MaxSeq(keys) == Largest({0} \cup {entry[keys[i]].seq : i \in DOMAIN keys})

Ascending(s) == \A i \in 1..(Len(s) - 1) : s[i] < s[i + 1]

\* A flush, or RestoreSnapshot, which may write an empty table: Add refuses keys
\* that are not in order, a filter for no keys has no bits, the memtable is replaced.
Flush ==
    /\ Len(tables) < MaxTables
    /\ Ascending(Iterated)
    /\ tables' = Append(tables,
           LET blocks == Blocks(<<>>, Iterated)
           IN  [blocks |-> blocks,
                index  |-> Index(blocks),
                m      |-> IF Iterated = <<>> THEN 0 ELSE Bits,
                bits   |-> UNION {BitsOf(Iterated[i]) : i \in DOMAIN Iterated},
                maxSeq |-> MaxSeq(Iterated)])
    /\ content' = Append(content, written)
    /\ written' = Nothing
    /\ forward' = NewList
    /\ height' = 1
    /\ entry' = <<>>
    /\ approxSize' = 0
    /\ UNCHANGED <<cacheVars, damaged, getVars, puts>>

-----------------------------------------------------------------------------
(***************************************************************************)
(* The block cache, most recently used first.                              *)
(***************************************************************************)
At(t, b) == <<t, b>>   \* (file, offset)

Others(key) == SelectSeq(cache, LAMBDA e : e.key # key)
Cached(key) == Len(Others(key)) < Len(cache)
Kept(key)   == cache[CHOOSE i \in DOMAIN cache : cache[i].key = key]

Total(s) == LET RECURSIVE Upto(_)
                Upto(n) == IF n = 0 THEN 0 ELSE Bytes(s[n].data) + Upto(n - 1)
            IN  Upto(Len(s))

\* get, on a hit.
CacheHit(key) ==
    /\ Cached(key)
    /\ cache' = <<Kept(key)>> \o Others(key)
    /\ UNCHANGED curBytes

\* What evictOldest leaves of s while total exceeds maxBytes.
RECURSIVE Evicted(_, _)
Evicted(s, total) ==
    IF total <= MaxBytes THEN [cache |-> s, bytes |-> total]
    ELSE Evicted(SubSeq(s, 1, Len(s) - 1), total - Bytes(s[Len(s)].data))

\* Mutant of CachePut: a block that another reader has put meanwhile is put again.
CachePutTwice(key, data) ==
    IF Bytes(data) > MaxBytes THEN UNCHANGED cacheVars
    ELSE LET e == Evicted(<<[key |-> key, data |-> data]>> \o Others(key),
                          curBytes + Bytes(data))
         IN  cache' = e.cache /\ curBytes' = e.bytes

\* put.
CachePut(key, data) ==
    \/ /\ MaxBytes > 0
       /\ CacheHit(key)
    \/ /\ MaxBytes > 0 => ~Cached(key)
       /\ MaxBytes <= 0 \/ Bytes(data) > MaxBytes
       /\ UNCHANGED cacheVars
    \/ /\ MaxBytes > 0
       /\ ~Cached(key)
       /\ Bytes(data) <= MaxBytes
       /\ LET e == Evicted(<<[key |-> key, data |-> data]>> \o cache, curBytes + Bytes(data))
          IN  cache' = e.cache /\ curBytes' = e.bytes

-----------------------------------------------------------------------------
(***************************************************************************)
(* Reader.                                                                 *)
(***************************************************************************)
MayContain(t, k) == tables[t].m = 0 \/ BitsOf(k) \subseteq tables[t].bits

\* Mutant of FirstAtLeast: the block after the one whose last key is k.
FirstAbove(s, k) ==
    Cardinality({i \in DOMAIN s : s[i] <= k}) + 1

\* sort.Search: the first position whose key is k or more, past the end if none.
\* s is in order, so that it follows the positions below k.
FirstAtLeast(s, k) == Cardinality({i \in DOMAIN s : s[i] < k}) + 1

\* The scan of a block, which stops at the first key above k.
RECURSIVE Scan(_, _)
Scan(data, k) ==
    IF data = <<>> \/ Head(data).key > k THEN Absent
    ELSE IF Head(data).key = k THEN [kind |-> Head(data).kind, seq |-> Head(data).seq]
    ELSE Scan(Tail(data), k)

Answer(r, t, k, e) == answer' = [answer EXCEPT ![r] = [table |-> t, key |-> k, entry |-> e]]

\* r's iterator has a block to load.
Walking(r) ==
    /\ walk[r].table # 0
    /\ ~walk[r].err
    /\ walk[r].block < Len(tables[walk[r].table].index)

\* r is between two calls; the engine walks a table to its end before it goes on.
Free(r) == reading[r] = Idle /\ ~Walking(r)

\* Get: without the table's data, from a cached block, or on to the disk.
Get(r, t, k) ==
    /\ Free(r)
    /\ gets < MaxGets
    /\ t \in DOMAIN tables
    /\ gets' = gets + 1
    /\ LET b == FirstAtLeast(tables[t].index, k)
       IN  \/ /\ ~MayContain(t, k) \/ b > Len(tables[t].index)
              /\ Answer(r, t, k, Absent)
              /\ UNCHANGED <<cacheVars, reading>>
           \/ /\ MayContain(t, k)
              /\ b <= Len(tables[t].index)
              /\ CacheHit(At(t, b))
              /\ Answer(r, t, k, Scan(Kept(At(t, b)).data, k))
              /\ UNCHANGED reading
           \/ /\ MayContain(t, k)
              /\ b <= Len(tables[t].index)
              /\ ~Cached(At(t, b))
              /\ reading' = [reading EXCEPT ![r] = [table |-> t, block |-> b, key |-> k]]
              /\ UNCHANGED <<cacheVars, answer>>
    /\ UNCHANGED <<memVars, tables, damaged, walk, puts, written, content>>

\* readChecksummed: no entries (which no written block has) stand for its error.
Checked(t, b) == IF At(t, b) \in damaged THEN <<>> ELSE tables[t].blocks[b]

\* Mutant of Loaded: a block that can not be read is passed over.
LoadedAnyway(r, data) ==
    walk' = [walk EXCEPT ![r] = [@ EXCEPT !.block = @ + 1, !.seen = @ \o data]]

\* loadBlock, once it has the block.
Loaded(r, data) ==
    walk' = [walk EXCEPT ![r] =
        IF data = <<>> THEN [@ EXCEPT !.err = TRUE]
        ELSE [@ EXCEPT !.block = @ + 1, !.seen = @ \o data]]

\* readDataBlock's disk read and put, and the rest of Get or loadBlock.
ReadBlock(r) ==
    /\ reading[r] # Idle
    /\ LET g == reading[r]
           data == Checked(g.table, g.block)
       IN  /\ \/ data = <<>> /\ UNCHANGED cacheVars
              \/ data # <<>> /\ CachePut(At(g.table, g.block), data)
           /\ \/ /\ g.key # NoKey
                 /\ Answer(r, g.table, g.key, IF data = <<>> THEN Failed ELSE Scan(data, g.key))
                 /\ UNCHANGED walk
              \/ /\ g.key = NoKey
                 /\ Loaded(r, data)
                 /\ UNCHANGED answer
    /\ reading' = [reading EXCEPT ![r] = Idle]
    /\ UNCHANGED <<memVars, tables, damaged, gets, puts, written, content>>

\* NewIterator and SeekToFirst, up to its loadBlock.
SeekToFirst(r, t) ==
    /\ Free(r)
    /\ gets < MaxGets
    /\ t \in DOMAIN tables
    /\ gets' = gets + 1
    /\ walk' = [walk EXCEPT ![r] = [NoWalk EXCEPT !.table = t]]
    /\ UNCHANGED <<memVars, tables, cacheVars, damaged, reading, answer, puts, written, content>>

\* loadBlock, when Next or SeekToFirst comes to a block: from the cache, or on to
\* the disk.  After the last block, or an error, the iterator is not Valid.
LoadBlock(r) ==
    /\ reading[r] = Idle
    /\ Walking(r)
    /\ LET t == walk[r].table
           b == walk[r].block + 1
       IN  \/ /\ CacheHit(At(t, b))
              /\ Loaded(r, Kept(At(t, b)).data)
              /\ UNCHANGED reading
           \/ /\ ~Cached(At(t, b))
              /\ reading' = [reading EXCEPT ![r] = [table |-> t, block |-> b, key |-> NoKey]]
              /\ UNCHANGED <<cacheVars, walk>>
    /\ UNCHANGED <<memVars, tables, damaged, answer, gets, puts, written, content>>

\* A data block goes bad on the disk.
Damage(t, b) ==
    /\ Cardinality(damaged) < MaxDamage
    /\ t \in DOMAIN tables
    /\ b \in DOMAIN tables[t].blocks
    /\ damaged' = damaged \cup {At(t, b)}
    /\ At(t, b) \notin damaged
    /\ UNCHANGED <<memVars, tables, cacheVars, getVars, puts, written, content>>

-----------------------------------------------------------------------------
Init ==
    /\ forward = NewList
    /\ height = 1
    /\ entry = <<>>
    /\ approxSize = 0
    /\ tables = <<>>
    /\ cache = <<>>
    /\ curBytes = 0
    /\ damaged = {}
    /\ reading = [r \in Reader |-> Idle]
    /\ answer = [r \in Reader |-> [table |-> 0, key |-> 0, entry |-> Absent]]
    /\ walk = [r \in Reader |-> NoWalk]
    /\ gets = 0
    /\ puts = 0
    /\ written = Nothing
    /\ content = <<>>

Next ==
    \/ \E k \in Key, kind \in Kind, level \in 1..MaxHeight : Put(k, kind, level)
    \/ Flush
    \/ \E r \in Reader, t \in 1..MaxTables, k \in Key : Get(r, t, k)
    \/ \E r \in Reader, t \in 1..MaxTables : SeekToFirst(r, t)
    \/ \E r \in Reader : LoadBlock(r) \/ ReadBlock(r)
    \/ \E t \in 1..MaxTables, b \in 1..MaxKey : Damage(t, b)

Spec == Init /\ [][Next]_vars

-----------------------------------------------------------------------------
(***************************************************************************)
(* Properties.                                                             *)
(***************************************************************************)
\* However the levels fell, a search from the top finds exactly the last entry
\* written for a key, the bottom level holds every key once in order, and every
\* higher level is a sub-list of the one below (put's update[], get, NewIterator).
\* The memtable's size counts each of its keys once (put's result, approxSize).
SkipListExact ==
    /\ \A k \in Key : MemGet(k) = written[k]
    /\ Ascending(Iterated)
    /\ approxSize = Bytes([i \in DOMAIN Iterated |-> entry[Iterated[i]]])
    /\ \A i \in 2..height, n \in DOMAIN forward :
          i \in DOMAIN forward[n] /\ forward[n][i] # Nil
            => i \in DOMAIN forward[forward[n][i]] /\ n < forward[n][i]

\* A Get answers with the table's entry for the key, a tombstone included, or
\* that there is none: neither the filter, the index, the end of a block nor a
\* block another reader cached or evicted meanwhile hides or changes an entry.
\* Only a Get whose own block, the one with the last keys around its key, is damaged
\* may fail instead (Reader.Get).
GetExact ==
    \A r \in Reader :
        LET a == answer[r]
            last == tables[a.table].index
        IN  a.table # 0 =>
              \/ a.entry = content[a.table][a.key]
              \/ /\ a.entry = Failed
                 /\ \E b \in DOMAIN last :
                       /\ At(a.table, b) \in damaged
                       /\ a.key <= last[b]
                       /\ b > 1 => last[b - 1] < a.key

\* An iterator yields the entries of its table in order and leaves none out on the
\* way; it ends before the last of them only with an error, and only at a damaged
\* block (Iterator.Next, loadBlock, Err).  The table's footer covers every sequence
\* number in it, so that a reopened engine never gives one out again
\* (Writer.maxSeq, Reader.MaxSeq).
WalkExact ==
    /\ \A t \in DOMAIN tables, k \in Key : content[t][k].seq <= tables[t].maxSeq
    /\ \A r \in Reader :
        LET t == walk[r].table
            seen == walk[r].seen
            unseen == {k \in Key : content[t][k] # Absent} \ {seen[i].key : i \in DOMAIN seen}
        IN  t # 0 =>
              /\ Ascending([i \in DOMAIN seen |-> seen[i].key])
              /\ \A i \in DOMAIN seen :
                    content[t][seen[i].key] = [kind |-> seen[i].kind, seq |-> seen[i].seq]
              /\ \A k \in unseen :
                    /\ walk[r].block < Len(tables[t].index)
                    /\ \A i \in DOMAIN seen : seen[i].key < k
              /\ walk[r].err => At(t, walk[r].block + 1) \in damaged

\* The cache never holds more than maxBytes, its count is what it holds, and it
\* holds a block once, also when two readers missed the same block and both read
\* it (BlockCache.put, evictOldest).
CacheBounded ==
    /\ curBytes = Total(cache)
    /\ curBytes <= MaxBytes
    /\ \A i, j \in DOMAIN cache : cache[i].key = cache[j].key => i = j

=============================================================================
