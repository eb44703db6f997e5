----------------------------- MODULE BufferCache -----------------------------
(***************************************************************************)
(* src/buffer: a simulator of the buffer cache of a UNIX kernel.  Buffers  *)
(* are linked, by pointers, into one hash list per bucket and, while       *)
(* nobody uses them, into the free list.  The user types commands that     *)
(* call getblk and brelse and set or reset the flags of a buffer.  A       *)
(* command is one step, but for the loops of init_buf and _getblk, whose   *)
(* iterations are steps of their own.                                      *)
(*                                                                         *)
(* Abstracted: flag K, which nothing reads, and the commands that print.   *)
(***************************************************************************)
EXTENDS Integers, Sequences

CONSTANTS
    init_blkno,  \* the blocks in the buffers at the start
    init_free,   \* the blocks whose buffers start on the free list
    HASH_SIZE,
    NULL,
    Blkno,       \* block numbers the user types
    UserFlag     \* flags the user sets and resets

ASSUME InitBlknoAssumption ==
    /\ init_blkno \in Seq(Nat) /\ Len(init_blkno) > 0
    /\ \A j, k \in 1 .. Len(init_blkno) : init_blkno[j] = init_blkno[k] => j = k
ASSUME InitFreeAssumption ==
    /\ init_free \in Seq(Nat) /\ Len(init_free) > 0
    /\ \A j \in 1 .. Len(init_free) :
          \E k \in 1 .. Len(init_blkno) : init_free[j] = init_blkno[k]
    /\ \A j, k \in 1 .. Len(init_free) : init_free[j] = init_free[k] => j = k
ASSUME HashSizeAssumption == HASH_SIZE \in Nat \ {0}
ASSUME NullAssumption == NULL \notin Int
ASSUME BlknoAssumption == Blkno \subseteq Nat

Flag == {"L", "V", "D", "W", "O"}   \* locked, valid, delayed write, waited, old

ASSUME UserFlagAssumption == UserFlag \subseteq Flag

(***************************************************************************)
(* Nodes are numbered: buffer[k - 1] is k, the heads are not positive.     *)
(***************************************************************************)
Buffer == 1 .. Len(init_blkno)
freelist == 0
hash(n) == n % HASH_SIZE
hash_head(h) == - 1 - h
HashHead == {hash_head(h) : h \in 0 .. HASH_SIZE - 1}

HashNode == Buffer \cup HashHead
FreeNode == Buffer \cup {freelist}

VARIABLES
    pc,         \* where the program is
    i,          \* the counter of init_buf's loops
    want,       \* the argument of _getblk
    blkno, stat,
    hash_list,  \* hash_fp and hash_bp of all nodes
    free_list   \* free_fp and free_bp of all nodes

vars == <<pc, i, want, blkno, stat, hash_list, free_list>>

(***************************************************************************)
(* Circular lists with a head, linked in both directions.                  *)
(***************************************************************************)
InsertTail(l, h, n) ==
    [fp |-> [l.fp EXCEPT ![n] = h, ![l.bp[h]] = n],
     bp |-> [l.bp EXCEPT ![n] = l.bp[h], ![h] = n]]

InsertHead(l, h, n) ==
    [fp |-> [l.fp EXCEPT ![n] = l.fp[h], ![h] = n],
     bp |-> [l.bp EXCEPT ![n] = h, ![l.fp[h]] = n]]

\* Mutant of Unlink: the next node still points back at p.
Unlink_oneway(l, p) ==
    [fp |-> [l.fp EXCEPT ![l.bp[p]] = l.fp[p], ![p] = NULL],
     bp |-> [l.bp EXCEPT ![p] = NULL]]

Unlink(l, p) ==
    [fp |-> [l.fp EXCEPT ![l.bp[p]] = l.fp[p], ![p] = NULL],
     bp |-> [l.bp EXCEPT ![l.fp[p]] = l.bp[p], ![p] = NULL]]

\* l with these heads pointing at themselves.
Emptied(l, heads) ==
    [fp |-> [x \in DOMAIN l.fp |-> IF x \in heads THEN x ELSE l.fp[x]],
     bp |-> [x \in DOMAIN l.bp |-> IF x \in heads THEN x ELSE l.bp[x]]]

Closed(S, l) == \A x \in S : l.fp[x] \in S

\* The buffers a loop visits that follows fp from the head h of l.
Visited(l, h) ==
    {b \in Buffer : \A S \in SUBSET DOMAIN l.fp : (h \in S /\ Closed(S, l)) => b \in S}

\* search_hash: at most one buffer, none when it returns NULL.
search_hash(n) == {b \in Visited(hash_list, hash_head(hash(n))) : blkno[b] = n}

add_buf_to_hashlist(l, n, b) == InsertTail(l, hash_head(hash(n)), b)

is_freelist_empty == free_list.fp[freelist] = freelist

\* Mutant of get_oldest_buffer: the newest.
get_oldest_buffer_tail == free_list.bp[freelist]

get_oldest_buffer == free_list.fp[freelist]

(***************************************************************************)
(* init_buf, from main and as a command.                                   *)
(***************************************************************************)
Null(S) == [fp |-> [x \in S |-> NULL], bp |-> [x \in S |-> NULL]]

Init ==
    /\ pc = "start"
    /\ i = 1
    /\ want = 0
    /\ blkno = [b \in Buffer |-> 0]
    /\ stat = [b \in Buffer |-> {}]
    /\ hash_list = Null(HashNode)
    /\ free_list = Null(FreeNode)

init_buf ==
    /\ pc \in {"start", "prompt"}
    /\ pc' = "hashing"
    /\ i' = 1
    /\ hash_list' = Emptied(hash_list, HashHead)
    /\ free_list' = Emptied(free_list, {freelist})
    /\ UNCHANGED <<want, blkno, stat>>

\* Mutant of Count: one iteration too many.
Count_over(s, after) ==
    IF i > Len(s) THEN i' = 1 /\ pc' = after ELSE i' = i + 1 /\ UNCHANGED pc

\* The counter, at the end of an iteration of a loop over s.
Count(s, after) ==
    IF i = Len(s) THEN i' = 1 /\ pc' = after ELSE i' = i + 1 /\ UNCHANGED pc

HashBuffer ==
    /\ pc = "hashing"
    /\ hash_list' = add_buf_to_hashlist(hash_list, init_blkno[i], i)
    /\ blkno' = [blkno EXCEPT ![i] = init_blkno[i]]
    /\ stat' = [stat EXCEPT ![i] = {"V", "L"}]
    /\ Count(init_blkno, "freeing")
    /\ UNCHANGED <<want, free_list>>

FreeBuffer ==
    /\ pc = "freeing"
    /\ \E b \in search_hash(init_free[i]) :
          /\ free_list' = InsertTail(free_list, freelist, b)
          /\ stat' = [stat EXCEPT ![b] = @ \ {"L"}]
    /\ Count(init_free, "prompt")
    /\ UNCHANGED <<want, blkno, hash_list>>

(***************************************************************************)
(* _getblk.                                                                *)
(***************************************************************************)
Command(next) == pc = "prompt" /\ pc' = next /\ UNCHANGED i

getblk(n) ==
    /\ Command("getblk")
    /\ want' = n
    /\ UNCHANGED <<blkno, stat, hash_list, free_list>>

\* An iteration of its loop; want is gone when _getblk returns.
Pass(next) ==
    /\ pc = "getblk"
    /\ pc' = next
    /\ want' = IF next = "getblk" THEN want ELSE 0
    /\ UNCHANGED i

Locked(p) == "L" \in stat[p]

\* Scenario 5: the block is in a buffer somebody uses.
Busy(p) ==
    /\ Pass("prompt")
    /\ p \in search_hash(want)
    /\ Locked(p)
    /\ stat' = [stat EXCEPT ![p] = @ \cup {"W"}]
    /\ UNCHANGED <<blkno, hash_list, free_list>>

\* Scenario 4: no buffer is free.
NoneFree ==
    /\ Pass("prompt")
    /\ search_hash(want) = {}
    /\ is_freelist_empty
    /\ UNCHANGED <<blkno, stat, hash_list, free_list>>

\* Mutant of Candidate: the lock of the buffer found is not looked at.
Candidate_locked ==
    IF search_hash(want) # {} THEN search_hash(want)
    ELSE IF is_freelist_empty THEN {} ELSE {get_oldest_buffer}

\* The buffer this iteration takes off the free list.
Candidate ==
    IF search_hash(want) # {} THEN {p \in search_hash(want) : ~ Locked(p)}
    ELSE IF is_freelist_empty THEN {} ELSE {get_oldest_buffer}

\* remove_from_freelist follows a null pointer.
Torn(p) == free_list.fp[p] = NULL \/ free_list.bp[p] = NULL

Fault(p) ==
    /\ Pass("crash")
    /\ p \in Candidate
    /\ Torn(p)
    /\ UNCHANGED <<blkno, stat, hash_list, free_list>>

remove_from_freelist(p) ==
    /\ p \in Candidate
    /\ ~ Torn(p)
    /\ free_list' = Unlink(free_list, p)

Lock(p) == stat' = [stat EXCEPT ![p] = @ \cup {"L"}]

\* Scenario 1: the block is in a buffer nobody uses.
Hit(p) ==
    /\ Pass("prompt")
    /\ remove_from_freelist(p)
    /\ p \in search_hash(want)
    /\ Lock(p)
    /\ UNCHANGED <<blkno, hash_list>>

\* Mutant of WriteBack: the buffer stays on the free list.
WriteBack_stay(p) ==
    /\ Pass("getblk")
    /\ p \in Candidate
    /\ search_hash(want) = {}
    /\ "D" \in stat[p]
    /\ Lock(p)
    /\ UNCHANGED <<blkno, hash_list, free_list>>

\* Scenario 3: the oldest buffer has to be written first; the loop goes on.
WriteBack(p) ==
    /\ Pass("getblk")
    /\ remove_from_freelist(p)
    /\ search_hash(want) = {}
    /\ "D" \in stat[p]
    /\ Lock(p)
    /\ UNCHANGED <<blkno, hash_list>>

\* Mutant of Replace: the buffer stays in the hash list of its former block.
Replace_unmoved(p) ==
    /\ Pass("prompt")
    /\ remove_from_freelist(p)
    /\ search_hash(want) = {}
    /\ "D" \notin stat[p]
    /\ blkno' = [blkno EXCEPT ![p] = want]
    /\ stat' = [stat EXCEPT ![p] = (@ \cup {"L"}) \ {"V"}]
    /\ UNCHANGED hash_list

\* Scenario 2: the oldest buffer gets the block.
Replace(p) ==
    /\ Pass("prompt")
    /\ remove_from_freelist(p)
    /\ search_hash(want) = {}
    /\ "D" \notin stat[p]
    /\ hash_list' = add_buf_to_hashlist(Unlink(hash_list, p), want, p)
    /\ blkno' = [blkno EXCEPT ![p] = want]
    /\ stat' = [stat EXCEPT ![p] = (@ \cup {"L"}) \ {"V"}]

(***************************************************************************)
(* _brelse, _set_stat, _reset_stat, and the other commands.                *)
(***************************************************************************)
\* Mutant of Release: nobody is woken.
Release_asleep(p) ==
    /\ Command("prompt")
    /\ "V" \in stat[p]
    /\ free_list' = IF "O" \in stat[p] THEN InsertHead(free_list, freelist, p)
                                       ELSE InsertTail(free_list, freelist, p)
    /\ stat' = [stat EXCEPT ![p] = @ \ {"L", "O"}]
    /\ UNCHANGED <<want, blkno, hash_list>>

Release(p) ==
    /\ Command("prompt")
    /\ "V" \in stat[p]
    /\ free_list' = IF "O" \in stat[p] THEN InsertHead(free_list, freelist, p)
                                       ELSE InsertTail(free_list, freelist, p)
    /\ stat' = [stat EXCEPT ![p] = @ \ {"L", "W", "O"}]
    /\ UNCHANGED <<want, blkno, hash_list>>

\* "Buffer state is invalid": it stays locked, although its waiters are woken.
NotReleased(p) ==
    /\ Command("prompt")
    /\ "V" \notin stat[p]
    /\ stat' = [stat EXCEPT ![p] = @ \ {"W"}]
    /\ UNCHANGED <<want, blkno, hash_list, free_list>>

brelse(n) == \E p \in search_hash(n) : Locked(p) /\ (Release(p) \/ NotReleased(p))

_set_stat(n, flag) == \E p \in search_hash(n) : stat' = [stat EXCEPT ![p] = @ \cup {flag}]

set(n, flag) ==
    /\ Command("prompt")
    /\ _set_stat(n, flag)
    /\ UNCHANGED <<want, blkno, hash_list, free_list>>

_reset_stat(n, flag) == \E p \in search_hash(n) : stat' = [stat EXCEPT ![p] = @ \ {flag}]

reset(n, flag) ==
    /\ Command("prompt")
    /\ _reset_stat(n, flag)
    /\ UNCHANGED <<want, blkno, hash_list, free_list>>

\* A command about a block that no buffer holds, or brelse of a free one.
Refused(n) ==
    /\ Command("prompt")
    /\ \A p \in search_hash(n) : ~ Locked(p)
    /\ UNCHANGED <<want, blkno, stat, hash_list, free_list>>

quit ==
    /\ Command("exit")
    /\ UNCHANGED <<want, blkno, stat, hash_list, free_list>>

Ended == pc \in {"exit", "crash"} /\ UNCHANGED vars

Getblk ==
    \/ \E p \in Buffer : Busy(p) \/ Hit(p) \/ WriteBack(p) \/ Replace(p) \/ Fault(p)
    \/ NoneFree

Next ==
    \/ init_buf
    \/ HashBuffer
    \/ FreeBuffer
    \/ Getblk
    \/ \E n \in Blkno : \/ getblk(n)
                        \/ brelse(n)
                        \/ Refused(n)
                        \/ \E flag \in UserFlag : set(n, flag) \/ reset(n, flag)
    \/ quit
    \/ Ended

Spec == Init /\ [][Next]_vars

\* A loop the program is in goes on.
FairSpec == Spec /\ WF_vars(HashBuffer) /\ WF_vars(FreeBuffer) /\ WF_vars(Getblk)
-----------------------------------------------------------------------------
(***************************************************************************)
(* Properties.                                                             *)
(***************************************************************************)
List(nodes) == [fp : [nodes -> nodes \cup {NULL}], bp : [nodes -> nodes \cup {NULL}]]

\* The types of the variables (buffer.h:35-44, buffer.c:3-5).
TypeOK ==
    /\ pc \in {"start", "hashing", "freeing", "prompt", "getblk", "exit", "crash"}
    /\ i \in Nat \ {0}
    /\ pc = "hashing" => i <= Len(init_blkno)
    /\ pc = "freeing" => i <= Len(init_free)
    /\ want \in Nat
    /\ blkno \in [Buffer -> Nat]
    /\ stat \in [Buffer -> SUBSET Flag]
    /\ hash_list \in List(HashNode)
    /\ free_list \in List(FreeNode)

\* The buffers that have a block since the last init.
Hashed == CASE pc = "start" -> {}
            [] pc = "hashing" -> 1 .. i - 1
            [] OTHER -> Buffer

\* Within these nodes the two directions of a list agree.
Mutual(l, nodes) ==
    \A x \in nodes : /\ l.fp[x] \in nodes /\ l.bp[l.fp[x]] = x
                     /\ l.bp[x] \in nodes /\ l.fp[l.bp[x]] = x

\* However blocks are replaced, buffers taken and released, and init repeated,
\* each buffer stays in the hash list of its block, where search_hash finds it,
\* and in no other (insert_tail, remove_from_hash).
HashListed == pc # "start" =>
    /\ Mutual(hash_list, Hashed \cup HashHead)
    /\ \A h \in 0 .. HASH_SIZE - 1 :
          Visited(hash_list, hash_head(h)) = {b \in Hashed : hash(blkno[b]) = h}

\* No block is in two buffers: a getblk that finds none really needs one.
BlockOnce == \A b, c \in Hashed : blkno[b] = blkno[c] => b = c

\* The free list holds the buffers that are not locked, all of them and no
\* other: getblk and brelse rely on the flag when they link and unlink, and
\* remove_from_freelist follows no null pointer.
FreeListed == pc \notin {"start", "hashing"} =>
    /\ pc # "crash"
    /\ Visited(free_list, freelist) = {b \in Buffer : ~ Locked(b)}
    /\ Mutual(free_list, {b \in Buffer : ~ Locked(b)} \cup {freelist})

\* Processes wait only for a buffer that is in use: when it becomes free they
\* are woken, whatever flags the buffer has (_brelse).
WaitedIsLocked == \A b \in Hashed : "W" \in stat[b] => Locked(b)

\* getblk returns although it goes around for every buffer to be written.
GetblkReturns == pc = "getblk" ~> pc # "getblk"

\* Who follows fp from the head of l meets the buffers of s, in their order.
Follows(l, s) ==
    /\ l.fp[freelist] = IF Len(s) = 0 THEN freelist ELSE s[1]
    /\ \A k \in 1 .. Len(s) : l.fp[s[k]] = IF k = Len(s) THEN freelist ELSE s[k + 1]

\* The order of the free list, from freelist on.
OrderOf(l) ==
    CHOOSE s \in UNION {[1 .. n -> Buffer] : n \in 0 .. Len(init_blkno)} : Follows(l, s)
Order == OrderOf(free_list)

Ready == pc \notin {"start", "hashing", "freeing"}

\* What a user of the cache sees once it is set up; before, it is empty.
Held == [b \in Buffer |-> IF Ready THEN blkno[b] ELSE NULL]
Queue == IF Ready THEN Order ELSE <<>>
Delayed == {b \in Buffer : Ready /\ "D" \in stat[b]}

\* The pointers implement BlockCache: a least-recently-used sequence of buffers.
Cache == INSTANCE BlockCache WITH
    Block <- Nat, NoBlock <- NULL, block <- Held, lru <- Queue, dirty <- Delayed

ImplementsCache == Cache!Spec
=============================================================================
