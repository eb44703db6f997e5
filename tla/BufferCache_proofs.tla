------------------------ MODULE BufferCache_proofs ------------------------
(***************************************************************************)
(* Proofs about BufferCache, for all initial contents, numbers of hash     *)
(* lists and block numbers.  The first part is about the circular lists of *)
(* free.c and hash.c, whatever they hold; then come the hash lists, the    *)
(* free list as a set, who waits, and the free list in its order, which    *)
(* shows that the pointers implement BlockCache and that the loop of       *)
(* _getblk uses the list up.                                               *)
(***************************************************************************)
EXTENDS BufferCache, FiniteSetTheorems, SequenceTheorems, TLAPS

(***************************************************************************)
(* R is the circular list of l that has the head h: within R the two       *)
(* directions agree, and who follows fp from h gets to every node of R.    *)
(***************************************************************************)
Ring(l, h, R) ==
    /\ h \in R
    /\ Mutual(l, R)
    /\ \A S \in SUBSET R : h \in S /\ Closed(S, l) => S = R

-----------------------------------------------------------------------------
\* A loop from the head visits exactly the buffers of the ring.
LEMMA RingVisited ==
    ASSUME NEW N, NEW l \in List(N), NEW R \in SUBSET N, NEW h, Ring(l, h, R)
    PROVE  Visited(l, h) = R \cap Buffer
<1>1. DOMAIN l.fp = N
  BY DEF List
<1>2. h \in R /\ Closed(R, l)
  BY DEF Ring, Mutual, Closed
<1>3. ASSUME NEW S \in SUBSET N, h \in S, Closed(S, l) PROVE R \subseteq S
  <2>1. Closed(S \cap R, l)
    BY <1>2, <1>3 DEF Closed
  <2>2. S \cap R = R
    BY <1>2, <1>3, <2>1 DEF Ring
  <2> QED
    BY <2>2
<1> QED
  BY <1>1, <1>2, <1>3 DEF Visited

\* A ring is as it was when the pointers of its nodes are.
LEMMA RingSame ==
    ASSUME NEW l, NEW m, NEW R, NEW h, Ring(l, h, R),
           \A x \in R : m.fp[x] = l.fp[x] /\ m.bp[x] = l.bp[x]
    PROVE  Ring(m, h, R)
<1>1. Mutual(m, R)
  BY DEF Ring, Mutual
<1>2. ASSUME NEW S \in SUBSET R, h \in S, Closed(S, m) PROVE S = R
  <2>1. Closed(S, l)
    BY <1>2 DEF Closed
  <2> QED
    BY <1>2, <2>1 DEF Ring
<1> QED
  BY <1>1, <1>2 DEF Ring

\* The first loops of init_buf: the head alone.
LEMMA RingEmptied ==
    ASSUME NEW N, NEW l \in List(N), NEW heads \in SUBSET N, NEW h \in heads
    PROVE  Ring(Emptied(l, heads), h, {h})
<1>1. Emptied(l, heads).fp[h] = h /\ Emptied(l, heads).bp[h] = h
  BY DEF Emptied, List
<1> QED
  BY <1>1 DEF Ring, Mutual

LEMMA EmptiedType ==
    ASSUME NEW N, NEW l \in List(N), NEW heads \in SUBSET N
    PROVE  Emptied(l, heads) \in List(N)
BY DEF Emptied, List

-----------------------------------------------------------------------------
\* What insert_tail leaves in each pointer.
LEMMA InsertTailAt ==
    ASSUME NEW N, NEW l \in List(N), NEW h \in N, NEW n \in N, l.bp[h] \in N, l.bp[h] # n, n # h
    PROVE  LET m == InsertTail(l, h, n)
           IN  /\ \A x \in N : m.fp[x] = IF x = n THEN h ELSE IF x = l.bp[h] THEN n ELSE l.fp[x]
               /\ \A x \in N : m.bp[x] = IF x = n THEN l.bp[h] ELSE IF x = h THEN n ELSE l.bp[x]
BY DEF InsertTail, List

LEMMA InsertTailType ==
    ASSUME NEW N, NEW l \in List(N), NEW h \in N, NEW n \in N
    PROVE  InsertTail(l, h, n) \in List(N)
BY DEF InsertTail, List

\* insert_tail appends one node.
LEMMA RingInsertTail ==
    ASSUME NEW N, NEW l \in List(N), NEW R \in SUBSET N, NEW h \in N, Ring(l, h, R),
           NEW n \in N \ R
    PROVE  Ring(InsertTail(l, h, n), h, R \cup {n})
<1> DEFINE m == InsertTail(l, h, n)
           t == l.bp[h]
<1>0. h \in R /\ t \in R /\ t # n /\ n # h
  BY DEF Ring, Mutual
<1>1. /\ \A x \in N : m.fp[x] = IF x = n THEN h ELSE IF x = t THEN n ELSE l.fp[x]
      /\ \A x \in N : m.bp[x] = IF x = n THEN t ELSE IF x = h THEN n ELSE l.bp[x]
  BY <1>0, InsertTailAt
<1>2. \A x \in R : /\ l.fp[x] \in R /\ l.bp[l.fp[x]] = x
                   /\ l.bp[x] \in R /\ l.fp[l.bp[x]] = x
  BY DEF Ring, Mutual
<1> HIDE DEF m
<1>3. Mutual(m, R \cup {n})
  BY <1>0, <1>1, <1>2 DEF Mutual
<1>4. ASSUME NEW S \in SUBSET (R \cup {n}), h \in S, Closed(S, m) PROVE S = R \cup {n}
  <2>1. Closed(S \ {n}, l)
    BY <1>0, <1>1, <1>2, <1>4 DEF Closed
  <2>2. S \ {n} = R
    BY <1>0, <1>4, <2>1 DEF Ring
  <2>3. m.fp[t] = n
    BY <1>0, <1>1
  <2> QED
    BY <1>0, <1>4, <2>2, <2>3 DEF Closed
<1> QED
  BY <1>0, <1>3, <1>4 DEF Ring, m

\* insert_tail leaves the other rings alone.
LEMMA RingInsertTailElsewhere ==
    ASSUME NEW N, NEW l \in List(N), NEW R \in SUBSET N, NEW h \in N, Ring(l, h, R),
           NEW n \in N \ R,
           NEW Q \in SUBSET (N \ R), n \notin Q, NEW g, Ring(l, g, Q)
    PROVE  Ring(InsertTail(l, h, n), g, Q)
<1>0. h \in R /\ l.bp[h] \in R /\ l.bp[h] # n /\ n # h
  BY DEF Ring, Mutual
<1>1. \A x \in Q : /\ InsertTail(l, h, n).fp[x] = l.fp[x]
                   /\ InsertTail(l, h, n).bp[x] = l.bp[x]
  BY <1>0, InsertTailAt
<1> QED
  BY <1>1, RingSame

-----------------------------------------------------------------------------
LEMMA InsertHeadAt ==
    ASSUME NEW N, NEW l \in List(N), NEW h \in N, NEW n \in N, l.fp[h] \in N, l.fp[h] # n, n # h
    PROVE  LET m == InsertHead(l, h, n)
           IN  /\ \A x \in N : m.fp[x] = IF x = n THEN l.fp[h] ELSE IF x = h THEN n ELSE l.fp[x]
               /\ \A x \in N : m.bp[x] = IF x = n THEN h ELSE IF x = l.fp[h] THEN n ELSE l.bp[x]
BY DEF InsertHead, List

LEMMA InsertHeadType ==
    ASSUME NEW N, NEW l \in List(N), NEW h \in N, NEW n \in N
    PROVE  InsertHead(l, h, n) \in List(N)
BY DEF InsertHead, List

\* insert_head puts one node in front.
LEMMA RingInsertHead ==
    ASSUME NEW N, NEW l \in List(N), NEW R \in SUBSET N, NEW h \in N, Ring(l, h, R),
           NEW n \in N \ R
    PROVE  Ring(InsertHead(l, h, n), h, R \cup {n})
<1> DEFINE m == InsertHead(l, h, n)
           f == l.fp[h]
<1>0. h \in R /\ f \in R /\ f # n /\ n # h
  BY DEF Ring, Mutual
<1>1. /\ \A x \in N : m.fp[x] = IF x = n THEN f ELSE IF x = h THEN n ELSE l.fp[x]
      /\ \A x \in N : m.bp[x] = IF x = n THEN h ELSE IF x = f THEN n ELSE l.bp[x]
  BY <1>0, InsertHeadAt
<1>2. \A x \in R : /\ l.fp[x] \in R /\ l.bp[l.fp[x]] = x
                   /\ l.bp[x] \in R /\ l.fp[l.bp[x]] = x
  BY DEF Ring, Mutual
<1> HIDE DEF m
<1>3. Mutual(m, R \cup {n})
  BY <1>0, <1>1, <1>2 DEF Mutual
<1>4. ASSUME NEW S \in SUBSET (R \cup {n}), h \in S, Closed(S, m) PROVE S = R \cup {n}
  <2>1. n \in S
    BY <1>0, <1>1, <1>4 DEF Closed
  <2>2. Closed(S \ {n}, l)
    BY <1>0, <1>1, <1>2, <1>4, <2>1 DEF Closed
  <2>3. S \ {n} = R
    BY <1>0, <1>4, <2>2 DEF Ring
  <2> QED
    BY <2>1, <2>3
<1> QED
  BY <1>0, <1>3, <1>4 DEF Ring, m

-----------------------------------------------------------------------------
\* A node of a ring, other than the head, is not its own neighbour.
LEMMA RingNeighbours ==
    ASSUME NEW l, NEW R, NEW h, Ring(l, h, R), NEW p \in R \ {h}
    PROVE  /\ l.fp[p] \in R \ {p}
           /\ l.bp[p] \in R \ {p}
<1>1. h \in R /\ \A x \in R : /\ l.fp[x] \in R /\ l.bp[l.fp[x]] = x
                              /\ l.bp[x] \in R /\ l.fp[l.bp[x]] = x
  BY DEF Ring, Mutual
<1>2. ASSUME l.fp[p] = p PROVE FALSE
  <2>1. Closed(R \ {p}, l)
    BY <1>1, <1>2 DEF Closed
  <2> QED
    BY <1>1, <2>1 DEF Ring
<1> QED
  BY <1>1, <1>2

LEMMA UnlinkAt ==
    ASSUME NEW N, NEW l \in List(N), NEW p \in N, l.fp[p] \in N \ {p}, l.bp[p] \in N \ {p}
    PROVE  LET m == Unlink(l, p)
           IN  /\ \A x \in N : m.fp[x] = IF x = p THEN NULL
                                         ELSE IF x = l.bp[p] THEN l.fp[p] ELSE l.fp[x]
               /\ \A x \in N : m.bp[x] = IF x = p THEN NULL
                                         ELSE IF x = l.fp[p] THEN l.bp[p] ELSE l.bp[x]
BY DEF Unlink, List

LEMMA UnlinkType ==
    ASSUME NEW N, NEW l \in List(N), NEW p \in N
    PROVE  Unlink(l, p) \in List(N)
BY DEF Unlink, List

\* remove_from_hash and remove_from_freelist take out one node.
LEMMA RingUnlink ==
    ASSUME NEW N, NEW l \in List(N), NEW R \in SUBSET N, NEW h \in N, Ring(l, h, R),
           NEW p \in R \ {h}
    PROVE  Ring(Unlink(l, p), h, R \ {p})
<1> DEFINE m == Unlink(l, p)
           f == l.fp[p]
           b == l.bp[p]
<1>0. f \in R \ {p} /\ b \in R \ {p} /\ h \in R
  BY RingNeighbours DEF Ring
<1>1. /\ \A x \in N : m.fp[x] = IF x = p THEN NULL ELSE IF x = b THEN f ELSE l.fp[x]
      /\ \A x \in N : m.bp[x] = IF x = p THEN NULL ELSE IF x = f THEN b ELSE l.bp[x]
  BY <1>0, UnlinkAt
<1>2. \A x \in R : /\ l.fp[x] \in R /\ l.bp[l.fp[x]] = x
                   /\ l.bp[x] \in R /\ l.fp[l.bp[x]] = x
  BY DEF Ring, Mutual
<1>3. l.fp[p] = f /\ l.bp[p] = b
  OBVIOUS
<1> HIDE DEF m, f, b
<1>4. Mutual(m, R \ {p})
  BY <1>0, <1>1, <1>2, <1>3 DEF Mutual
<1>5. ASSUME NEW S \in SUBSET (R \ {p}), h \in S, Closed(S, m) PROVE S = R \ {p}
  <2>1. CASE b \in S
    <3>1. Closed(S \cup {p}, l)
      BY <1>0, <1>1, <1>2, <1>3, <1>5, <2>1 DEF Closed
    <3> QED
      BY <1>0, <1>5, <3>1 DEF Ring
  <2>2. CASE b \notin S
    <3>1. Closed(S, l)
      BY <1>0, <1>1, <1>2, <1>3, <1>5, <2>2 DEF Closed
    <3> QED
      BY <1>0, <1>5, <3>1 DEF Ring
  <2> QED
    BY <2>1, <2>2
<1> QED
  BY <1>0, <1>4, <1>5 DEF Ring, m

\* Taking a node out of a ring leaves the others alone.
LEMMA RingUnlinkElsewhere ==
    ASSUME NEW N, NEW l \in List(N), NEW R \in SUBSET N, NEW h \in N, Ring(l, h, R),
           NEW p \in R \ {h},
           NEW Q \in SUBSET (N \ R), NEW g, Ring(l, g, Q)
    PROVE  Ring(Unlink(l, p), g, Q)
<1>0. l.fp[p] \in R \ {p} /\ l.bp[p] \in R \ {p}
  BY RingNeighbours
<1>1. \A x \in Q : Unlink(l, p).fp[x] = l.fp[x] /\ Unlink(l, p).bp[x] = l.bp[x]
  BY <1>0, UnlinkAt
<1> QED
  BY <1>1, RingSame
-----------------------------------------------------------------------------
(***************************************************************************)
(* The hash lists: the rings of their heads, whatever flags the user sets. *)
(***************************************************************************)
Hash == 0 .. HASH_SIZE - 1
HashRing(h) == {hash_head(h)} \cup {b \in Hashed : hash(blkno[b]) = h}

HashInv ==
    /\ TypeOK
    /\ pc # "start" => \A h \in Hash : Ring(hash_list, hash_head(h), HashRing(h))
    /\ pc = "hashing" => \A b \in Hashed : blkno[b] = init_blkno[b]
    /\ BlockOnce

LEMMA HashBound == \A n \in Nat : hash(n) \in Hash
BY HashSizeAssumption DEF hash, Hash

LEMMA HeadsApart ==
    /\ \A h \in Hash : hash_head(h) \in HashHead /\ hash_head(h) \notin Buffer
    /\ \A h, k \in Hash : hash_head(h) = hash_head(k) => h = k
BY HashSizeAssumption DEF hash_head, Hash, HashHead, Buffer

LEMMA Nodes ==
    /\ \A h \in Hash : hash_head(h) \in HashNode
    /\ Buffer \subseteq HashNode /\ Buffer \subseteq FreeNode /\ Buffer \subseteq Int
    /\ freelist \in FreeNode \ Buffer
    /\ HashHead \subseteq HashNode
    /\ \A n \in Nat : hash(n) \in Hash
BY HashBound DEF HashNode, FreeNode, Buffer, HashHead, Hash, freelist

LEMMA SearchInBuffer == \A n : search_hash(n) \subseteq Buffer
BY DEF search_hash, Visited

(***************************************************************************)
(* Types.                                                                  *)
(***************************************************************************)
LEMMA TypeInit == Init => TypeOK
BY InitBlknoAssumption DEF Init, TypeOK, List, Null

LEMMA AddType ==
    ASSUME TypeOK, NEW l \in List(HashNode), NEW n \in Nat, NEW b \in Buffer
    PROVE  add_buf_to_hashlist(l, n, b) \in List(HashNode)
<1>1. hash_head(hash(n)) \in HashNode /\ b \in HashNode
  BY Nodes
<1> QED
  BY <1>1, InsertTailType DEF add_buf_to_hashlist

\* The commands and the passes of _getblk that change flags only.
LEMMA StatType ==
    ASSUME TypeOK, NEW p \in Buffer, NEW S \in SUBSET Flag, stat' = [stat EXCEPT ![p] = S]
    PROVE  stat' \in [Buffer -> SUBSET Flag]
BY DEF TypeOK

LEMMA TypeStep == TypeOK /\ [Next]_vars => TypeOK'
<1> SUFFICES ASSUME TypeOK, [Next]_vars PROVE TypeOK'
  OBVIOUS
<1> USE DEF Flag
<1>1. CASE init_buf
  <2>1. hash_list' \in List(HashNode) /\ free_list' \in List(FreeNode)
    BY <1>1, Nodes, EmptiedType DEF init_buf, TypeOK
  <2> QED
    BY <1>1, <2>1, InitBlknoAssumption DEF init_buf, TypeOK
<1>2. CASE HashBuffer
  <2>1. i \in Buffer /\ init_blkno[i] \in Nat
    BY <1>2, InitBlknoAssumption DEF HashBuffer, TypeOK, Buffer
  <2>2. hash_list' \in List(HashNode)
    BY <1>2, <2>1, AddType DEF HashBuffer, TypeOK
  <2>3. stat' \in [Buffer -> SUBSET Flag] /\ blkno' \in [Buffer -> Nat]
    BY <1>2, <2>1 DEF HashBuffer, TypeOK
  <2>4. /\ pc' \in {"hashing", "freeing"} /\ i' \in Nat \ {0}
        /\ pc' = "hashing" => i' <= Len(init_blkno)
        /\ pc' = "freeing" => i' <= Len(init_free)
    BY <1>2, InitBlknoAssumption, InitFreeAssumption DEF HashBuffer, TypeOK, Count
  <2> QED
    BY <1>2, <2>2, <2>3, <2>4 DEF HashBuffer, TypeOK
<1>3. CASE FreeBuffer
  <2>1. PICK b \in Buffer : /\ free_list' = InsertTail(free_list, freelist, b)
                            /\ stat' = [stat EXCEPT ![b] = @ \ {"L"}]
    BY <1>3, SearchInBuffer DEF FreeBuffer
  <2>2. free_list' \in List(FreeNode)
    BY <2>1, Nodes, InsertTailType DEF TypeOK
  <2>3. stat' \in [Buffer -> SUBSET Flag]
    BY <2>1 DEF TypeOK
  <2>4. /\ pc' \in {"freeing", "prompt"} /\ i' \in Nat \ {0}
        /\ pc' = "freeing" => i' <= Len(init_free)
    BY <1>3, InitFreeAssumption DEF FreeBuffer, TypeOK, Count
  <2> QED
    BY <1>3, <2>2, <2>3, <2>4 DEF FreeBuffer, TypeOK
<1>4. ASSUME NEW p \in Buffer, Busy(p) PROVE TypeOK'
  BY <1>4 DEF Busy, Pass, TypeOK
<1>5. ASSUME NEW p \in Buffer, Hit(p) \/ WriteBack(p) \/ Replace(p) PROVE TypeOK'
  <2>1. free_list' \in List(FreeNode)
    BY <1>5, Nodes, UnlinkType DEF Hit, WriteBack, Replace, remove_from_freelist, TypeOK
  <2>2. hash_list' \in List(HashNode)
    BY <1>5, Nodes, UnlinkType, AddType DEF Hit, WriteBack, Replace, TypeOK
  <2>3. blkno' \in [Buffer -> Nat] /\ stat' \in [Buffer -> SUBSET Flag]
    BY <1>5 DEF Hit, WriteBack, Replace, Lock, TypeOK
  <2>4. pc' \in {"prompt", "getblk"} /\ want' \in Nat /\ i' = i
    BY <1>5 DEF Hit, WriteBack, Replace, Pass, TypeOK
  <2> QED
    BY <2>1, <2>2, <2>3, <2>4 DEF TypeOK
<1>6. ASSUME NEW p \in Buffer, Fault(p) PROVE TypeOK'
  BY <1>6 DEF Fault, Pass, TypeOK
<1>7. CASE NoneFree
  BY <1>7 DEF NoneFree, Pass, TypeOK
<1>8. ASSUME NEW n \in Blkno, getblk(n) PROVE TypeOK'
  BY <1>8, BlknoAssumption DEF getblk, Command, TypeOK
<1>9. ASSUME NEW n \in Blkno, brelse(n) PROVE TypeOK'
  <2>1. PICK p \in Buffer : Release(p) \/ NotReleased(p)
    BY <1>9, SearchInBuffer DEF brelse
  <2>2. free_list' \in List(FreeNode)
    BY <2>1, Nodes, InsertTailType, InsertHeadType DEF Release, NotReleased, TypeOK
  <2>3. stat' \in [Buffer -> SUBSET Flag]
    BY <2>1 DEF Release, NotReleased, TypeOK
  <2> QED
    BY <2>1, <2>2, <2>3 DEF Release, NotReleased, Command, TypeOK
<1>10. ASSUME NEW n \in Blkno, NEW flag \in UserFlag, set(n, flag) \/ reset(n, flag)
       PROVE  TypeOK'
  <2>1. PICK p \in Buffer : \/ stat' = [stat EXCEPT ![p] = @ \cup {flag}]
                            \/ stat' = [stat EXCEPT ![p] = @ \ {flag}]
    BY <1>10, SearchInBuffer DEF set, reset, _set_stat, _reset_stat
  <2>2. stat' \in [Buffer -> SUBSET Flag]
    BY <2>1, UserFlagAssumption DEF TypeOK
  <2> QED
    BY <1>10, <2>2 DEF set, reset, Command, TypeOK
<1>11. ASSUME NEW n \in Blkno, Refused(n) PROVE TypeOK'
  BY <1>11 DEF Refused, Command, TypeOK
<1>12. CASE quit
  BY <1>12 DEF quit, Command, TypeOK
<1>13. CASE UNCHANGED vars
  BY <1>13 DEF vars, TypeOK
<1> QED
  BY <1>1, <1>2, <1>3, <1>4, <1>5, <1>6, <1>7, <1>8, <1>9, <1>10, <1>11, <1>12, <1>13
     DEF Next, Getblk, Ended

LEMMA HashedBuffers == TypeOK => Hashed \subseteq Buffer
BY InitBlknoAssumption DEF Hashed, Buffer, TypeOK

\* The rings of different heads have no node in common.
LEMMA HashRingsApart ==
    ASSUME TypeOK, NEW h \in Hash, NEW k \in Hash, h # k
    PROVE  HashRing(h) \cap HashRing(k) = {}
BY HashedBuffers, HeadsApart DEF HashRing

LEMMA HashRingNodes ==
    ASSUME TypeOK, NEW h \in Hash
    PROVE  HashRing(h) \subseteq HashNode /\ hash_head(h) \in HashRing(h)
BY HashedBuffers, Nodes DEF HashRing

\* search_hash finds the buffers that hold the block.
LEMMA SearchFinds ==
    ASSUME HashInv, pc # "start", NEW n \in Nat
    PROVE  search_hash(n) = {b \in Hashed : blkno[b] = n}
<1>1. hash(n) \in Hash /\ HashRing(hash(n)) \subseteq HashNode
  BY Nodes, HashRingNodes DEF HashInv
<1>2. Visited(hash_list, hash_head(hash(n))) = HashRing(hash(n)) \cap Buffer
  BY <1>1, RingVisited DEF HashInv, TypeOK
<1>3. Visited(hash_list, hash_head(hash(n))) = {b \in Hashed : hash(blkno[b]) = hash(n)}
  BY <1>1, <1>2, HeadsApart, HashedBuffers DEF HashRing, HashInv
<1> QED
  BY <1>3 DEF search_hash

(***************************************************************************)
(* The steps.                                                              *)
(***************************************************************************)
LEMMA HashInit == Init => HashInv
BY TypeInit DEF Init, HashInv, BlockOnce, Hashed

\* Steps that leave the blocks and the hash lists alone.
LEMMA HashFramed ==
    ASSUME HashInv, TypeOK', UNCHANGED <<blkno, hash_list>>, Hashed' = Hashed,
           pc # "start", pc' # "hashing" \/ pc = "hashing"
    PROVE  HashInv'
<1>1. ASSUME NEW h \in Hash PROVE HashRing(h)' = HashRing(h)
  BY DEF HashRing
<1>2. \A h \in Hash : Ring(hash_list, hash_head(h), HashRing(h))'
  BY <1>1 DEF HashInv, Ring, Mutual, Closed
<1> QED
  BY <1>2 DEF HashInv, BlockOnce

LEMMA HashInitBuf == HashInv /\ TypeOK' /\ init_buf => HashInv'
<1> SUFFICES ASSUME HashInv, TypeOK', init_buf PROVE HashInv'
  OBVIOUS
<1>1. Hashed' = {}
  BY DEF Hashed, init_buf
<1>2. ASSUME NEW h \in Hash PROVE Ring(hash_list, hash_head(h), HashRing(h))'
  <2>1. HashRing(h)' = {hash_head(h)}
    BY <1>1 DEF HashRing
  <2>2. Ring(hash_list', hash_head(h), {hash_head(h)})
    BY HeadsApart, Nodes, RingEmptied DEF init_buf, HashInv, TypeOK
  <2> QED
    BY <2>1, <2>2 DEF Ring, Mutual, Closed
<1> QED
  BY <1>1, <1>2 DEF HashInv, BlockOnce

LEMMA HashHashBuffer == HashInv /\ TypeOK' /\ HashBuffer => HashInv'
<1> SUFFICES ASSUME HashInv, TypeOK', HashBuffer PROVE HashInv'
  OBVIOUS
<1> DEFINE n == init_blkno[i]
           k == hash(n)
<1>1. i \in Buffer /\ n \in Nat /\ k \in Hash /\ TypeOK
  BY InitBlknoAssumption, Nodes DEF HashInv, HashBuffer, TypeOK, Buffer
<1>2. Hashed = 1 .. i - 1 /\ i \notin Hashed /\ pc = "hashing" /\ pc # "start"
  BY <1>1 DEF HashBuffer, Hashed, Buffer
<1>3. Hashed' = Hashed \cup {i}
  BY <1>1, InitBlknoAssumption DEF HashBuffer, Hashed, Count, Buffer
<1>4. /\ \A b \in Hashed : blkno'[b] = blkno[b] /\ blkno[b] = init_blkno[b]
      /\ blkno'[i] = n
  BY <1>1, <1>2, HashedBuffers DEF HashBuffer, HashInv, TypeOK
<1>5. hash_list' = InsertTail(hash_list, hash_head(k), i)
  BY DEF HashBuffer, add_buf_to_hashlist
<1>6. ASSUME NEW h \in Hash
      PROVE  /\ h = k => HashRing(h)' = HashRing(h) \cup {i}
             /\ h # k => HashRing(h)' = HashRing(h)
  BY <1>2, <1>3, <1>4, <1>6 DEF HashRing
<1>7. ASSUME NEW h \in Hash
      PROVE  /\ HashRing(h) \in SUBSET HashNode /\ i \notin HashRing(h)
             /\ Ring(hash_list, hash_head(h), HashRing(h)) /\ hash_head(h) \in HashNode
  BY <1>1, <1>2, HashRingNodes, HeadsApart, Nodes DEF HashInv, HashRing
<1>8. i \in HashNode /\ hash_list \in List(HashNode)
  BY <1>1, Nodes DEF TypeOK
<1> HIDE DEF n, k
<1>9. ASSUME NEW h \in Hash PROVE Ring(hash_list', hash_head(h), HashRing(h)')
  <2>1. CASE h = k
    <3>1. Ring(InsertTail(hash_list, hash_head(k), i), hash_head(k), HashRing(k) \cup {i})
      BY <1>1, <1>7, <1>8, RingInsertTail
    <3> QED
      BY <1>5, <1>6, <2>1, <3>1
  <2>2. CASE h # k
    <3>1. HashRing(h) \in SUBSET (HashNode \ HashRing(k))
      BY <1>1, <1>7, <2>2, HashRingsApart
    <3>2. Ring(InsertTail(hash_list, hash_head(k), i), hash_head(h), HashRing(h))
      BY <1>1, <1>7, <1>8, <3>1, RingInsertTailElsewhere
    <3> QED
      BY <1>5, <1>6, <2>2, <3>2
  <2> QED
    BY <2>1, <2>2
<1>10. \A h \in Hash : Ring(hash_list, hash_head(h), HashRing(h))'
  BY <1>9 DEF Ring, Mutual, Closed
<1>11. \A b \in Hashed' : blkno'[b] = init_blkno[b]
  BY <1>3, <1>4 DEF n
<1>12. BlockOnce'
  BY <1>1, <1>3, <1>11, HashedBuffers, InitBlknoAssumption DEF BlockOnce, Buffer
<1> QED
  BY <1>10, <1>11, <1>12 DEF HashInv

\* Scenario 2: the buffer moves from the list of its block to that of the new one.
LEMMA HashReplace == ASSUME NEW p \in Buffer PROVE HashInv /\ TypeOK' /\ Replace(p) => HashInv'
<1> SUFFICES ASSUME HashInv, TypeOK', Replace(p) PROVE HashInv'
  OBVIOUS
<1> DEFINE k == hash(want)
           o == hash(blkno[p])
           m == Unlink(hash_list, p)
<1>1. /\ TypeOK /\ p \in HashNode /\ hash_list \in List(HashNode)
      /\ k \in Hash /\ o \in Hash
  BY Nodes DEF HashInv, TypeOK
<1>2. Hashed = Buffer /\ Hashed' = Buffer /\ pc # "start" /\ pc' = "prompt"
  BY DEF Replace, Pass, Hashed
<1>3. \A b \in Buffer : blkno[b] # want
  BY <1>1, <1>2, SearchFinds DEF Replace, TypeOK
<1>4. blkno' = [blkno EXCEPT ![p] = want]
  BY DEF Replace
<1>5. hash_list' = InsertTail(m, hash_head(k), p) /\ m \in List(HashNode)
  BY <1>1, UnlinkType DEF Replace, add_buf_to_hashlist
<1>6. ASSUME NEW h \in Hash
      PROVE  /\ HashRing(h) \in SUBSET HashNode
             /\ Ring(hash_list, hash_head(h), HashRing(h)) /\ hash_head(h) \in HashNode
             /\ p \in HashRing(h) <=> h = o
             /\ p # hash_head(h)
  BY <1>1, <1>2, HashRingNodes, HeadsApart, Nodes DEF HashInv, HashRing
<1>7. ASSUME NEW h \in Hash
      PROVE  /\ h = k => HashRing(h)' = (HashRing(h) \ {p}) \cup {p}
             /\ h # k => HashRing(h)' = HashRing(h) \ {p}
  <2>1. \A b \in Buffer : hash(blkno'[b]) = IF b = p THEN k ELSE hash(blkno[b])
    BY <1>1, <1>4 DEF TypeOK
  <2>2. /\ HashRing(h) = {hash_head(h)} \cup {b \in Buffer : hash(blkno[b]) = h}
        /\ HashRing(h)' = {hash_head(h)} \cup {b \in Buffer : hash(blkno'[b]) = h}
    BY <1>2 DEF HashRing
  <2> HIDE DEF k
  <2> QED
    BY <1>6, <2>1, <2>2
<1> HIDE DEF k, o
<1>8. ASSUME NEW h \in Hash PROVE Ring(m, hash_head(h), HashRing(h) \ {p})
  <2>1. CASE h = o
    BY <1>1, <1>6, <2>1, RingUnlink
  <2>2. CASE h # o
    <3>1. HashRing(h) \in SUBSET (HashNode \ HashRing(o)) /\ HashRing(h) \ {p} = HashRing(h)
      BY <1>1, <1>6, <2>2, HashRingsApart
    <3>2. Ring(m, hash_head(h), HashRing(h))
      BY <1>1, <1>6, <3>1, RingUnlinkElsewhere
    <3> QED
      BY <3>1, <3>2
  <2> QED
    BY <2>1, <2>2
<1> HIDE DEF m
<1>9. ASSUME NEW h \in Hash PROVE Ring(hash_list', hash_head(h), HashRing(h)')
  <2>0. /\ HashRing(k) \ {p} \in SUBSET HashNode
        /\ p \in HashNode \ (HashRing(k) \ {p})
        /\ Ring(m, hash_head(k), HashRing(k) \ {p}) /\ hash_head(k) \in HashNode
    BY <1>1, <1>6, <1>8
  <2>1. CASE h = k
    <3>1. Ring(InsertTail(m, hash_head(k), p), hash_head(k), (HashRing(k) \ {p}) \cup {p})
      BY <1>5, <2>0, RingInsertTail
    <3> QED
      BY <1>5, <1>7, <2>1, <3>1
  <2>2. CASE h # k
    <3>1. /\ HashRing(h) \ {p} \in SUBSET (HashNode \ (HashRing(k) \ {p}))
          /\ p \notin HashRing(h) \ {p}
      BY <1>1, <1>6, <2>2, HashRingsApart
    <3>2. Ring(m, hash_head(h), HashRing(h) \ {p})
      BY <1>8
    <3>3. Ring(InsertTail(m, hash_head(k), p), hash_head(h), HashRing(h) \ {p})
      BY <1>5, <2>0, <3>1, <3>2, RingInsertTailElsewhere
    <3> QED
      BY <1>5, <1>7, <2>2, <3>3
  <2> QED
    BY <2>1, <2>2
<1>10. \A h \in Hash : Ring(hash_list, hash_head(h), HashRing(h))'
  BY <1>9 DEF Ring, Mutual, Closed
<1>11. BlockOnce'
  BY <1>1, <1>2, <1>3, <1>4 DEF BlockOnce, HashInv, TypeOK
<1> QED
  BY <1>2, <1>10, <1>11 DEF HashInv

LEMMA HashStep == HashInv /\ [Next]_vars => HashInv'
<1> SUFFICES ASSUME HashInv, [Next]_vars PROVE HashInv'
  OBVIOUS
<1>0. TypeOK'
  BY TypeStep DEF HashInv
<1>1. CASE init_buf
  BY <1>0, <1>1, HashInitBuf
<1>2. CASE HashBuffer
  BY <1>0, <1>2, HashHashBuffer
<1>3. CASE FreeBuffer
  <2>1. Hashed' = Hashed /\ pc' # "hashing"
    BY <1>3 DEF FreeBuffer, Count, Hashed
  <2> QED
    BY <1>0, <1>3, <2>1, HashFramed DEF FreeBuffer
<1>4. CASE Getblk
  <2>1. ASSUME NEW p \in Buffer, Replace(p) PROVE HashInv'
    BY <1>0, <2>1, HashReplace
  <2>2. ASSUME NEW p \in Buffer, Busy(p) \/ Hit(p) \/ WriteBack(p) \/ Fault(p) \/ NoneFree
        PROVE  HashInv'
    <3>1. /\ pc = "getblk" /\ pc' \in {"prompt", "getblk", "crash"}
          /\ UNCHANGED <<blkno, hash_list>>
      BY <2>2 DEF Busy, Hit, WriteBack, Fault, NoneFree, Pass
    <3>2. Hashed' = Hashed
      BY <3>1 DEF Hashed
    <3> QED
      BY <1>0, <3>1, <3>2, HashFramed
  <2>3. Buffer # {}
    BY InitBlknoAssumption DEF Buffer
  <2> QED
    BY <1>4, <2>1, <2>2, <2>3 DEF Getblk
<1>5. CASE quit \/ \E n \in Blkno : \/ getblk(n) \/ brelse(n) \/ Refused(n)
                                    \/ \E flag \in UserFlag : set(n, flag) \/ reset(n, flag)
  <2>1. /\ pc = "prompt" /\ pc' \in {"prompt", "getblk", "exit"}
        /\ UNCHANGED <<blkno, hash_list>>
    BY <1>5 DEF quit, getblk, brelse, Refused, set, reset, Release, NotReleased, Command
  <2>2. Hashed' = Hashed
    BY <2>1 DEF Hashed
  <2> QED
    BY <1>0, <2>1, <2>2, HashFramed
<1>6. CASE UNCHANGED vars
  BY <1>6 DEF vars, HashInv, TypeOK, BlockOnce, Hashed, HashRing, Ring, Mutual, Closed
<1> QED
  BY <1>1, <1>2, <1>3, <1>4, <1>5, <1>6 DEF Next, Ended

LEMMA HashListedFollows == HashInv => HashListed
<1> SUFFICES ASSUME HashInv, pc # "start" PROVE HashListed
  BY DEF HashListed
<1>1. TypeOK /\ \A h \in Hash : Ring(hash_list, hash_head(h), HashRing(h))
  BY DEF HashInv
<1>2. ASSUME NEW x \in Hashed \cup HashHead
      PROVE  \E h \in Hash : x \in HashRing(h)
  <2>1. CASE x \in Hashed
    <3>1. hash(blkno[x]) \in Hash
      BY <1>1, <2>1, HashedBuffers, Nodes DEF TypeOK
    <3> QED
      BY <2>1, <3>1 DEF HashRing
  <2>2. CASE x \in HashHead
    BY <2>2 DEF HashRing, HashHead, Hash
  <2> QED
    BY <2>1, <2>2
<1>3. \A h \in Hash : HashRing(h) \subseteq Hashed \cup HashHead
  BY HeadsApart DEF HashRing
<1>4. Mutual(hash_list, Hashed \cup HashHead)
  <2>1. ASSUME NEW h \in Hash, NEW x \in HashRing(h)
        PROVE  /\ hash_list.fp[x] \in HashRing(h) /\ hash_list.bp[hash_list.fp[x]] = x
               /\ hash_list.bp[x] \in HashRing(h) /\ hash_list.fp[hash_list.bp[x]] = x
    BY <1>1 DEF Ring, Mutual
  <2> QED
    BY <1>2, <1>3, <2>1 DEF Mutual
<1>5. ASSUME NEW h \in Hash
      PROVE  Visited(hash_list, hash_head(h)) = {b \in Hashed : hash(blkno[b]) = h}
  <2>1. Visited(hash_list, hash_head(h)) = HashRing(h) \cap Buffer
    BY <1>1, HashRingNodes, RingVisited DEF TypeOK
  <2> QED
    BY <1>1, <2>1, HeadsApart, HashedBuffers DEF HashRing
<1> QED
  BY <1>4, <1>5 DEF HashListed, Hash

\* The variables have their types, whatever the user types.
THEOREM TypesKept == Spec => []TypeOK
BY TypeInit, TypeStep, PTL DEF Spec

LEMMA HashKept == Spec => []HashInv
BY HashInit, HashStep, PTL DEF Spec

\* However blocks are replaced and init repeated, and whatever flags the user
\* sets, every buffer is in the hash list of its block and in no other.
THEOREM HashListsKept == Spec => []HashListed
BY HashKept, HashListedFollows, PTL

\* No block is ever in two buffers (_getblk gives a buffer a block only after
\* search_hash has found none).
THEOREM BlocksOnce == Spec => []BlockOnce
<1>1. HashInv => BlockOnce
  BY DEF HashInv
<1> QED
  BY <1>1, HashKept, PTL

-----------------------------------------------------------------------------
(***************************************************************************)
(* The free list: the ring of the buffers that are not locked.  While      *)
(* init_buf frees buffers, those of the first blocks of init_free.         *)
(***************************************************************************)
Unlocked == {b \in Buffer : ~ Locked(b)}
FreeRing == {freelist} \cup Unlocked

FreeInv ==
    /\ HashInv
    /\ pc = "hashing" => /\ \A b \in Hashed : Locked(b)
                         /\ Ring(free_list, freelist, {freelist})
    /\ pc = "freeing" => /\ \A b \in Buffer : blkno[b] = init_blkno[b]
                         /\ \A b \in Unlocked : \E k \in 1 .. i - 1 : blkno[b] = init_free[k]
    /\ pc \notin {"start", "hashing"} => Ring(free_list, freelist, FreeRing)
    /\ pc # "crash"

LEMMA FreeRingNodes == FreeRing \subseteq FreeNode /\ freelist \in FreeRing /\ freelist \notin Unlocked
BY Nodes DEF FreeRing, Unlocked

LEMMA FreeInit == Init => FreeInv
BY HashInit DEF Init, FreeInv

\* Steps of a cache that is set up and that lock, unlock and link nothing.
LEMMA FreeFramed ==
    ASSUME FreeInv, HashInv', UNCHANGED free_list,
           pc \notin {"start", "hashing", "freeing"},
           pc' \notin {"start", "hashing", "freeing", "crash"},
           \A b \in Buffer : Locked(b)' = Locked(b)
    PROVE  FreeInv'
<1>1. FreeRing' = FreeRing
  BY DEF FreeRing, Unlocked
<1>2. Ring(free_list, freelist, FreeRing)'
  BY <1>1 DEF FreeInv, Ring, Mutual, Closed
<1> QED
  BY <1>2 DEF FreeInv

\* The ring of the next state, written without a prime on its operators.
LEMMA FreeRingNext ==
    ASSUME Ring(free_list', freelist, FreeRing')
    PROVE  Ring(free_list, freelist, FreeRing)'
BY DEF Ring, Mutual, Closed

\* A buffer that is in use is put at either end of the list and unlocked.
LEMMA FreeLinked ==
    ASSUME FreeInv, NEW p \in Buffer, Locked(p),
           pc \notin {"start", "hashing"},
           \/ free_list' = InsertTail(free_list, freelist, p)
           \/ free_list' = InsertHead(free_list, freelist, p),
           \A b \in Buffer : Locked(b)' <=> Locked(b) /\ b # p
    PROVE  Ring(free_list, freelist, FreeRing)'
<1>1. FreeRing' = FreeRing \cup {p}
  BY DEF FreeRing, Unlocked
<1>2. /\ FreeRing \in SUBSET FreeNode /\ freelist \in FreeNode
      /\ p \in FreeNode \ FreeRing
      /\ free_list \in List(FreeNode)
  BY FreeRingNodes, Nodes DEF FreeInv, HashInv, TypeOK, FreeRing, Unlocked
<1>3. Ring(free_list, freelist, FreeRing)
  BY DEF FreeInv
<1>4. Ring(free_list', freelist, FreeRing \cup {p})
  BY <1>2, <1>3, RingInsertTail, RingInsertHead
<1> QED
  BY <1>1, <1>4, FreeRingNext

\* A buffer that is free is taken off the list and locked.
LEMMA FreeTaken ==
    ASSUME FreeInv, NEW p \in Buffer, ~ Locked(p),
           pc \notin {"start", "hashing"},
           free_list' = Unlink(free_list, p),
           \A b \in Buffer : Locked(b)' <=> Locked(b) \/ b = p
    PROVE  Ring(free_list, freelist, FreeRing)'
<1>1. FreeRing' = FreeRing \ {p}
  BY Nodes DEF FreeRing, Unlocked
<1>2. /\ FreeRing \in SUBSET FreeNode /\ freelist \in FreeNode
      /\ p \in FreeRing \ {freelist}
      /\ free_list \in List(FreeNode)
  BY FreeRingNodes, Nodes DEF FreeInv, HashInv, TypeOK, FreeRing, Unlocked
<1>3. Ring(free_list, freelist, FreeRing)
  BY DEF FreeInv
<1>4. Ring(free_list', freelist, FreeRing \ {p})
  BY <1>2, <1>3, RingUnlink
<1> QED
  BY <1>1, <1>4, FreeRingNext

\* What _getblk takes off the free list is on it, and its links are whole.
LEMMA CandidateFree ==
    ASSUME FreeInv, pc = "getblk", NEW p \in Buffer, p \in Candidate
    PROVE  ~ Locked(p) /\ ~ Torn(p)
<1>1. Ring(free_list, freelist, FreeRing)
  BY DEF FreeInv
<1>2. /\ freelist \in FreeRing
      /\ \A x \in FreeRing : free_list.fp[x] \in FreeRing /\ free_list.bp[x] \in FreeRing
  BY <1>1 DEF Ring, Mutual
<1>3. ~ Locked(p)
  <2>1. CASE search_hash(want) # {}
    BY <2>1 DEF Candidate
  <2>2. CASE search_hash(want) = {}
    <3>1. p = free_list.fp[freelist]
      BY <2>2 DEF Candidate, get_oldest_buffer
    <3>2. p \in FreeRing /\ p # freelist
      BY <1>2, <3>1, Nodes
    <3> QED
      BY <3>2 DEF FreeRing, Unlocked
  <2> QED
    BY <2>1, <2>2
<1>4. p \in FreeRing
  BY <1>3 DEF FreeRing, Unlocked
<1>5. NULL \notin FreeRing
  <2>1. freelist \in Int
    BY DEF freelist
  <2>2. FreeRing \subseteq Int
    BY <2>1, Nodes DEF FreeRing, Unlocked
  <2> QED
    BY <2>2, NullAssumption
<1> QED
  BY <1>2, <1>3, <1>4, <1>5 DEF Torn

LEMMA FreeInitBuf == FreeInv /\ HashInv' /\ init_buf => FreeInv'
<1> SUFFICES ASSUME FreeInv, HashInv', init_buf PROVE FreeInv'
  OBVIOUS
<1>1. Hashed' = {} /\ pc' = "hashing"
  BY DEF Hashed, init_buf
<1>2. Ring(free_list', freelist, {freelist})
  BY Nodes, RingEmptied DEF init_buf, FreeInv, HashInv, TypeOK
<1>3. Ring(free_list, freelist, {freelist})'
  BY <1>2 DEF Ring, Mutual, Closed
<1> QED
  BY <1>1, <1>3 DEF FreeInv

LEMMA FreeHashBuffer == FreeInv /\ HashInv' /\ HashBuffer => FreeInv'
<1> SUFFICES ASSUME FreeInv, HashInv', HashBuffer PROVE FreeInv'
  OBVIOUS
<1>1. /\ i \in Buffer /\ TypeOK /\ pc = "hashing" /\ Hashed = 1 .. i - 1
      /\ Ring(free_list, freelist, {freelist}) /\ \A b \in Hashed : Locked(b)
  BY InitBlknoAssumption DEF FreeInv, HashInv, HashBuffer, TypeOK, Buffer, Hashed
<1>2. Hashed' = Hashed \cup {i} /\ pc' \in {"hashing", "freeing"}
  BY <1>1, InitBlknoAssumption DEF HashBuffer, Hashed, Count, Buffer
<1>3. \A b \in Hashed' : Locked(b)'
  BY <1>1, <1>2, HashedBuffers DEF HashBuffer, Locked, TypeOK
<1>4. Ring(free_list, freelist, {freelist})'
  BY <1>1 DEF HashBuffer, Ring, Mutual, Closed
<1>5. CASE pc' = "hashing"
  BY <1>3, <1>4, <1>5 DEF FreeInv
<1>6. CASE pc' = "freeing"
  <2>1. Hashed' = Buffer /\ i' = 1
    BY <1>1, <1>6 DEF Hashed, HashBuffer, Count
  <2>2. FreeRing' = {freelist} /\ Unlocked' = {}
    BY <1>3, <2>1 DEF FreeRing, Unlocked
  <2>3. \A b \in Buffer : blkno'[b] = init_blkno[b]
    <3>1. \A b \in Hashed : blkno[b] = init_blkno[b]
      BY <1>1 DEF FreeInv, HashInv
    <3> QED
      BY <1>1, <1>2, <2>1, <3>1 DEF HashBuffer, TypeOK
  <2>4. Ring(free_list, freelist, FreeRing)'
    BY <1>4, <2>2 DEF Ring, Mutual, Closed
  <2> QED
    BY <1>6, <2>2, <2>3, <2>4 DEF FreeInv
<1> QED
  BY <1>2, <1>5, <1>6

\* init_buf frees a buffer that is in use: init_free names no block twice.
LEMMA FreedLocked ==
    ASSUME FreeInv, FreeBuffer
    PROVE  \E p \in Buffer : /\ Locked(p)
                             /\ blkno[p] = init_free[i]
                             /\ free_list' = InsertTail(free_list, freelist, p)
                             /\ stat' = [stat EXCEPT ![p] = @ \ {"L"}]
<1>1. /\ HashInv /\ TypeOK /\ pc = "freeing" /\ i \in 1 .. Len(init_free)
      /\ init_free[i] \in Nat /\ Hashed = Buffer
  BY InitFreeAssumption DEF FreeInv, HashInv, FreeBuffer, TypeOK, Hashed
<1>2. PICK p \in search_hash(init_free[i]) :
          /\ free_list' = InsertTail(free_list, freelist, p)
          /\ stat' = [stat EXCEPT ![p] = @ \ {"L"}]
  BY DEF FreeBuffer
<1>3. p \in Buffer /\ blkno[p] = init_free[i]
  BY <1>1, <1>2, SearchFinds
<1>4. Locked(p)
  <2>1. SUFFICES ASSUME p \in Unlocked PROVE FALSE
    BY <1>3 DEF Unlocked
  <2>2. PICK k \in 1 .. i - 1 : init_free[i] = init_free[k]
    BY <1>1, <1>3, <2>1 DEF FreeInv
  <2> QED
    BY <1>1, <2>2, InitFreeAssumption
<1> QED
  BY <1>2, <1>3, <1>4

LEMMA FreeFreeBuffer == FreeInv /\ HashInv' /\ FreeBuffer => FreeInv'
<1> SUFFICES ASSUME FreeInv, HashInv', FreeBuffer PROVE FreeInv'
  OBVIOUS
<1>1. TypeOK /\ pc = "freeing" /\ i \in 1 .. Len(init_free)
  BY InitFreeAssumption DEF FreeInv, HashInv, FreeBuffer, TypeOK
<1>2. PICK p \in Buffer : /\ Locked(p)
                          /\ blkno[p] = init_free[i]
                          /\ free_list' = InsertTail(free_list, freelist, p)
                          /\ stat' = [stat EXCEPT ![p] = @ \ {"L"}]
  BY FreedLocked
<1>3. \A b \in Buffer : Locked(b)' <=> Locked(b) /\ b # p
  BY <1>1, <1>2 DEF Locked, TypeOK
<1>4. Ring(free_list, freelist, FreeRing)'
  BY <1>1, <1>2, <1>3, FreeLinked
<1>5. /\ pc' = "freeing" => i' = i + 1
      /\ pc' \in {"freeing", "prompt"} /\ blkno' = blkno
  BY <1>1 DEF FreeBuffer, Count
<1>6. ASSUME pc' = "freeing", NEW b \in Unlocked'
      PROVE  \E k \in 1 .. i' - 1 : blkno'[b] = init_free[k]
  <2>1. b \in Buffer /\ (b \in Unlocked \/ b = p)
    BY <1>3, <1>6 DEF Unlocked
  <2>2. i \in 1 .. i' - 1 /\ 1 .. i - 1 \subseteq 1 .. i' - 1
    BY <1>1, <1>5, <1>6
  <2>3. b \in Unlocked => \E k \in 1 .. i - 1 : blkno[b] = init_free[k]
    BY <1>1 DEF FreeInv
  <2> QED
    BY <1>2, <1>5, <2>1, <2>2, <2>3
<1> QED
  BY <1>1, <1>4, <1>5, <1>6 DEF FreeInv

LEMMA FreeGetblk ==
    ASSUME FreeInv, HashInv', Getblk
    PROVE  FreeInv'
<1>1. TypeOK /\ pc = "getblk"
  BY DEF FreeInv, HashInv, Getblk, Busy, Hit, WriteBack, Replace, Fault, NoneFree, Pass
<1>2. ASSUME NEW p \in Buffer, Busy(p) PROVE FreeInv'
  <2>1. \A b \in Buffer : Locked(b)' = Locked(b)
    BY <1>1, <1>2 DEF Busy, Locked, TypeOK
  <2> QED
    BY <1>1, <1>2, <2>1, FreeFramed DEF Busy, Pass
<1>3. ASSUME NEW p \in Buffer, Hit(p) \/ WriteBack(p) \/ Replace(p) PROVE FreeInv'
  <2>1. p \in Candidate /\ free_list' = Unlink(free_list, p) /\ pc' \in {"prompt", "getblk"}
    BY <1>3 DEF Hit, WriteBack, Replace, remove_from_freelist, Pass
  <2>2. ~ Locked(p)
    BY <1>1, <2>1, CandidateFree
  <2>3. \A b \in Buffer : Locked(b)' <=> Locked(b) \/ b = p
    BY <1>1, <1>3 DEF Hit, WriteBack, Replace, Lock, Locked, TypeOK
  <2>4. Ring(free_list, freelist, FreeRing)'
    BY <1>1, <2>1, <2>2, <2>3, FreeTaken
  <2> QED
    BY <2>1, <2>4 DEF FreeInv
<1>4. ASSUME NEW p \in Buffer, Fault(p) PROVE FALSE
  BY <1>1, <1>4, CandidateFree DEF Fault
<1>5. CASE NoneFree
  BY <1>1, <1>5, FreeFramed DEF NoneFree, Pass, Locked
<1> QED
  BY <1>2, <1>3, <1>4, <1>5 DEF Getblk

LEMMA FreeBrelse ==
    ASSUME FreeInv, HashInv', NEW n \in Blkno, brelse(n)
    PROVE  FreeInv'
<1>1. PICK p \in Buffer : Locked(p) /\ (Release(p) \/ NotReleased(p))
  BY SearchInBuffer DEF brelse
<1>2. TypeOK
  BY DEF FreeInv, HashInv
<1>3. CASE Release(p)
  <2>1. \A b \in Buffer : Locked(b)' <=> Locked(b) /\ b # p
    BY <1>2, <1>3 DEF Release, Locked, TypeOK
  <2>2. Ring(free_list, freelist, FreeRing)'
    BY <1>1, <1>3, <2>1, FreeLinked DEF Release, Command
  <2> QED
    BY <1>3, <2>2 DEF FreeInv, Release, Command
<1>4. CASE NotReleased(p)
  <2>1. \A b \in Buffer : Locked(b)' = Locked(b)
    BY <1>2, <1>4 DEF NotReleased, Locked, TypeOK
  <2> QED
    BY <1>4, <2>1, FreeFramed DEF NotReleased, Command
<1> QED
  BY <1>1, <1>3, <1>4

\* The user may set and reset any flag but L.
LEMMA FreeStep ==
    ASSUME "L" \notin UserFlag
    PROVE  FreeInv /\ [Next]_vars => FreeInv'
<1> SUFFICES ASSUME FreeInv, [Next]_vars PROVE FreeInv'
  OBVIOUS
<1>0. HashInv' /\ TypeOK
  BY HashStep DEF FreeInv, HashInv
<1>1. CASE init_buf
  BY <1>0, <1>1, FreeInitBuf
<1>2. CASE HashBuffer
  BY <1>0, <1>2, FreeHashBuffer
<1>3. CASE FreeBuffer
  BY <1>0, <1>3, FreeFreeBuffer
<1>4. CASE Getblk
  BY <1>0, <1>4, FreeGetblk
<1>5. ASSUME NEW n \in Blkno, brelse(n) PROVE FreeInv'
  BY <1>0, <1>5, FreeBrelse
<1>6. CASE quit \/ \E n \in Blkno : getblk(n) \/ Refused(n)
  BY <1>0, <1>6, FreeFramed DEF quit, getblk, Refused, Command, Locked
<1>7. ASSUME NEW n \in Blkno, NEW flag \in UserFlag, set(n, flag) \/ reset(n, flag)
      PROVE  FreeInv'
  <2>1. PICK p \in Buffer : \/ stat' = [stat EXCEPT ![p] = @ \cup {flag}]
                            \/ stat' = [stat EXCEPT ![p] = @ \ {flag}]
    BY <1>7, SearchInBuffer DEF set, reset, _set_stat, _reset_stat
  <2>2. flag # "L"
    OBVIOUS
  <2>3. \A b \in Buffer : Locked(b)' = Locked(b)
    BY <1>0, <2>1, <2>2 DEF Locked, TypeOK
  <2> QED
    BY <1>0, <1>7, <2>3, FreeFramed DEF set, reset, Command
<1>8. CASE UNCHANGED vars
  BY <1>0, <1>8 DEF vars, FreeInv, FreeRing, Unlocked, Locked, Hashed, Ring, Mutual, Closed
<1> QED
  BY <1>1, <1>2, <1>3, <1>4, <1>5, <1>6, <1>7, <1>8 DEF Next, Ended

LEMMA FreeListedFollows == FreeInv => FreeListed
<1> SUFFICES ASSUME FreeInv, pc \notin {"start", "hashing"} PROVE FreeListed
  BY DEF FreeListed
<1>1. Ring(free_list, freelist, FreeRing) /\ pc # "crash"
  BY DEF FreeInv
<1>2. Visited(free_list, freelist) = FreeRing \cap Buffer
  BY <1>1, FreeRingNodes, RingVisited DEF FreeInv, HashInv, TypeOK
<1>3. FreeRing \cap Buffer = Unlocked
  BY Nodes DEF FreeRing, Unlocked
<1> QED
  BY <1>1, <1>2, <1>3 DEF FreeListed, Ring, FreeRing, Unlocked

\* While the user leaves flag L to getblk and brelse, the free list holds the
\* buffers that are not locked, linked both ways, and no pointer of a buffer
\* that is taken off it is null (remove_from_freelist).
THEOREM FreeListKept ==
    ASSUME "L" \notin UserFlag
    PROVE  Spec => []FreeListed
<1>1. FreeInv /\ [Next]_vars => FreeInv'
  BY FreeStep
<1> QED
  BY <1>1, FreeInit, FreeListedFollows, PTL DEF Spec

-----------------------------------------------------------------------------
(***************************************************************************)
(* Who waits.  Initialised buffers have no waiters.                        *)
(***************************************************************************)
WaitInv ==
    /\ HashInv
    /\ pc \in {"hashing", "freeing"} => \A b \in Hashed : "W" \notin stat[b]
    /\ WaitedIsLocked

LEMMA WaitInit == Init => WaitInv
BY HashInit DEF Init, WaitInv, WaitedIsLocked, Hashed

\* Steps of a cache that is set up: no buffer gets a waiter without a lock.
LEMMA WaitFramed ==
    ASSUME WaitInv, HashInv', pc \notin {"start", "hashing", "freeing"},
           pc' \notin {"start", "hashing", "freeing"},
           \A b \in Buffer : "W" \in stat'[b] => Locked(b)'
    PROVE  WaitInv'
BY DEF WaitInv, WaitedIsLocked, Hashed

\* The user may set and reset any flag but L and W.
LEMMA WaitStep ==
    ASSUME UserFlag \cap {"L", "W"} = {}
    PROVE  WaitInv /\ [Next]_vars => WaitInv'
<1> SUFFICES ASSUME WaitInv, [Next]_vars PROVE WaitInv'
  OBVIOUS
<1>0. HashInv' /\ TypeOK
  BY HashStep DEF WaitInv, HashInv
<1>1. CASE init_buf
  BY <1>0, <1>1 DEF init_buf, WaitInv, WaitedIsLocked, Hashed
<1>2. CASE HashBuffer
  <2>1. i \in Buffer /\ pc = "hashing" /\ Hashed = 1 .. i - 1
    BY <1>0, <1>2 DEF HashBuffer, TypeOK, Buffer, Hashed
  <2>2. Hashed' = Hashed \cup {i}
    BY <1>0, <1>2, <2>1, InitBlknoAssumption DEF HashBuffer, Hashed, Count, Buffer
  <2>3. \A b \in Hashed' : "W" \notin stat'[b]
    BY <1>0, <1>2, <2>1, <2>2, HashedBuffers DEF HashBuffer, WaitInv, TypeOK
  <2> QED
    BY <1>0, <2>3 DEF WaitInv, WaitedIsLocked
<1>3. CASE FreeBuffer
  <2>1. pc = "freeing" /\ pc' \in {"freeing", "prompt"} /\ Hashed = Buffer /\ Hashed' = Buffer
    BY <1>3 DEF FreeBuffer, Count, Hashed
  <2>2. \A b \in Hashed' : "W" \notin stat'[b]
    BY <1>0, <1>3, <2>1, SearchInBuffer DEF FreeBuffer, WaitInv, TypeOK
  <2> QED
    BY <1>0, <2>2 DEF WaitInv, WaitedIsLocked
<1>4. CASE Getblk
  <2>1. pc = "getblk" /\ pc' \in {"prompt", "getblk", "crash"} /\ Hashed = Buffer
    BY <1>4 DEF Getblk, Busy, Hit, WriteBack, Replace, Fault, NoneFree, Pass, Hashed
  <2>2. \A b \in Buffer : "W" \in stat[b] => "L" \in stat[b]
    BY <2>1 DEF WaitInv, WaitedIsLocked, Locked
  <2>3. \A b \in Buffer : "W" \in stat'[b] => "L" \in stat'[b]
    <3>1. ASSUME NEW p \in Buffer, Busy(p)
          PROVE  \A b \in Buffer : "W" \in stat'[b] => "L" \in stat'[b]
      BY <1>0, <2>2, <3>1 DEF Busy, Locked, TypeOK
    <3>2. ASSUME NEW p \in Buffer, Hit(p) \/ WriteBack(p) \/ Replace(p)
          PROVE  \A b \in Buffer : "W" \in stat'[b] => "L" \in stat'[b]
      BY <1>0, <2>2, <3>2 DEF Hit, WriteBack, Replace, Lock, TypeOK
    <3>3. ASSUME NEW p \in Buffer, Fault(p)
          PROVE  \A b \in Buffer : "W" \in stat'[b] => "L" \in stat'[b]
      BY <2>2, <3>3 DEF Fault
    <3>4. CASE NoneFree
      BY <2>2, <3>4 DEF NoneFree
    <3> QED
      BY <1>4, <3>1, <3>2, <3>3, <3>4 DEF Getblk
  <2> QED
    BY <1>0, <2>1, <2>3, WaitFramed DEF Locked
<1>5. CASE quit \/ \E n \in Blkno : \/ getblk(n) \/ brelse(n) \/ Refused(n)
                                    \/ \E flag \in UserFlag : set(n, flag) \/ reset(n, flag)
  <2>1. pc = "prompt" /\ pc' \in {"prompt", "getblk", "exit"} /\ Hashed = Buffer
    BY <1>5 DEF quit, getblk, brelse, Refused, set, reset, Release, NotReleased, Command, Hashed
  <2>2. \A b \in Buffer : "W" \in stat[b] => "L" \in stat[b]
    BY <2>1 DEF WaitInv, WaitedIsLocked, Locked
  <2>3. \A b \in Buffer : "W" \in stat'[b] => "L" \in stat'[b]
    <3>1. ASSUME NEW n \in Blkno, brelse(n)
          PROVE  \A b \in Buffer : "W" \in stat'[b] => "L" \in stat'[b]
      BY <1>0, <2>2, <3>1, SearchInBuffer DEF brelse, Release, NotReleased, TypeOK
    <3>2. ASSUME NEW n \in Blkno, NEW flag \in UserFlag, set(n, flag) \/ reset(n, flag)
          PROVE  \A b \in Buffer : "W" \in stat'[b] => "L" \in stat'[b]
      <4>1. PICK p \in Buffer : \/ stat' = [stat EXCEPT ![p] = @ \cup {flag}]
                                \/ stat' = [stat EXCEPT ![p] = @ \ {flag}]
        BY <3>2, SearchInBuffer DEF set, reset, _set_stat, _reset_stat
      <4>2. flag # "L" /\ flag # "W"
        OBVIOUS
      <4> QED
        BY <1>0, <2>2, <4>1, <4>2 DEF TypeOK
    <3>3. CASE quit \/ \E n \in Blkno : getblk(n) \/ Refused(n)
      BY <2>2, <3>3 DEF quit, getblk, Refused
    <3> QED
      BY <1>5, <3>1, <3>2, <3>3
  <2> QED
    BY <1>0, <2>1, <2>3, WaitFramed DEF Locked
<1>6. CASE UNCHANGED vars
  BY <1>0, <1>6 DEF vars, WaitInv, WaitedIsLocked, Locked, Hashed
<1> QED
  BY <1>1, <1>2, <1>3, <1>4, <1>5, <1>6 DEF Next, Ended

\* While the user leaves flags L and W to getblk and brelse, processes wait
\* only for a buffer that is in use: brelse wakes them with every unlock.
THEOREM WaitersInUse ==
    ASSUME UserFlag \cap {"L", "W"} = {}
    PROVE  Spec => []WaitedIsLocked
<1>1. WaitInv /\ [Next]_vars => WaitInv'
  BY WaitStep
<1>2. WaitInv => WaitedIsLocked
  BY DEF WaitInv
<1> QED
  BY <1>1, <1>2, WaitInit, PTL DEF Spec

-----------------------------------------------------------------------------
(***************************************************************************)
(* The order of a circular list: the sequence in which fp runs through it. *)
(***************************************************************************)
\* A set of natural numbers has a least element.
LEMMA NatSetMin ==
    ASSUME NEW T \in SUBSET Nat, T # {}
    PROVE  \E x \in T : \A y \in T : x <= y
<1> DEFINE R == OpToRel(<, Nat)
<1>1. IsWellFoundedOn(R, Nat)
  BY NatLessThanWellFounded, Zenon
<1>2. \A x, y \in Nat : x < y => <<x, y>> \in R
  BY DEF OpToRel
<1> HIDE DEF R
<1>3. PICK x \in T : \A y \in T : ~ (<<y, x>> \in R)
  BY <1>1, WFMin
<1>4. ASSUME NEW y \in T PROVE x <= y
  <2>1. ~ (y < x)
    BY <1>2, <1>3, Zenon
  <2> QED
    BY <2>1
<1> QED
  BY <1>4

\* The sequence s is the order in which fp of l runs through the buffers of R.
Listed(l, s, R) ==
    /\ s \in Seq(Buffer)
    /\ Follows(l, s)
    /\ \A j, k \in 1 .. Len(s) : s[j] = s[k] => j = k
    /\ \A b \in Buffer : b \in R <=> \E k \in 1 .. Len(s) : s[k] = b

\* The pointers determine the order: two sequences agree wherever both go on.
LEMMA FollowsAgree ==
    ASSUME NEW l, NEW s \in Seq(Buffer), NEW t \in Seq(Buffer), Follows(l, s), Follows(l, t)
    PROVE  \A k \in 1 .. Len(s) : k <= Len(t) => s[k] = t[k]
<1> DEFINE T == {k \in 1 .. Len(s) : k <= Len(t) /\ s[k] # t[k]}
<1> SUFFICES ASSUME T # {} PROVE FALSE
  OBVIOUS
<1>1. T \in SUBSET Nat
  OBVIOUS
<1>2. PICK k \in T : \A j \in T : k <= j
  BY <1>1, NatSetMin
<1>3. k \in 1 .. Len(s) /\ k \in 1 .. Len(t) /\ s[k] # t[k] /\ Len(s) \in Nat /\ Len(t) \in Nat
  OBVIOUS
<1>4. CASE k = 1
  BY <1>3, <1>4 DEF Follows
<1>5. CASE k # 1
  <2>1. k - 1 \in 1 .. Len(s) /\ k - 1 \in 1 .. Len(t) /\ k - 1 # Len(s) /\ k - 1 # Len(t)
        /\ (k - 1) + 1 = k /\ ~ (k <= k - 1)
    BY <1>3, <1>5
  <2>2. s[k - 1] = t[k - 1]
    BY <1>2, <2>1
  <2>3. l.fp[s[k - 1]] = s[k] /\ l.fp[t[k - 1]] = t[k]
    BY <2>1 DEF Follows
  <2> QED
    BY <1>3, <2>2, <2>3
<1> QED
  BY <1>4, <1>5

\* Of two sequences for the same pointers none goes on where the other ends.
LEMMA FollowsLength ==
    ASSUME NEW l, NEW s \in Seq(Buffer), NEW t \in Seq(Buffer), Follows(l, s), Follows(l, t),
           Len(s) < Len(t)
    PROVE  FALSE
<1>1. Len(s) \in Nat /\ Len(t) \in Nat /\ freelist \notin Buffer
  BY Nodes
<1>2. CASE Len(s) = 0
  <2>1. l.fp[freelist] = freelist /\ l.fp[freelist] = t[1] /\ 1 \in 1 .. Len(t)
    BY <1>1, <1>2 DEF Follows
  <2>2. t[1] \in Buffer
    BY <2>1
  <2> QED
    BY <1>1, <2>1, <2>2
<1>3. CASE Len(s) # 0
  <2> DEFINE m == Len(s)
  <2>1. m \in 1 .. Len(s) /\ m \in 1 .. Len(t) /\ m # Len(t) /\ m + 1 \in 1 .. Len(t) /\ m <= Len(t)
    BY <1>1, <1>3
  <2>2. s[m] = t[m]
    BY <2>1, FollowsAgree
  <2>3. l.fp[s[m]] = freelist /\ l.fp[t[m]] = t[m + 1]
    BY <2>1 DEF Follows
  <2>4. t[m + 1] \in Buffer
    BY <2>1
  <2> QED
    BY <1>1, <2>2, <2>3, <2>4
<1> QED
  BY <1>2, <1>3

\* So there is one sequence at most.
LEMMA FollowsUnique ==
    ASSUME NEW l, NEW s \in Seq(Buffer), NEW t \in Seq(Buffer), Follows(l, s), Follows(l, t)
    PROVE  s = t
<1>1. Len(s) \in Nat /\ Len(t) \in Nat
  OBVIOUS
<1>2. ~ (Len(s) < Len(t)) /\ ~ (Len(t) < Len(s))
  BY FollowsLength
<1>3. Len(s) = Len(t)
  BY <1>1, <1>2
<1>4. \A k \in 1 .. Len(s) : s[k] = t[k]
  BY <1>3, FollowsAgree
<1> QED
  BY <1>3, <1>4

\* Distinct buffers are not more than there are.
LEMMA DistinctLength ==
    ASSUME NEW s \in Seq(Buffer), \A j, k \in 1 .. Len(s) : s[j] = s[k] => j = k
    PROVE  Len(s) \in 0 .. Len(init_blkno)
<1>0. Len(s) \in Nat /\ Len(init_blkno) \in Nat
  BY InitBlknoAssumption
<1>1. ASSUME NEW n \in Nat PROVE IsFiniteSet(1 .. n) /\ Cardinality(1 .. n) = n
  BY FS_Interval
<1>2. IsFiniteSet(Buffer) /\ Cardinality(Buffer) = Len(init_blkno)
  BY <1>0, <1>1 DEF Buffer
<1>3. s \in [1 .. Len(s) -> Buffer]
  OBVIOUS
<1>4. ~ (Len(init_blkno) < Len(s))
  <2> SUFFICES ASSUME Len(init_blkno) < Len(s) PROVE FALSE
    OBVIOUS
  <2>1. IsFiniteSet(1 .. Len(s)) /\ Cardinality(Buffer) < Cardinality(1 .. Len(s))
    BY <1>0, <1>1, <1>2
  <2>2. \E x, y \in 1 .. Len(s) : x # y /\ s[x] = s[y]
    BY <1>2, <1>3, <2>1, FS_PigeonHole
  <2> QED
    BY <2>2
<1> QED
  BY <1>0, <1>4

\* The choice in OrderOf has one outcome.
LEMMA OrderIs ==
    ASSUME NEW l, NEW s, NEW R, Listed(l, s, R)
    PROVE  OrderOf(l) = s
<1> DEFINE W == UNION {[1 .. n -> Buffer] : n \in 0 .. Len(init_blkno)}
<1>1. s \in Seq(Buffer) /\ Follows(l, s)
  BY DEF Listed
<1>2. Len(s) \in 0 .. Len(init_blkno)
  BY DistinctLength DEF Listed
<1>3. s \in [1 .. Len(s) -> Buffer]
  BY <1>1
<1>4. s \in W
  BY <1>2, <1>3
<1>5. OrderOf(l) \in W /\ Follows(l, OrderOf(l))
  BY <1>1, <1>4 DEF OrderOf
<1>6. W \subseteq Seq(Buffer)
  <2>1. Len(init_blkno) \in Nat
    BY InitBlknoAssumption
  <2>2. ASSUME NEW n \in 0 .. Len(init_blkno), NEW w \in [1 .. n -> Buffer] PROVE w \in Seq(Buffer)
    <3>1. n \in Nat
      BY <2>1
    <3> QED
      BY <3>1
  <2> QED
    BY <2>2
<1>7. OrderOf(l) \in Seq(Buffer)
  BY <1>5, <1>6
<1> QED
  BY <1>1, <1>5, <1>7, FollowsUnique

LEMMA ListedIn ==
    ASSUME NEW l, NEW s, NEW R \in SUBSET Buffer, Listed(l, s, R)
    PROVE  /\ Len(s) \in Nat
           /\ \A k \in 1 .. Len(s) : s[k] \in R
BY DEF Listed

\* brelse and init_buf put a buffer behind the last.
LEMMA ListedInsertTail ==
    ASSUME NEW l \in List(FreeNode), NEW s, NEW R \in SUBSET Buffer, Listed(l, s, R),
           Ring(l, freelist, {freelist} \cup R), NEW n \in Buffer \ R
    PROVE  Listed(InsertTail(l, freelist, n), Append(s, n), R \cup {n})
<1> DEFINE m == InsertTail(l, freelist, n)
           t == l.bp[freelist]
           a == Append(s, n)
<1>1. /\ s \in Seq(Buffer) /\ Len(s) \in Nat
      /\ \A k \in 1 .. Len(s) : s[k] \in R
      /\ freelist \notin Buffer /\ freelist \in FreeNode /\ Buffer \subseteq FreeNode
  BY ListedIn, Nodes DEF Listed
<1>2. t \in {freelist} \cup R /\ \A x \in {freelist} \cup R : l.bp[l.fp[x]] = x
  BY DEF Ring, Mutual
<1>3. Len(s) = 0 => t = freelist
  BY <1>2 DEF Listed, Follows
<1>4. Len(s) # 0 => t = s[Len(s)]
  <2> SUFFICES ASSUME Len(s) # 0 PROVE t = s[Len(s)]
    OBVIOUS
  <2>1. Len(s) \in 1 .. Len(s)
    BY <1>1
  <2>2. l.fp[s[Len(s)]] = freelist
    BY <2>1 DEF Listed, Follows
  <2> QED
    BY <1>1, <1>2, <2>1, <2>2
<1>5. \A x \in FreeNode : m.fp[x] = IF x = n THEN freelist ELSE IF x = t THEN n ELSE l.fp[x]
  BY <1>1, <1>2, InsertTailAt
<1>6. /\ a \in Seq(Buffer) /\ Len(a) = Len(s) + 1
      /\ \A k \in 1 .. Len(s) : a[k] = s[k]
      /\ a[Len(s) + 1] = n
  BY <1>1
<1> HIDE DEF m, a, t
<1>7. m.fp[freelist] = a[1]
  <2>1. CASE Len(s) = 0
    BY <1>1, <1>3, <1>5, <1>6, <2>1
  <2>2. CASE Len(s) # 0
    <3>1. Len(s) \in 1 .. Len(s) /\ 1 \in 1 .. Len(s)
      BY <1>1, <2>2
    <3>2. t # freelist
      BY <1>1, <1>4, <2>2, <3>1
    <3>3. l.fp[freelist] = s[1]
      BY <2>2 DEF Listed, Follows
    <3> QED
      BY <1>1, <1>5, <1>6, <3>1, <3>2, <3>3
  <2> QED
    BY <2>1, <2>2
<1>8. ASSUME NEW k \in 1 .. Len(a)
      PROVE  m.fp[a[k]] = IF k = Len(a) THEN freelist ELSE a[k + 1]
  <2>1. CASE k = Len(a)
    BY <1>1, <1>5, <1>6, <2>1
  <2>2. CASE k # Len(a)
    <3>1. k \in 1 .. Len(s) /\ a[k] = s[k] /\ s[k] \in R
      BY <1>1, <1>6, <2>2
    <3>2. CASE k = Len(s)
      <4>1. s[k] = t /\ a[k + 1] = n /\ s[k] \in FreeNode /\ s[k] # n
        BY <1>1, <1>4, <1>6, <3>1, <3>2
      <4> QED
        BY <1>5, <2>2, <3>1, <4>1
    <3>3. CASE k # Len(s)
      <4>1. k + 1 \in 1 .. Len(s) /\ Len(s) \in 1 .. Len(s) /\ Len(s) # 0
        BY <1>1, <3>1, <3>3
      <4>2. s[k] # s[Len(s)]
        BY <3>1, <3>3, <4>1 DEF Listed
      <4>3. l.fp[s[k]] = s[k + 1]
        BY <3>1, <3>3 DEF Listed, Follows
      <4>4. s[k] # t /\ s[k] # n /\ s[k] \in FreeNode
        BY <1>1, <1>4, <3>1, <4>1, <4>2
      <4>5. m.fp[s[k]] = s[k + 1]
        BY <1>5, <4>3, <4>4
      <4> QED
        BY <1>6, <2>2, <3>1, <4>1, <4>5
    <3> QED
      BY <3>2, <3>3
  <2> QED
    BY <2>1, <2>2
<1>9. Follows(m, a)
  <2>1. Len(a) # 0
    BY <1>1, <1>6
  <2> QED
    BY <1>7, <1>8, <2>1 DEF Follows
<1>10. ASSUME NEW j \in 1 .. Len(a), NEW k \in 1 .. Len(a), a[j] = a[k] PROVE j = k
  <2>1. (j \in 1 .. Len(s) \/ j = Len(s) + 1) /\ (k \in 1 .. Len(s) \/ k = Len(s) + 1)
    BY <1>1, <1>6
  <2> QED
    BY <1>1, <1>6, <1>10, <2>1 DEF Listed
<1>11. ASSUME NEW b \in Buffer
       PROVE  b \in R \cup {n} <=> \E k \in 1 .. Len(a) : a[k] = b
  <2>1. b \in R <=> \E k \in 1 .. Len(s) : s[k] = b
    BY DEF Listed
  <2>2. 1 .. Len(a) = 1 .. Len(s) \cup {Len(s) + 1}
    BY <1>1, <1>6
  <2> QED
    BY <1>6, <2>1, <2>2
<1> QED
  BY <1>6, <1>9, <1>10, <1>11 DEF Listed, m, a

\* brelse puts a buffer marked old in front of the first.
LEMMA ListedInsertHead ==
    ASSUME NEW l \in List(FreeNode), NEW s, NEW R \in SUBSET Buffer, Listed(l, s, R),
           Ring(l, freelist, {freelist} \cup R), NEW n \in Buffer \ R
    PROVE  Listed(InsertHead(l, freelist, n), <<n>> \o s, R \cup {n})
<1> DEFINE m == InsertHead(l, freelist, n)
           f == l.fp[freelist]
           a == <<n>> \o s
<1>1. /\ s \in Seq(Buffer) /\ Len(s) \in Nat
      /\ \A k \in 1 .. Len(s) : s[k] \in R
      /\ freelist \notin Buffer /\ freelist \in FreeNode /\ Buffer \subseteq FreeNode
  BY ListedIn, Nodes DEF Listed
<1>2. f \in {freelist} \cup R /\ f = IF Len(s) = 0 THEN freelist ELSE s[1]
  BY DEF Ring, Mutual, Listed, Follows
<1>3. \A x \in FreeNode : m.fp[x] = IF x = n THEN f ELSE IF x = freelist THEN n ELSE l.fp[x]
  BY <1>1, <1>2, InsertHeadAt
<1>4. /\ a \in Seq(Buffer) /\ Len(a) = Len(s) + 1
      /\ \A k \in 1 .. Len(s) : a[k + 1] = s[k]
      /\ a[1] = n
  BY <1>1
<1> HIDE DEF m, a, f
<1>5. ASSUME NEW k \in 1 .. Len(a), k # 1
      PROVE  k - 1 \in 1 .. Len(s) /\ a[k] = s[k - 1] /\ (k - 1) + 1 = k
  <2>1. k - 1 \in 1 .. Len(s) /\ (k - 1) + 1 = k
    BY <1>1, <1>4, <1>5
  <2> QED
    BY <1>4, <2>1
<1>6. ASSUME NEW k \in 1 .. Len(a)
      PROVE  m.fp[a[k]] = IF k = Len(a) THEN freelist ELSE a[k + 1]
  <2>1. CASE k = 1
    <3>1. m.fp[a[k]] = f
      BY <1>1, <1>3, <1>4, <2>1
    <3>2. Len(s) # 0 => 1 \in 1 .. Len(s) /\ a[1 + 1] = s[1]
      BY <1>1, <1>4
    <3>3. k = Len(a) <=> Len(s) = 0
      BY <1>1, <1>4, <2>1
    <3> QED
      BY <1>2, <2>1, <3>1, <3>2, <3>3
  <2>2. CASE k # 1
    <3>1. k - 1 \in 1 .. Len(s) /\ a[k] = s[k - 1] /\ (k - 1) + 1 = k
      BY <1>5, <2>2
    <3>2. l.fp[s[k - 1]] = IF k - 1 = Len(s) THEN freelist ELSE s[k]
      BY <3>1 DEF Listed, Follows
    <3>3. m.fp[s[k - 1]] = l.fp[s[k - 1]]
      BY <1>1, <1>3, <3>1
    <3>4. k - 1 = Len(s) <=> k = Len(a)
      BY <1>1, <1>4, <3>1
    <3>5. k # Len(a) => k \in 1 .. Len(s)
      BY <1>1, <1>4, <2>2
    <3>6. k # Len(a) => a[k + 1] = s[k]
      BY <1>4, <3>5
    <3> QED
      BY <3>1, <3>2, <3>3, <3>4, <3>6
  <2> QED
    BY <2>1, <2>2
<1>7. Follows(m, a)
  <2>1. Len(a) # 0
    BY <1>1, <1>4
  <2>2. m.fp[freelist] = a[1]
    BY <1>1, <1>3, <1>4
  <2> QED
    BY <1>6, <2>1, <2>2 DEF Follows
<1>8. ASSUME NEW j \in 1 .. Len(a), NEW k \in 1 .. Len(a), a[j] = a[k] PROVE j = k
  <2>0. \A x \in 1 .. Len(a) : x # 1 => a[x] \in R
    BY <1>1, <1>5
  <2>1. CASE j = 1 \/ k = 1
    BY <1>4, <1>8, <2>0, <2>1
  <2>2. CASE j # 1 /\ k # 1
    <3>1. j - 1 \in 1 .. Len(s) /\ k - 1 \in 1 .. Len(s) /\ s[j - 1] = s[k - 1]
      BY <1>5, <1>8, <2>2
    <3>2. j - 1 = k - 1
      BY <3>1 DEF Listed
    <3> QED
      BY <3>1, <3>2
  <2> QED
    BY <2>1, <2>2
<1>9. ASSUME NEW b \in Buffer
      PROVE  b \in R \cup {n} <=> \E k \in 1 .. Len(a) : a[k] = b
  <2>1. b \in R <=> \E k \in 1 .. Len(s) : s[k] = b
    BY DEF Listed
  <2>2. 1 \in 1 .. Len(a) /\ \A k \in 1 .. Len(s) : k + 1 \in 1 .. Len(a)
    BY <1>1, <1>4
  <2>3. ASSUME NEW k \in 1 .. Len(a), a[k] = b PROVE b \in R \cup {n}
    BY <1>1, <1>4, <1>5, <2>3
  <2>4. ASSUME b \in R \cup {n} PROVE \E k \in 1 .. Len(a) : a[k] = b
    BY <1>4, <2>1, <2>2, <2>4
  <2> QED
    BY <2>3, <2>4
<1> QED
  BY <1>4, <1>7, <1>8, <1>9 DEF Listed, m, a

\* The sequence s without its element k.
Without(s, k) == SubSeq(s, 1, k - 1) \o SubSeq(s, k + 1, Len(s))

LEMMA WithoutAt ==
    ASSUME NEW s \in Seq(Buffer), NEW k \in 1 .. Len(s)
    PROVE  /\ Without(s, k) \in Seq(Buffer)
           /\ Len(Without(s, k)) = Len(s) - 1
           /\ \A j \in 1 .. Len(s) - 1 : Without(s, k)[j] = IF j < k THEN s[j] ELSE s[j + 1]
<1> DEFINE u == SubSeq(s, 1, k - 1)
           v == SubSeq(s, k + 1, Len(s))
<1>1. Len(s) \in Nat /\ k \in Nat /\ k >= 1 /\ k <= Len(s)
  OBVIOUS
<1>2. /\ u \in Seq(Buffer) /\ Len(u) = k - 1
      /\ \A j \in 1 .. k - 1 : u[j] = s[j]
  BY <1>1
<1>3. /\ v \in Seq(Buffer) /\ Len(v) = Len(s) - k
      /\ \A j \in 1 .. Len(s) - k : v[j] = s[k + j]
  BY <1>1
<1> HIDE DEF u, v
<1>4. /\ u \o v \in Seq(Buffer) /\ Len(u \o v) = Len(s) - 1
      /\ \A j \in 1 .. Len(s) - 1 : (u \o v)[j] = IF j < k THEN u[j] ELSE v[j - (k - 1)]
  <2>1. /\ u \o v \in Seq(Buffer) /\ Len(u \o v) = Len(u) + Len(v)
        /\ \A j \in 1 .. Len(u) + Len(v) :
              (u \o v)[j] = IF j <= Len(u) THEN u[j] ELSE v[j - Len(u)]
    BY <1>2, <1>3, ConcatProperties
  <2>2. Len(u) = k - 1 /\ Len(u) + Len(v) = Len(s) - 1
    BY <1>1, <1>2, <1>3
  <2>3. \A j \in 1 .. Len(s) - 1 : j <= k - 1 <=> j < k
    BY <1>1
  <2> QED
    BY <2>1, <2>2, <2>3
<1>5. ASSUME NEW j \in 1 .. Len(s) - 1
      PROVE  (u \o v)[j] = IF j < k THEN s[j] ELSE s[j + 1]
  <2>1. CASE j < k
    <3>1. j \in 1 .. k - 1
      BY <1>1, <2>1
    <3> QED
      BY <1>2, <1>4, <2>1, <3>1
  <2>2. CASE ~ (j < k)
    <3>1. j - (k - 1) \in 1 .. Len(s) - k /\ k + (j - (k - 1)) = j + 1
      BY <1>1, <2>2
    <3> QED
      BY <1>3, <1>4, <2>2, <3>1
  <2> QED
    BY <2>1, <2>2
<1> QED
  BY <1>4, <1>5 DEF Without, u, v

LEMMA TailIsWithout ==
    ASSUME NEW s \in Seq(Buffer), s # <<>>
    PROVE  Tail(s) = Without(s, 1) /\ Head(s) = s[1] /\ 1 \in 1 .. Len(s)
<1>1. Len(s) \in Nat /\ Len(s) # 0 /\ 1 \in 1 .. Len(s)
  OBVIOUS
<1>2. /\ Tail(s) \in Seq(Buffer) /\ Len(Tail(s)) = Len(s) - 1
      /\ \A j \in 1 .. Len(s) - 1 : Tail(s)[j] = s[j + 1]
  BY <1>1, HeadTailProperties
<1>3. \A j \in 1 .. Len(s) - 1 : ~ (j < 1)
  BY <1>1
<1>4. \A j \in 1 .. Len(s) - 1 : Tail(s)[j] = Without(s, 1)[j]
  BY <1>1, <1>2, <1>3, WithoutAt
<1>5. Without(s, 1) \in Seq(Buffer) /\ Len(Without(s, 1)) = Len(s) - 1
  BY <1>1, WithoutAt
<1> QED
  BY <1>1, <1>2, <1>4, <1>5

\* getblk takes a buffer out, wherever it is in the list.
LEMMA ListedUnlink ==
    ASSUME NEW l \in List(FreeNode), NEW s, NEW R \in SUBSET Buffer, Listed(l, s, R),
           Ring(l, freelist, {freelist} \cup R), NEW k \in 1 .. Len(s)
    PROVE  Listed(Unlink(l, s[k]), Without(s, k), R \ {s[k]})
<1> DEFINE p == s[k]
           m == Unlink(l, p)
           f == l.fp[p]
           b == l.bp[p]
           a == Without(s, k)
<1>1. /\ s \in Seq(Buffer) /\ Len(s) \in Nat /\ k \in Nat /\ k >= 1 /\ k <= Len(s)
      /\ \A j \in 1 .. Len(s) : s[j] \in R
      /\ freelist \notin Buffer /\ freelist \in FreeNode /\ Buffer \subseteq FreeNode
  BY ListedIn, Nodes DEF Listed
<1>2. p \in ({freelist} \cup R) \ {freelist} /\ p \in FreeNode
  BY <1>1
<1>3. f \in ({freelist} \cup R) \ {p} /\ b \in ({freelist} \cup R) \ {p}
  BY <1>2, RingNeighbours
<1>4. \A x \in FreeNode : m.fp[x] = IF x = p THEN NULL ELSE IF x = b THEN f ELSE l.fp[x]
  BY <1>1, <1>2, <1>3, UnlinkAt
<1>5. f = IF k = Len(s) THEN freelist ELSE s[k + 1]
  BY DEF Listed, Follows
<1>6. \A x \in {freelist} \cup R : l.bp[l.fp[x]] = x
  BY DEF Ring, Mutual
<1>7. b = IF k = 1 THEN freelist ELSE s[k - 1]
  <2>1. CASE k = 1
    <3>1. l.fp[freelist] = s[1]
      BY <1>1, <2>1 DEF Listed, Follows
    <3> QED
      BY <1>6, <2>1, <3>1
  <2>2. CASE k # 1
    <3>1. k - 1 \in 1 .. Len(s) /\ k - 1 # Len(s) /\ (k - 1) + 1 = k
      BY <1>1, <2>2
    <3>2. l.fp[s[k - 1]] = s[k] /\ s[k - 1] \in R
      BY <1>1, <3>1 DEF Listed, Follows
    <3> QED
      BY <1>6, <2>2, <3>2
  <2> QED
    BY <2>1, <2>2
<1>8. /\ a \in Seq(Buffer) /\ Len(a) = Len(s) - 1
      /\ \A j \in 1 .. Len(s) - 1 : a[j] = IF j < k THEN s[j] ELSE s[j + 1]
  BY <1>1, WithoutAt
<1>9. \A i1, i2 \in 1 .. Len(s) : s[i1] = s[i2] => i1 = i2
  BY DEF Listed
<1>10. /\ l.fp[freelist] = s[1]
       /\ \A j \in 1 .. Len(s) : l.fp[s[j]] = IF j = Len(s) THEN freelist ELSE s[j + 1]
  BY <1>1 DEF Listed, Follows
<1>11. p = s[k]
  OBVIOUS
<1> HIDE DEF p, m, f, b, a
<1>12. m.fp[freelist] = IF Len(a) = 0 THEN freelist ELSE a[1]
  <2>1. CASE k = 1
    <3>1. m.fp[freelist] = f
      BY <1>1, <1>2, <1>4, <1>7, <2>1
    <3>2. Len(a) = 0 <=> k = Len(s)
      BY <1>1, <1>8, <2>1
    <3>3. Len(a) # 0 => 1 \in 1 .. Len(s) - 1
      BY <1>1, <1>8
    <3>4. Len(a) # 0 => a[1] = s[1 + 1]
      BY <1>8, <2>1, <3>3
    <3> QED
      BY <1>5, <2>1, <3>1, <3>2, <3>4
  <2>2. CASE k # 1
    <3>1. k - 1 \in 1 .. Len(s) /\ 1 \in 1 .. Len(s) - 1 /\ 1 < k /\ Len(a) # 0
      BY <1>1, <1>8, <2>2
    <3>2. b # freelist
      BY <1>1, <1>7, <2>2, <3>1
    <3>3. m.fp[freelist] = s[1]
      BY <1>1, <1>2, <1>4, <1>10, <3>2
    <3> QED
      BY <1>8, <3>1, <3>3
  <2> QED
    BY <2>1, <2>2
<1>13. ASSUME NEW j \in 1 .. Len(a)
       PROVE  m.fp[a[j]] = IF j = Len(a) THEN freelist ELSE a[j + 1]
  <2>0. j \in 1 .. Len(s) - 1 /\ j \in Nat /\ j >= 1
    BY <1>1, <1>8
  <2>1. CASE j < k
    <3>1. a[j] = s[j] /\ j \in 1 .. Len(s) /\ j # k /\ j # Len(s)
      BY <1>1, <1>8, <2>0, <2>1
    <3>2. s[j] # p /\ s[j] \in R /\ s[j] \in FreeNode
      BY <1>1, <1>9, <1>11, <3>1
    <3>3. CASE j = k - 1
      <4>1. s[j] = b
        BY <1>1, <1>7, <2>0, <3>3
      <4>2. m.fp[s[j]] = f
        BY <1>4, <3>2, <4>1
      <4>3. j = Len(a) <=> k = Len(s)
        BY <1>1, <1>8, <3>3
      <4>4. j # Len(a) => j + 1 \in 1 .. Len(s) - 1 /\ ~ (j + 1 < k) /\ (j + 1) + 1 = k + 1
        BY <1>1, <1>8, <2>0, <3>3
      <4>5. j # Len(a) => a[j + 1] = s[k + 1]
        <5> SUFFICES ASSUME j # Len(a) PROVE a[j + 1] = s[k + 1]
          OBVIOUS
        <5>1. a[j + 1] = s[(j + 1) + 1]
          BY <1>8, <4>4
        <5> QED
          BY <4>4, <5>1
      <4> QED
        BY <1>5, <3>1, <4>2, <4>3, <4>5
    <3>4. CASE j # k - 1
      <4>1. j + 1 \in 1 .. Len(s) - 1 /\ j + 1 < k /\ j # Len(a)
        BY <1>1, <1>8, <2>0, <2>1, <3>4
      <4>2. a[j + 1] = s[j + 1]
        BY <1>8, <4>1
      <4>3. s[j] # b
        <5>1. k - 1 \in 1 .. Len(s) /\ k # 1
          BY <1>1, <2>0, <2>1
        <5> QED
          BY <1>7, <1>9, <3>1, <3>4, <5>1
      <4>4. m.fp[s[j]] = s[j + 1]
        BY <1>4, <1>10, <3>1, <3>2, <4>3
      <4> QED
        BY <3>1, <4>1, <4>2, <4>4
    <3> QED
      BY <3>3, <3>4
  <2>2. CASE ~ (j < k)
    <3>1. /\ a[j] = s[j + 1] /\ j + 1 \in 1 .. Len(s) /\ j + 1 # k
          /\ j = Len(a) <=> j + 1 = Len(s)
      BY <1>1, <1>8, <2>0, <2>2
    <3>2. s[j + 1] # p /\ s[j + 1] \in R /\ s[j + 1] \in FreeNode
      BY <1>1, <1>9, <1>11, <3>1
    <3>3. s[j + 1] # b
      <4>1. k # 1 => k - 1 \in 1 .. Len(s) /\ k - 1 # j + 1
        BY <1>1, <2>0, <2>2
      <4> QED
        BY <1>1, <1>7, <1>9, <3>1, <3>2, <4>1
    <3>4. m.fp[s[j + 1]] = IF j + 1 = Len(s) THEN freelist ELSE s[(j + 1) + 1]
      BY <1>4, <1>10, <3>1, <3>2, <3>3
    <3>5. j # Len(a) => j + 1 \in 1 .. Len(s) - 1 /\ ~ (j + 1 < k)
      BY <1>1, <1>8, <2>0, <2>2
    <3>6. j # Len(a) => a[j + 1] = s[(j + 1) + 1]
      BY <1>8, <3>5
    <3> QED
      BY <3>1, <3>4, <3>6
  <2> QED
    BY <2>1, <2>2
<1>14. Follows(m, a)
  BY <1>12, <1>13 DEF Follows
<1>15. \A j \in 1 .. Len(a) : LET n == IF j < k THEN j ELSE j + 1
                              IN  n \in 1 .. Len(s) /\ n # k /\ a[j] = s[n]
  <2>1. \A j \in 1 .. Len(a) : j \in 1 .. Len(s) - 1
    BY <1>8
  <2>2. \A j \in 1 .. Len(s) - 1 : LET n == IF j < k THEN j ELSE j + 1
                                   IN  n \in 1 .. Len(s) /\ n # k
    BY <1>1
  <2> QED
    BY <1>8, <2>1, <2>2
<1>16. ASSUME NEW j \in 1 .. Len(a), NEW n \in 1 .. Len(a), a[j] = a[n] PROVE j = n
  <2>1. (IF j < k THEN j ELSE j + 1) = (IF n < k THEN n ELSE n + 1)
    BY <1>9, <1>15, <1>16
  <2> QED
    BY <1>1, <1>8, <2>1
<1>17. ASSUME NEW x \in Buffer
       PROVE  x \in R \ {p} <=> \E j \in 1 .. Len(a) : a[j] = x
  <2>1. x \in R <=> \E j \in 1 .. Len(s) : s[j] = x
    BY DEF Listed
  <2>2. ASSUME NEW j \in 1 .. Len(a), a[j] = x PROVE x \in R \ {p}
    BY <1>1, <1>9, <1>11, <1>15, <2>2
  <2>3. ASSUME x \in R, x # p PROVE \E j \in 1 .. Len(a) : a[j] = x
    <3>1. PICK n \in 1 .. Len(s) : s[n] = x
      BY <2>1, <2>3
    <3>2. n # k /\ n \in Nat /\ n >= 1
      BY <1>11, <2>3, <3>1
    <3>3. CASE n < k
      <4>1. n \in 1 .. Len(a) /\ n \in 1 .. Len(s) - 1
        BY <1>1, <1>8, <3>3
      <4> QED
        BY <1>8, <3>1, <3>3, <4>1
    <3>4. CASE ~ (n < k)
      <4>1. n - 1 \in 1 .. Len(a) /\ n - 1 \in 1 .. Len(s) - 1 /\ ~ (n - 1 < k) /\ (n - 1) + 1 = n
        BY <1>1, <1>8, <3>2, <3>4
      <4>2. a[n - 1] = s[n]
        BY <1>8, <4>1
      <4> QED
        BY <3>1, <4>1, <4>2
    <3> QED
      BY <3>3, <3>4
  <2> QED
    BY <2>2, <2>3
<1> QED
  BY <1>8, <1>14, <1>16, <1>17 DEF Listed, m, a, p

-----------------------------------------------------------------------------
(***************************************************************************)
(* The order of the free list.                                             *)
(***************************************************************************)
OrderInv ==
    /\ FreeInv
    /\ pc \in {"hashing", "freeing"} => \A b \in Hashed : "D" \notin stat[b]
    /\ pc \notin {"start", "hashing"} => \E s : Listed(free_list, s, Unlocked)

\* The order in the next state, written without a prime on its operators.
LEMMA ListedNext ==
    ASSUME NEW s, Listed(free_list', s, Unlocked')
    PROVE  Listed(free_list, s, Unlocked)'
BY DEF Listed, Follows

LEMMA OrderNow ==
    ASSUME NEW s, Listed(free_list, s, Unlocked)
    PROVE  Order = s
BY OrderIs DEF Order

LEMMA OrderNext ==
    ASSUME NEW s, NEW R, Listed(free_list', s, R)
    PROVE  Order' = s
<1>1. OrderOf(free_list') = s
  BY OrderIs
<1> QED
  BY <1>1 DEF Order, OrderOf, Follows

LEMMA OrderInit == Init => OrderInv
BY FreeInit DEF Init, OrderInv

\* Steps of a cache that is set up and that lock, unlock and link nothing.
LEMMA OrderFramed ==
    ASSUME OrderInv, FreeInv', UNCHANGED free_list,
           pc \notin {"start", "hashing", "freeing"},
           pc' \notin {"start", "hashing", "freeing"},
           \A b \in Buffer : Locked(b)' = Locked(b)
    PROVE  OrderInv'
<1>1. PICK s : Listed(free_list, s, Unlocked)
  BY DEF OrderInv
<1>2. Unlocked' = Unlocked
  BY DEF Unlocked
<1>3. Listed(free_list, s, Unlocked)'
  BY <1>1, <1>2, ListedNext
<1> QED
  BY <1>3 DEF OrderInv

\* The list when p is linked or unlinked: what FreeLinked and FreeTaken say of
\* the set, for the order.
LEMMA OrderLinked ==
    ASSUME FreeInv, NEW p \in Buffer, Locked(p), pc \notin {"start", "hashing"},
           NEW s, Listed(free_list, s, Unlocked),
           \A b \in Buffer : Locked(b)' <=> Locked(b) /\ b # p
    PROVE  /\ free_list' = InsertTail(free_list, freelist, p)
                  => Listed(free_list', Append(s, p), Unlocked')
           /\ free_list' = InsertHead(free_list, freelist, p)
                  => Listed(free_list', <<p>> \o s, Unlocked')
<1>1. Unlocked' = Unlocked \cup {p}
  BY DEF Unlocked
<1>2. /\ Unlocked \in SUBSET Buffer /\ p \in Buffer \ Unlocked
      /\ free_list \in List(FreeNode)
  BY DEF FreeInv, HashInv, TypeOK, Unlocked
<1>3. Ring(free_list, freelist, {freelist} \cup Unlocked)
  BY DEF FreeInv, FreeRing
<1>4. Listed(InsertTail(free_list, freelist, p), Append(s, p), Unlocked \cup {p})
  BY <1>2, <1>3, ListedInsertTail
<1>5. Listed(InsertHead(free_list, freelist, p), <<p>> \o s, Unlocked \cup {p})
  BY <1>2, <1>3, ListedInsertHead
<1> QED
  BY <1>1, <1>4, <1>5

LEMMA OrderTaken ==
    ASSUME FreeInv, NEW p \in Buffer, ~ Locked(p), pc \notin {"start", "hashing"},
           NEW s, Listed(free_list, s, Unlocked),
           free_list' = Unlink(free_list, p),
           \A b \in Buffer : Locked(b)' <=> Locked(b) \/ b = p
    PROVE  \E k \in 1 .. Len(s) : s[k] = p /\ Listed(free_list', Without(s, k), Unlocked')
<1>1. Unlocked' = Unlocked \ {p}
  BY DEF Unlocked
<1>2. /\ Unlocked \in SUBSET Buffer /\ p \in Unlocked
      /\ free_list \in List(FreeNode)
  BY DEF FreeInv, HashInv, TypeOK, Unlocked
<1>3. Ring(free_list, freelist, {freelist} \cup Unlocked)
  BY DEF FreeInv, FreeRing
<1>4. PICK k \in 1 .. Len(s) : s[k] = p
  BY <1>2 DEF Listed
<1>5. Listed(Unlink(free_list, s[k]), Without(s, k), Unlocked \ {s[k]})
  BY <1>2, <1>3, ListedUnlink
<1> QED
  BY <1>1, <1>4, <1>5

\* Of an empty list.
LEMMA OrderOfNone ==
    ASSUME NEW l, Ring(l, freelist, {freelist})
    PROVE  Listed(l, <<>>, {})
<1>1. l.fp[freelist] = freelist
  BY DEF Ring, Mutual
<1> QED
  BY <1>1 DEF Listed, Follows

LEMMA OrderHashBuffer == OrderInv /\ FreeInv' /\ HashBuffer => OrderInv'
<1> SUFFICES ASSUME OrderInv, FreeInv', HashBuffer PROVE OrderInv'
  OBVIOUS
<1>1. /\ i \in Buffer /\ TypeOK /\ pc = "hashing" /\ Hashed = 1 .. i - 1
      /\ Ring(free_list, freelist, {freelist}) /\ \A b \in Hashed : Locked(b)
  BY InitBlknoAssumption DEF OrderInv, FreeInv, HashInv, HashBuffer, TypeOK, Buffer, Hashed
<1>2. Hashed' = Hashed \cup {i} /\ pc' \in {"hashing", "freeing"}
  BY <1>1, InitBlknoAssumption DEF HashBuffer, Hashed, Count, Buffer
<1>3. /\ \A b \in Hashed' : "D" \notin stat'[b]
      /\ \A b \in Hashed' : Locked(b)'
  BY <1>1, <1>2, HashedBuffers DEF HashBuffer, Locked, OrderInv, TypeOK
<1>4. CASE pc' = "hashing"
  BY <1>3, <1>4 DEF OrderInv
<1>5. CASE pc' = "freeing"
  <2>1. Hashed' = Buffer
    BY <1>5 DEF Hashed
  <2>2. Unlocked' = {} /\ free_list' = free_list
    BY <1>3, <2>1 DEF Unlocked, HashBuffer
  <2>3. Listed(free_list, <<>>, Unlocked)'
    BY <1>1, <2>2, OrderOfNone, ListedNext
  <2> QED
    BY <1>3, <2>3 DEF OrderInv
<1> QED
  BY <1>2, <1>4, <1>5

LEMMA OrderFreeBuffer == OrderInv /\ FreeInv' /\ FreeBuffer => OrderInv'
<1> SUFFICES ASSUME OrderInv, FreeInv', FreeBuffer PROVE OrderInv'
  OBVIOUS
<1>1. PICK p \in Buffer : /\ Locked(p)
                          /\ free_list' = InsertTail(free_list, freelist, p)
                          /\ stat' = [stat EXCEPT ![p] = @ \ {"L"}]
  BY FreedLocked DEF OrderInv
<1>2. FreeInv /\ TypeOK /\ pc = "freeing" /\ pc' \in {"freeing", "prompt"}
  BY DEF FreeBuffer, OrderInv, FreeInv, HashInv, Count
<1>3. \A b \in Buffer : Locked(b)' <=> Locked(b) /\ b # p
  BY <1>1, <1>2 DEF Locked, TypeOK
<1>4. PICK s : Listed(free_list, s, Unlocked)
  BY <1>2 DEF OrderInv
<1>5. Listed(free_list, Append(s, p), Unlocked)'
  BY <1>1, <1>2, <1>3, <1>4, OrderLinked, ListedNext
<1>6. \A b \in Hashed' : "D" \notin stat'[b]
  BY <1>1, <1>2, HashedBuffers DEF OrderInv, TypeOK, Hashed
<1> QED
  BY <1>2, <1>5, <1>6 DEF OrderInv

-----------------------------------------------------------------------------
(***************************************************************************)
(* The refinement, step by step.                                           *)
(***************************************************************************)
CacheStep == [Cache!Next]_(Cache!vars)

LEMMA EmptyUnready == ~ Ready => Cache!Empty
BY DEF Cache!Empty, Held, Queue, Delayed

\* A cache that is not set up yet, or no longer.
LEMMA ClearStep == ~ Ready' => CacheStep
<1>1. ~ Ready' => (Cache!Empty)'
  BY EmptyUnready, PTL
<1> QED
  BY <1>1 DEF CacheStep, Cache!Next, Cache!Clear

\* Steps that change neither the blocks, nor the free list, nor flag D.
LEMMA QuietStep ==
    ASSUME Ready, Ready', UNCHANGED <<blkno, free_list>>,
           \A b \in Buffer : "D" \in stat'[b] <=> "D" \in stat[b]
    PROVE  CacheStep
<1>1. Held' = Held /\ Delayed' = Delayed
  BY DEF Held, Delayed
<1>2. Queue' = Queue
  BY DEF Queue, Order
<1> QED
  BY <1>1, <1>2 DEF CacheStep, Cache!vars

LEMMA MarkStep ==
    ASSUME Ready, Ready', UNCHANGED <<blkno, free_list>>
    PROVE  CacheStep
<1>1. Held' = Held /\ Delayed' \in SUBSET Buffer
  BY DEF Held, Delayed
<1>2. Queue' = Queue
  BY DEF Queue, Order
<1> QED
  BY <1>1, <1>2 DEF CacheStep, Cache!Next, Cache!Mark

LEMMA FillStep ==
    ASSUME OrderInv, OrderInv', FreeBuffer, Ready'
    PROVE  CacheStep
<1>1. ~ Ready /\ pc = "freeing" /\ pc' = "prompt" /\ blkno' = blkno
  BY DEF FreeBuffer, Ready, Count
<1>2. TypeOK /\ BlockOnce /\ Hashed = Buffer
  BY <1>1 DEF OrderInv, FreeInv, HashInv, Hashed
<1>3. /\ Held' \in [Buffer -> Nat]
      /\ \A b, c \in Buffer : Held'[b] = Held'[c] => b = c
  BY <1>1, <1>2 DEF Held, BlockOnce, TypeOK
<1>4. PICK p \in Buffer : stat' = [stat EXCEPT ![p] = @ \ {"L"}]
  BY FreedLocked DEF OrderInv
<1>5. Delayed' = {}
  BY <1>1, <1>2, <1>4 DEF Delayed, OrderInv, TypeOK
<1>6. PICK s : Listed(free_list', s, Unlocked')
  <2>1. (\E s : Listed(free_list, s, Unlocked))'
    BY <1>1 DEF OrderInv
  <2> QED
    BY <2>1 DEF Listed, Follows
<1>7. Queue' = s
  BY <1>6, OrderNext DEF Queue
<1>8. /\ \A j, k \in 1 .. Len(Queue') : Queue'[j] = Queue'[k] => j = k
      /\ \A k \in 1 .. Len(Queue') : Queue'[k] \in Buffer
  BY <1>6, <1>7 DEF Listed
<1> QED
  BY <1>1, <1>3, <1>5, <1>8, EmptyUnready DEF CacheStep, Cache!Next, Cache!Fill

\* The buffers nobody uses are those that are not locked.
LEMMA QueueNow ==
    ASSUME OrderInv, Ready
    PROVE  \E s : /\ s \in Seq(Buffer) /\ Listed(free_list, s, Unlocked) /\ Queue = s
                  /\ \A b \in Buffer : b \in Cache!Free <=> ~ Locked(b)
<1>1. PICK s : Listed(free_list, s, Unlocked)
  BY DEF OrderInv, Ready
<1>2. Queue = s
  BY <1>1, OrderNow DEF Queue
<1>3. \A b \in Buffer : b \in Cache!Free <=> ~ Locked(b)
  BY <1>1, <1>2 DEF Cache!Free, Listed, Unlocked
<1> QED
  BY <1>1, <1>2, <1>3 DEF Listed

\* Hit, WriteBack and Replace take p off the free list and lock it.
LEMMA TakenStep ==
    ASSUME OrderInv, FreeInv', pc = "getblk", NEW p \in Buffer, remove_from_freelist(p),
           pc' \in {"prompt", "getblk"},
           \A b \in Buffer : Locked(b)' <=> Locked(b) \/ b = p
    PROVE  /\ OrderInv'
           /\ \E k \in 1 .. Len(Queue) : Queue[k] = p /\ Queue' = Without(Queue, k)
           /\ search_hash(want) = {} => Queue # <<>> /\ Head(Queue) = p /\ Queue' = Tail(Queue)
           /\ Queue \in Seq(Buffer)
<1>0. Ready /\ Ready' /\ FreeInv
  BY DEF Ready, OrderInv
<1>1. PICK s : s \in Seq(Buffer) /\ Listed(free_list, s, Unlocked) /\ Queue = s
  BY <1>0, QueueNow
<1>2. p \in Candidate /\ ~ Locked(p) /\ free_list' = Unlink(free_list, p)
  BY <1>0, CandidateFree DEF remove_from_freelist
<1>3. PICK k \in 1 .. Len(s) : s[k] = p /\ Listed(free_list', Without(s, k), Unlocked')
  BY <1>0, <1>1, <1>2, OrderTaken
<1>4. Queue' = Without(s, k)
  BY <1>0, <1>3, OrderNext DEF Queue
<1>5. OrderInv'
  BY <1>3, ListedNext DEF OrderInv
<1>6. ASSUME search_hash(want) = {}
      PROVE  Queue # <<>> /\ Head(Queue) = p /\ Queue' = Tail(Queue)
  <2>1. p = free_list.fp[freelist]
    BY <1>2, <1>6 DEF Candidate, get_oldest_buffer
  <2>2. s # <<>> /\ Len(s) # 0 /\ 1 \in 1 .. Len(s)
    BY <1>1, <1>3
  <2>3. s[1] = p
    BY <1>1, <2>1, <2>2 DEF Listed, Follows
  <2>4. k = 1
    BY <1>1, <1>3, <2>2, <2>3 DEF Listed
  <2>5. Tail(s) = Without(s, 1) /\ Head(s) = s[1]
    BY <1>1, <2>2, TailIsWithout
  <2> QED
    BY <1>1, <1>4, <2>2, <2>3, <2>4, <2>5
<1> QED
  BY <1>1, <1>3, <1>4, <1>5, <1>6

LEMMA GetblkStep ==
    ASSUME OrderInv, FreeInv', Getblk
    PROVE  OrderInv' /\ CacheStep
<1>1. /\ TypeOK /\ HashInv /\ pc = "getblk" /\ Ready /\ Hashed = Buffer /\ want \in Nat
  BY DEF OrderInv, FreeInv, HashInv, TypeOK, Ready, Hashed,
         Getblk, Busy, Hit, WriteBack, Replace, Fault, NoneFree, Pass
<1>2. ASSUME NEW p \in Buffer, Busy(p) PROVE OrderInv' /\ CacheStep
  <2>1. \A b \in Buffer : Locked(b)' = Locked(b) /\ ("D" \in stat'[b] <=> "D" \in stat[b])
    BY <1>1, <1>2 DEF Busy, Locked, TypeOK
  <2>2. pc' = "prompt" /\ UNCHANGED <<blkno, free_list>> /\ Ready'
    BY <1>2 DEF Busy, Pass, Ready
  <2> QED
    BY <1>1, <2>1, <2>2, OrderFramed, QuietStep
<1>3. ASSUME NEW p \in Buffer, Hit(p) \/ WriteBack(p) \/ Replace(p)
      PROVE  OrderInv' /\ CacheStep
  <2>1. remove_from_freelist(p) /\ pc' \in {"prompt", "getblk"}
    BY <1>3 DEF Hit, WriteBack, Replace, Pass
  <2>2. \A b \in Buffer : /\ Locked(b)' <=> Locked(b) \/ b = p
                          /\ "D" \in stat'[b] <=> "D" \in stat[b]
    BY <1>1, <1>3 DEF Hit, WriteBack, Replace, Lock, Locked, TypeOK
  <2>3. /\ OrderInv'
        /\ \E k \in 1 .. Len(Queue) : Queue[k] = p /\ Queue' = Without(Queue, k)
        /\ search_hash(want) = {} => Queue # <<>> /\ Head(Queue) = p /\ Queue' = Tail(Queue)
    BY <1>1, <2>1, <2>2, TakenStep
  <2>4. Ready' /\ Delayed' = Delayed /\ \A b \in Buffer : b \in Delayed <=> "D" \in stat[b]
    BY <1>1, <2>1, <2>2 DEF Ready, Delayed
  <2>5. Held = blkno /\ Held' = blkno'
    <3>1. blkno' \in [Buffer -> Nat]
      BY DEF FreeInv, HashInv, TypeOK
    <3> QED
      BY <1>1, <2>4, <3>1 DEF Held, TypeOK
  <2>6. CASE Hit(p)
    <3>1. Held' = Held
      BY <2>5, <2>6 DEF Hit
    <3>2. p \in Cache!Free
      BY <2>3 DEF Cache!Free
    <3>3. Cache!Hit(p)
      BY <2>3, <2>4, <3>1, <3>2 DEF Cache!Hit, Without
    <3> QED
      BY <2>3, <3>3 DEF CacheStep, Cache!Next
  <2>7. CASE WriteBack(p)
    <3>1. Held' = Held /\ search_hash(want) = {} /\ p \in Delayed
      BY <2>4, <2>5, <2>7 DEF WriteBack
    <3>2. Cache!WriteBack
      BY <2>3, <2>4, <3>1 DEF Cache!WriteBack
    <3> QED
      BY <2>3, <3>2 DEF CacheStep, Cache!Next
  <2>8. CASE Replace(p)
    <3>1. search_hash(want) = {} /\ p \notin Delayed /\ Held' = [Held EXCEPT ![p] = want]
      BY <2>4, <2>5, <2>8 DEF Replace
    <3>2. Held'[p] = want /\ Held' = [Held EXCEPT ![p] = Held'[p]]
      BY <1>1, <2>5, <3>1 DEF TypeOK
    <3>3. want \notin Cache!Cached
      BY <1>1, <2>5, <3>1, SearchFinds DEF Cache!Cached
    <3>4. Cache!Replace
      BY <1>1, <2>3, <2>4, <3>1, <3>2, <3>3 DEF Cache!Replace
    <3> QED
      BY <2>3, <3>4 DEF CacheStep, Cache!Next
  <2> QED
    BY <1>3, <2>6, <2>7, <2>8
<1>4. ASSUME NEW p \in Buffer, Fault(p) PROVE FALSE
  BY <1>1, <1>4, CandidateFree DEF Fault, OrderInv
<1>5. CASE NoneFree
  <2>1. pc' = "prompt" /\ UNCHANGED <<blkno, free_list, stat>> /\ Ready'
    BY <1>5 DEF NoneFree, Pass, Ready
  <2> QED
    BY <1>1, <2>1, OrderFramed, QuietStep DEF Locked
<1> QED
  BY <1>2, <1>3, <1>4, <1>5 DEF Getblk

LEMMA BrelseStep ==
    ASSUME OrderInv, FreeInv', NEW n \in Blkno, brelse(n)
    PROVE  OrderInv' /\ CacheStep
<1>1. PICK p \in Buffer : Locked(p) /\ (Release(p) \/ NotReleased(p))
  BY SearchInBuffer DEF brelse
<1>2. /\ TypeOK /\ FreeInv /\ pc = "prompt" /\ pc' = "prompt" /\ Ready /\ Ready'
      /\ UNCHANGED blkno
  BY <1>1 DEF OrderInv, FreeInv, HashInv, Release, NotReleased, Command, Ready
<1>3. \A b \in Buffer : "D" \in stat'[b] <=> "D" \in stat[b]
  BY <1>1, <1>2 DEF Release, NotReleased, TypeOK
<1>4. CASE Release(p)
  <2>1. \A b \in Buffer : Locked(b)' <=> Locked(b) /\ b # p
    BY <1>2, <1>4 DEF Release, Locked, TypeOK
  <2>2. PICK s : /\ s \in Seq(Buffer) /\ Listed(free_list, s, Unlocked) /\ Queue = s
                 /\ \A b \in Buffer : b \in Cache!Free <=> ~ Locked(b)
    BY <1>2, QueueNow
  <2>3. \E t \in {Append(s, p), <<p>> \o s} : Listed(free_list', t, Unlocked')
    BY <1>1, <1>2, <1>4, <2>1, <2>2, OrderLinked DEF Release
  <2>4. PICK t \in {Append(s, p), <<p>> \o s} : Listed(free_list', t, Unlocked')
    BY <2>3
  <2>5. Queue' = t
    BY <1>2, <2>4, OrderNext DEF Queue
  <2>6. OrderInv'
    BY <1>2, <2>4, ListedNext DEF OrderInv
  <2>7. Held' = Held /\ Delayed' = Delayed
    BY <1>2, <1>3 DEF Held, Delayed
  <2>8. Cache!Release(p)
    BY <1>1, <2>2, <2>4, <2>5, <2>7 DEF Cache!Release
  <2> QED
    BY <2>6, <2>8 DEF CacheStep, Cache!Next
<1>5. CASE NotReleased(p)
  <2>1. UNCHANGED free_list
    BY <1>5 DEF NotReleased
  <2>2. \A b \in Buffer : Locked(b)' = Locked(b)
    BY <1>2, <1>5 DEF NotReleased, Locked, TypeOK
  <2> QED
    BY <1>2, <1>3, <2>1, <2>2, OrderFramed, QuietStep
<1> QED
  BY <1>1, <1>4, <1>5

LEMMA OrderStep ==
    ASSUME "L" \notin UserFlag
    PROVE  OrderInv /\ [Next]_vars => OrderInv' /\ CacheStep
<1> SUFFICES ASSUME OrderInv, [Next]_vars PROVE OrderInv' /\ CacheStep
  OBVIOUS
<1>0. FreeInv' /\ TypeOK
  BY FreeStep DEF OrderInv, FreeInv, HashInv
<1>1. CASE init_buf
  <2>1. Hashed' = {} /\ pc' = "hashing" /\ ~ Ready'
    BY <1>1 DEF Hashed, init_buf, Ready
  <2> QED
    BY <1>0, <2>1, ClearStep DEF OrderInv
<1>2. CASE HashBuffer
  <2>1. ~ Ready'
    BY <1>2 DEF HashBuffer, Count, Ready
  <2> QED
    BY <1>0, <1>2, <2>1, OrderHashBuffer, ClearStep
<1>3. CASE FreeBuffer
  BY <1>0, <1>3, OrderFreeBuffer, ClearStep, FillStep
<1>4. CASE Getblk
  BY <1>0, <1>4, GetblkStep
<1>5. ASSUME NEW n \in Blkno, brelse(n) PROVE OrderInv' /\ CacheStep
  BY <1>0, <1>5, BrelseStep
<1>6. CASE quit \/ \E n \in Blkno : getblk(n) \/ Refused(n)
  <2>1. /\ pc = "prompt" /\ pc' \in {"prompt", "getblk", "exit"} /\ Ready /\ Ready'
        /\ UNCHANGED <<blkno, free_list, stat>>
    BY <1>6 DEF quit, getblk, Refused, Command, Ready
  <2> QED
    BY <1>0, <2>1, OrderFramed, QuietStep DEF Locked
<1>7. ASSUME NEW n \in Blkno, NEW flag \in UserFlag, set(n, flag) \/ reset(n, flag)
      PROVE  OrderInv' /\ CacheStep
  <2>1. PICK p \in Buffer : \/ stat' = [stat EXCEPT ![p] = @ \cup {flag}]
                            \/ stat' = [stat EXCEPT ![p] = @ \ {flag}]
    BY <1>7, SearchInBuffer DEF set, reset, _set_stat, _reset_stat
  <2>2. flag # "L"
    OBVIOUS
  <2>3. \A b \in Buffer : Locked(b)' = Locked(b)
    BY <1>0, <2>1, <2>2 DEF Locked, TypeOK
  <2>4. /\ pc = "prompt" /\ pc' = "prompt" /\ Ready /\ Ready'
        /\ UNCHANGED <<blkno, free_list>>
    BY <1>7 DEF set, reset, Command, Ready
  <2> QED
    BY <1>0, <2>3, <2>4, OrderFramed, MarkStep
<1>8. CASE UNCHANGED vars
  <2>1. OrderInv'
    BY <1>0, <1>8 DEF vars, OrderInv, Unlocked, Locked, Hashed, Listed, Follows
  <2>2. Held' = Held /\ Queue' = Queue /\ Delayed' = Delayed
    BY <1>8 DEF vars, Held, Queue, Delayed, Order, Ready
  <2> QED
    BY <2>1, <2>2 DEF CacheStep, Cache!vars
<1> QED
  BY <1>1, <1>2, <1>3, <1>4, <1>5, <1>6, <1>7, <1>8 DEF Next, Ended

\* While the user leaves flag L to getblk and brelse, the pointers implement
\* BlockCache: _getblk takes the buffer of its block out of the queue, or else the
\* one at its head, to be written if it is marked, for the new block if it is not
\* (get_oldest_buffer), and _brelse puts a buffer at either end.
THEOREM CacheImplemented ==
    ASSUME "L" \notin UserFlag
    PROVE  Spec => ImplementsCache
<1>1. Init => Cache!Init
  BY EmptyUnready DEF Init, Ready, Cache!Init
<1>2. OrderInv /\ [Next]_vars => OrderInv' /\ [Cache!Next]_(Cache!vars)
  BY OrderStep DEF CacheStep
<1> QED
  BY <1>1, <1>2, OrderInit, PTL DEF Spec, ImplementsCache, Cache!Spec
(***************************************************************************)
(* What is safety in GetblkReturns: an iteration of the loop of _getblk    *)
(* that does not return takes a buffer off the free list, which nobody     *)
(* puts back meanwhile, so there are no more of them than free buffers.    *)
(***************************************************************************)
IterationShortens ==
    (pc = "getblk" /\ pc' = "getblk") => /\ want' = want
                                         /\ Queue # <<>>
                                         /\ Len(Queue') = Len(Queue) - 1

LEMMA IterationStep ==
    ASSUME "L" \notin UserFlag, OrderInv, Next, pc = "getblk", pc' = "getblk"
    PROVE  IterationShortens
<1>1. OrderInv' /\ FreeInv' /\ Ready /\ TypeOK
  BY OrderStep DEF OrderInv, FreeInv, HashInv, Ready
<1>2. PICK p \in Buffer : WriteBack(p)
  <2>1. Getblk
    BY DEF Next, init_buf, HashBuffer, FreeBuffer, getblk, brelse, Release, NotReleased,
           Refused, set, reset, quit, Ended, Command
  <2> QED
    BY <2>1 DEF Getblk, Busy, Hit, Replace, Fault, NoneFree, Pass
<1>3. \A b \in Buffer : Locked(b)' <=> Locked(b) \/ b = p
  BY <1>1, <1>2 DEF WriteBack, Lock, Locked, TypeOK
<1>4. Queue # <<>> /\ Queue' = Tail(Queue) /\ Queue \in Seq(Buffer)
  BY <1>1, <1>2, <1>3, TakenStep DEF WriteBack
<1>5. want' = want
  BY <1>2 DEF WriteBack, Pass
<1> QED
  BY <1>4, <1>5 DEF IterationShortens

\* Whatever is marked for delayed write: _getblk goes around for the same block,
\* and with every buffer it sends to be written the free list gets shorter, down
\* to the empty list for which it returns.
THEOREM GetblkShortens ==
    ASSUME "L" \notin UserFlag
    PROVE  Spec => [][IterationShortens]_vars
<1>1. OrderInv /\ [Next]_vars => OrderInv' /\ [IterationShortens]_vars
  BY OrderStep, IterationStep DEF IterationShortens
<1> QED
  BY <1>1, OrderInit, PTL DEF Spec
=============================================================================
