--------------------------- MODULE CheckpointProofs ---------------------------
(***************************************************************************)
(* Proofs about mini-transactions, the flush list and checkpoints, for any *)
(* set of threads, any finite set of pages and any bounds.                 *)
(***************************************************************************)
EXTENDS Checkpoint, SequenceTheorems, FiniteSetTheorems, TLAPS

(* A permutation of a finite set is a sequence of its elements, once each. *)
LEMMA PermutationSeq ==
    ASSUME NEW S, IsFiniteSet(S), NEW s \in SetToSeqs(S)
    PROVE  /\ s \in Seq(S)
           /\ IsInjective(s)
           /\ ToSet(s) = S
<1> DEFINE n == Cardinality(S)
<1>1. n \in Nat
  BY FS_CardinalityType
<1>2. s \in [1 .. n -> S] /\ \A i, j \in 1 .. n : i # j => s[i] # s[j]
  BY DEF SetToSeqs
<1> HIDE DEF n
<1>3. s \in Seq(S) /\ DOMAIN s = 1 .. n
  BY <1>1, <1>2
<1>4. s \in Injection(1 .. n, S)
  BY <1>2 DEF Injection, IsInjective
<1>5. IsFiniteSet(1 .. n) /\ Cardinality(1 .. n) = n
  BY <1>1, FS_Interval
<1>6. s \in Surjection(1 .. n, S)
  BY <1>4, <1>5, FS_Injection DEF n
<1>7. \A x \in S : \E i \in 1 .. n : s[i] = x
  BY <1>6 DEF Surjection
<1> QED BY <1>2, <1>3, <1>7 DEF IsInjective, ToSet

(* The elements of a sequence with another one inserted behind its first n *)
(* elements.                                                               *)
LEMMA InsertSeq ==
    ASSUME NEW S, NEW s \in Seq(S), NEW x \in Seq(S), NEW n \in 0 .. Len(s)
    PROVE  LET r == SubSeq(s, 1, n) \o x \o SubSeq(s, n + 1, Len(s))
           IN  /\ r \in Seq(S)
               /\ Len(r) = Len(s) + Len(x)
               /\ \A i \in 1 .. Len(r) :
                    r[i] = IF i <= n THEN s[i]
                           ELSE IF i <= n + Len(x) THEN x[i - n]
                           ELSE s[i - Len(x)]
<1> DEFINE a == SubSeq(s, 1, n)
           b == SubSeq(s, n + 1, Len(s))
<1>1. Len(s) \in Nat /\ Len(x) \in Nat /\ n \in Nat
  BY LenProperties
<1>2. a \in Seq(S) /\ Len(a) = n /\ \A i \in 1 .. n : a[i] = s[i]
  <2>1. \A i \in 1 .. n : s[i] \in S
    BY <1>1, LenProperties
  <2> QED BY <1>1, <2>1, SubSeqProperties
<1>3. /\ b \in Seq(S) /\ Len(b) = Len(s) - n
      /\ \A i \in 1 .. Len(s) - n : b[i] = s[n + i]
  <2>1. \A i \in n + 1 .. Len(s) : s[i] \in S
    BY <1>1, LenProperties
  <2> QED BY <1>1, <2>1, SubSeqProperties
<1> HIDE DEF a, b
<1>4. /\ a \o x \in Seq(S) /\ Len(a \o x) = n + Len(x)
      /\ \A i \in 1 .. n + Len(x) : (a \o x)[i] = IF i <= n THEN a[i] ELSE x[i - n]
  BY <1>2, ConcatProperties
<1> DEFINE c == a \o x
<1>5. /\ c \in Seq(S) /\ Len(c) = n + Len(x)
      /\ \A i \in 1 .. n + Len(x) : c[i] = IF i <= n THEN s[i] ELSE x[i - n]
  BY <1>1, <1>2, <1>4
<1> HIDE DEF c
<1>6. /\ c \o b \in Seq(S)
      /\ Len(c \o b) = Len(c) + Len(b)
      /\ \A i \in 1 .. Len(c) + Len(b) :
           (c \o b)[i] = IF i <= Len(c) THEN c[i] ELSE b[i - Len(c)]
  BY <1>3, <1>5, ConcatProperties
<1> DEFINE r == c \o b
<1> HIDE DEF r
<1>7. /\ r \in Seq(S)
      /\ Len(r) = Len(s) + Len(x)
      /\ \A i \in 1 .. Len(s) + Len(x) :
           r[i] = IF i <= n THEN s[i]
                  ELSE IF i <= n + Len(x) THEN x[i - n]
                  ELSE s[i - Len(x)]
  <2>1. /\ r \in Seq(S) /\ Len(r) = Len(s) + Len(x)
        /\ \A i \in 1 .. Len(s) + Len(x) :
              r[i] = IF i <= n + Len(x) THEN c[i] ELSE b[i - (n + Len(x))]
    BY <1>1, <1>3, <1>5, <1>6 DEF r
  <2>2. ASSUME NEW i \in 1 .. Len(s) + Len(x), i > n + Len(x)
        PROVE  b[i - (n + Len(x))] = s[i - Len(x)]
    <3>1. /\ i - (n + Len(x)) \in 1 .. Len(s) - n
          /\ n + (i - (n + Len(x))) = i - Len(x)
      BY <1>1, <2>2
    <3> QED BY <1>3, <3>1
  <2>3. ASSUME NEW i \in 1 .. Len(s) + Len(x)
        PROVE  r[i] = IF i <= n THEN s[i]
                      ELSE IF i <= n + Len(x) THEN x[i - n]
                      ELSE s[i - Len(x)]
    <3>1. CASE i <= n + Len(x)
      <4>1. i \in 1 .. n + Len(x) /\ r[i] = c[i]
        BY <1>1, <2>1, <3>1
      <4> QED BY <1>1, <1>5, <4>1
    <3>2. CASE i > n + Len(x)
      BY <1>1, <2>1, <2>2, <3>2
    <3> QED BY <1>1, <3>1, <3>2
  <2> QED BY <2>1, <2>3
<1> QED BY <1>7 DEF a, b, c, r

(* The elements of a sequence with one of them removed. *)
LEMMA RemoveSeq ==
    ASSUME NEW S, NEW s \in Seq(S), NEW k \in 1 .. Len(s)
    PROVE  LET r == RemoveAt(s, k)
           IN  /\ r \in Seq(S)
               /\ Len(r) = Len(s) - 1
               /\ \A i \in 1 .. Len(r) :
                    r[i] = IF i < k THEN s[i] ELSE s[i + 1]
<1> DEFINE a == SubSeq(s, 1, k - 1)
           b == SubSeq(s, k + 1, Len(s))
<1>1. Len(s) \in Nat /\ k \in Nat \ {0}
  BY LenProperties
<1>2. a \in Seq(S) /\ Len(a) = k - 1 /\ \A i \in 1 .. k - 1 : a[i] = s[i]
  <2>1. \A i \in 1 .. k - 1 : s[i] \in S
    BY <1>1, LenProperties
  <2> QED BY <1>1, <2>1, SubSeqProperties
<1>3. /\ b \in Seq(S) /\ Len(b) = Len(s) - k
      /\ \A i \in 1 .. Len(s) - k : b[i] = s[k + i]
  <2>1. \A i \in k + 1 .. Len(s) : s[i] \in S
    BY <1>1, LenProperties
  <2> QED BY <1>1, <2>1, SubSeqProperties
<1> HIDE DEF a, b
<1>4. /\ a \o b \in Seq(S)
      /\ Len(a \o b) = Len(s) - 1
      /\ \A i \in 1 .. Len(s) - 1 :
           (a \o b)[i] = IF i <= k - 1 THEN a[i] ELSE b[i - (k - 1)]
  BY <1>1, <1>2, <1>3, ConcatProperties
<1>5. \A i \in 1 .. Len(s) - 1 :
        (a \o b)[i] = IF i < k THEN s[i] ELSE s[i + 1]
  BY <1>1, <1>2, <1>3, <1>4
<1> QED BY <1>4, <1>5 DEF a, b, RemoveAt

-----------------------------------------------------------------------------
(* The inductive invariant *)

(* A mini-transaction that has an LSN and has not released its pages, and  *)
(* one that has yet to stamp its LSN on them.                              *)
HasLsn(t) == pc[t] \in {"appended", "inserted", "unlatched"}
Unstamped(t) == pc[t] = "appended" \/ (pc[t] = "unlatched" /\ ~made_dirty[t])

(* Who holds log_sys.latch and the page latches. *)
Latches ==
    /\ \A t \in Mtr : t \in latch <=> pc[t] \in {"appended", "inserted"}
    /\ \A t \in Mtr, p \in Page : page_lock[p] = t <=> p \in pages[t]
    /\ \A t \in Mtr : pc[t] = "idle" => pages[t] = {}
    /\ \A p \in Page : page_lock[p] \in {Io, Writing} => om[p] # 0

(* m_made_dirty is still right when commit_log() acts on it, although it   *)
(* was determined when the pages were latched.                             *)
MadeDirty ==
    \A t \in Mtr :
        /\ pc[t] \in {"modified", "appended"} =>
              (made_dirty[t] <=> \E p \in pages[t] : om[p] = 0)
        /\ pc[t] = "inserted" => made_dirty[t]
        /\ pc[t] \in {"inserted", "unlatched"} =>
              \A p \in pages[t] : om[p] # 0

(* LSNs of records lie below log_sys.lsn. *)
Records ==
    /\ \A t \in Mtr : HasLsn(t) => FIRST_LSN <= start[t] /\ start[t] < lsn
    /\ \A m \in Lsns : logged[m] # {} => m < lsn

(* The LSNs of a page are ordered, and a new stamp is never smaller.       *)
PageLsns ==
    \A p \in Page :
        /\ file[p] <= page_lsn[p]
        /\ page_lsn[p] <= lsn
        /\ om[p] < lsn
        /\ \A t \in Mtr : HasLsn(t) /\ p \in pages[t] =>
                              page_lsn[p] <= start[t] + 1

(* A page carries the LSN of every record about it, or the mini-           *)
(* transaction that wrote the record still holds the page.                 *)
StampedPages ==
    \A m \in Lsns : \A p \in logged[m] :
        \/ page_lsn[p] > m
        \/ \E t \in Mtr : Unstamped(t) /\ start[t] = m /\ p \in pages[t]

(* Every record about a page is in its file, or is held back by the        *)
(* oldest modification of the page, or will be as soon as its              *)
(* mini-transaction adds the page to the flush list.                       *)
Accounted ==
    \A m \in Lsns : \A p \in logged[m] :
        \/ file[p] > m
        \/ om[p] # 0 /\ om[p] <= m
        \/ \E t \in Mtr : pc[t] = "appended" /\ start[t] = m /\ p \in pages[t]
                            /\ om[p] = 0

(* A checkpoint at l would hide nothing that is not in the data files. *)
LowWater(l) ==
    /\ FIRST_LSN <= l /\ l <= lsn
    /\ \A p \in Page : om[p] # 0 => l <= om[p]
    /\ \A t \in Mtr : pc[t] = "appended" => l <= start[t]

(* Where concurrent checkpoints are with respect to each other. *)
Checkpoints ==
    /\ LowWater(disk_checkpoint)
    /\ last_checkpoint_lsn <= disk_checkpoint
    /\ \A c \in Checkpointer :
         /\ cpc[c] \in {"log", "decide"} => LowWater(oldest[c])
         /\ cpc[c] = "header" => /\ LowWater(next_checkpoint_lsn)
                                 /\ disk_checkpoint <= next_checkpoint_lsn
         /\ cpc[c] = "complete" => disk_checkpoint = next_checkpoint_lsn
         /\ cpc[c] \in {"header", "complete"} => checkpoint_pending
         /\ \A d \in Checkpointer :
              {cpc[c], cpc[d]} \subseteq {"header", "complete"} => c = d
    /\ ~checkpoint_pending => disk_checkpoint = last_checkpoint_lsn

IInv ==
    /\ TypeOK
    /\ Latches
    /\ MadeDirty
    /\ Records
    /\ PageLsns
    /\ StampedPages
    /\ Accounted
    /\ FlushListSorted
    /\ Checkpoints

(* The flush list holds the dirty pages, once each. *)
ListOK ==
    /\ flush_list \in Seq(Page)
    /\ IsInjective(flush_list)
    /\ ToSet(flush_list) = {p \in Page : om[p] # 0}

(* The variables other than the flush list. *)
Types ==
    /\ lsn \in FIRST_LSN .. MaxLsn
    /\ flushed_lsn \in FIRST_LSN .. MaxLsn
    /\ last_checkpoint_lsn \in FIRST_LSN .. MaxLsn
    /\ next_checkpoint_lsn \in FIRST_LSN .. MaxLsn
    /\ disk_checkpoint \in FIRST_LSN .. MaxLsn
    /\ latch \subseteq Mtr
    /\ checkpoint_pending \in BOOLEAN
    /\ page_lock \in [Page -> Mtr \cup {Free, Io, Writing}]
    /\ page_lsn \in [Page -> Lsns]
    /\ om \in [Page -> Lsns]
    /\ file \in [Page -> Lsns]
    /\ durable \in [Page -> Lsns]
    /\ needs_fsync \in BOOLEAN
    /\ completing \in 0 .. MaxCompleting
    /\ logged \in [Lsns -> SUBSET Page]
    /\ pc \in [Mtr -> {"idle", "modified", "appended", "inserted",
                       "unlatched"}]
    /\ pages \in [Mtr -> SUBSET Page]
    /\ start \in [Mtr -> Lsns]
    /\ made_dirty \in [Mtr -> BOOLEAN]
    /\ cpc \in [Checkpointer -> {"idle", "clear", "oldest", "log", "decide",
                                 "header", "complete"}]
    /\ oldest \in [Checkpointer -> Lsns]
    /\ limit \in [Checkpointer -> Lsns]

LEMMA TypeParts == TypeOK <=> Types /\ ListOK
  BY DEF TypeOK, Types, ListOK

(* The oldest modification is that of the last page of the list: nothing   *)
(* dirty is older, and it is an LSN below the end of the log.              *)
LEMMA OldestModification ==
    ASSUME TypeOK, FlushListSorted, PageLsns, LowWater(disk_checkpoint)
    PROVE  /\ get_oldest_modification(lsn) \in FIRST_LSN .. lsn
           /\ \A p \in Page : om[p] # 0 => get_oldest_modification(lsn) <= om[p]
<1> USE DEF Lsns, FIRST_LSN
<1>1. CASE flush_list = <<>>
  <2>1. \A p \in Page : om[p] = 0
    BY <1>1, TypeParts DEF ListOK, ToSet
  <2> QED BY <1>1, <2>1, TypeParts DEF get_oldest_modification, Types
<1>2. CASE flush_list # <<>>
  <2> DEFINE n == Len(flush_list)
             q == flush_list[n]
  <2>1. /\ flush_list \in Seq(Page) /\ n \in Nat \ {0}
        /\ DOMAIN flush_list = 1 .. n /\ q \in Page
    BY <1>2, TypeParts, EmptySeq, LenProperties, ElementOfSeq DEF ListOK
  <2>2. om[q] # 0
    BY <2>1, TypeParts DEF ListOK, ToSet
  <2>3. ASSUME NEW p \in Page, om[p] # 0 PROVE om[q] <= om[p]
    <3>1. PICK i \in 1 .. n : flush_list[i] = p
      BY <2>1, <2>3, TypeParts DEF ListOK, ToSet
    <3>2. om[p] \in Nat
      BY TypeParts DEF Types
    <3>3. CASE i = n
      <4>1. q = p
        BY <3>1, <3>3
      <4> HIDE DEF q
      <4> QED BY <3>2, <4>1
    <3>4. CASE i < n
      BY <2>1, <3>1, <3>4 DEF FlushListSorted
    <3>5. i = n \/ i < n
      <4> HIDE DEF n
      <4> QED BY <2>1
    <3> HIDE DEF q, n
    <3> QED BY <3>3, <3>4, <3>5
  <2>4. get_oldest_modification(lsn) = om[q]
    BY <1>2 DEF get_oldest_modification, Last
  <2>5. om[q] \in FIRST_LSN .. lsn
    BY SMTT(30), <2>1, <2>2, TypeParts DEF PageLsns, LowWater, Types
  <2> QED BY <2>3, <2>4, <2>5
<1> QED BY <1>1, <1>2

LEMMA TypesStep == IInv /\ [Next]_vars => Types'
<1> SUFFICES ASSUME IInv, [Next]_vars PROVE Types'
  OBVIOUS
<1> USE MaxLsnAssumption, MaxCompletingAssumption
    DEF log, ckpt, pool, disk, mtr, call, vars, Goto, Continue, Lsns, FIRST_LSN
<1>T. Types
  BY TypeParts DEF IInv
<1>0. CASE UNCHANGED vars
  BY <1>0, <1>T DEF Types
<1>1. ASSUME NEW t \in Mtr, Modify(t) PROVE Types'
  BY <1>1, <1>T DEF Types, Modify
<1>2. ASSUME NEW t \in Mtr, do_write(t) PROVE Types'
  BY <1>2, <1>T DEF Types, do_write
<1>3. ASSUME NEW t \in Mtr, HasLsn(t) PROVE Stamped(t) \in [Page -> Lsns]
  BY <1>3, <1>T DEF Types, Stamped, IInv, Records
<1>4. ASSUME NEW t \in Mtr, InsertDirty(t) PROVE Types'
  <2>1. page_lsn' \in [Page -> Lsns]
    BY <1>3, <1>4 DEF InsertDirty, HasLsn
  <2> QED BY <1>4, <2>1, <1>T DEF Types, InsertDirty
<1>5. ASSUME NEW t \in Mtr, Unlatch(t) PROVE Types'
  BY <1>5, <1>T DEF Types, Unlatch
<1>6. ASSUME NEW t \in Mtr, Release(t) PROVE Types'
  <2>1. page_lsn' \in [Page -> Lsns]
    BY <1>3, <1>6, <1>T DEF Release, HasLsn, Types
  <2> QED BY <1>6, <2>1, <1>T DEF Types, Release
<1>7. CASE FlushLog
  BY <1>7, <1>T DEF Types, FlushLog
<1>8. ASSUME NEW p \in Page,
             \/ flush(p) \/ submit_io(p) \/ write_complete(p) \/ WriteError(p)
      PROVE  Types'
  <2>1. CASE flush(p)
    BY <2>1, <1>T DEF Types, flush
  <2>2. CASE write_complete(p)
    BY <2>2, <1>T DEF Types, write_complete
  <2>3. CASE submit_io(p)
    BY <2>3, <1>T DEF Types, submit_io
  <2>4. CASE WriteError(p)
    BY <2>4, <1>T DEF Types, WriteError
  <2> QED BY <1>8, <2>1, <2>2, <2>3, <2>4
<1>9. CASE complete_write
  BY <1>9, <1>T DEF Types, complete_write
<1>10. ASSUME NEW c \in Checkpointer, FsyncData(c) \/ clear_flush(c)
       PROVE  Types'
  BY <1>10, <1>T DEF Types, FsyncData, clear_flush
<1>11. ASSUME NEW c \in Checkpointer, DetermineOldest(c) PROVE Types'
  <2>1. get_oldest_modification(lsn) \in Lsns
    BY <1>T, OldestModification DEF IInv, Checkpoints, Types
  <2>2. /\ lsn' \in FIRST_LSN .. MaxLsn
        /\ oldest' \in [Checkpointer -> Lsns]
        /\ limit' \in [Checkpointer -> Lsns]
    <3> DEFINE old == get_oldest_modification(lsn)
    <3>1. lsn \in Nat /\ FIRST_LSN <= lsn /\ lsn <= MaxLsn /\ FIRST_LSN \in Nat
      BY <1>T DEF Types, FIRST_LSN
    <3>2. \/ UNCHANGED <<lsn, oldest, limit>>
          \/ /\ lsn < MaxLsn /\ lsn' = lsn + 1
             /\ oldest' = [oldest EXCEPT ![c] = old]
             /\ limit' = [limit EXCEPT ![c] = lsn + 1]
      BY <1>11 DEF DetermineOldest
    <3>3. oldest \in [Checkpointer -> Lsns] /\ limit \in [Checkpointer -> Lsns]
      BY <1>T DEF Types
    <3> HIDE DEF old
    <3>4. old \in Lsns
      BY <2>1 DEF old
    <3> QED BY <3>1, <3>2, <3>3, <3>4, MaxLsnAssumption DEF Lsns
  <2>3. cpc' \in [Checkpointer -> {"idle", "clear", "oldest", "log", "decide",
                                   "header", "complete"}]
    BY ZenonT(30), <1>11, <1>T DEF Types, DetermineOldest
  <2>4. UNCHANGED <<flushed_lsn, latch, logged, ckpt, pool, disk, mtr>>
    BY <1>11 DEF DetermineOldest
  <2> QED BY <2>2, <2>3, <2>4, <1>T DEF Types
<1>12. ASSUME NEW c \in Checkpointer, LogFlushed(c) PROVE Types'
  BY <1>12, <1>T DEF Types, LogFlushed
<1>13. ASSUME NEW c \in Checkpointer, Decide(c) PROVE Types'
  <2>1. cpc[c] = "decide" => oldest[c] \in FIRST_LSN .. MaxLsn
    BY <1>T DEF Types, IInv, Checkpoints, LowWater
  <2>2. /\ next_checkpoint_lsn' \in FIRST_LSN .. MaxLsn
        /\ checkpoint_pending' \in BOOLEAN
    BY <1>13, <2>1, <1>T DEF Types, Decide
  <2>3. /\ oldest' \in [Checkpointer -> Lsns]
        /\ cpc' \in [Checkpointer -> {"idle", "clear", "oldest", "log",
                                      "decide", "header", "complete"}]
    <3>1. /\ oldest' = [oldest EXCEPT ![c] = 0]
          /\ \E l \in {"idle", "header"} : cpc' = [cpc EXCEPT ![c] = l]
      BY <1>13 DEF Decide
    <3> QED BY <3>1, <1>T DEF Types
  <2>4. UNCHANGED <<log, last_checkpoint_lsn, disk_checkpoint, pool, disk, mtr,
                    limit>>
    BY <1>13 DEF Decide
  <2> QED BY <2>2, <2>3, <2>4, <1>T DEF Types
<1>14. ASSUME NEW c \in Checkpointer, WriteHeader(c) \/ CompleteCheckpoint(c)
       PROVE  Types'
  BY <1>14, <1>T DEF Types, WriteHeader, CompleteCheckpoint
<1> QED BY <1>0, <1>1, <1>2, <1>4, <1>5, <1>6, <1>7, <1>8, <1>9, <1>10,
           <1>11, <1>12, <1>13, <1>14 DEF Next

(* The pages that InsertDirty() adds keep the list free of duplicates, in  *)
(* step with oldest_modification() and sorted.                             *)
LEMMA InsertDirtyList ==
    ASSUME IInv, NEW t \in Mtr, InsertDirty(t)
    PROVE  ListOK' /\ FlushListSorted'
<1> DEFINE new == {p \in pages[t] : om[p] = 0}
           f   == flush_list
           l   == start[t]
<1>T. Types /\ ListOK /\ FlushListSorted
  BY TypeParts DEF IInv
<1>1. PICK n \in Position(l), s \in SetToSeqs(new) :
        f' = SubSeq(f, 1, n) \o s \o SubSeq(f, n + 1, Len(f))
  BY DEF InsertDirty
<1>2. /\ new \subseteq Page /\ IsFiniteSet(new)
      /\ s \in Seq(new) /\ s \in Seq(Page) /\ IsInjective(s) /\ ToSet(s) = new
  <2>1. new \subseteq Page
    BY <1>T DEF Types
  <2>2. IsFiniteSet(new)
    BY <2>1, PageAssumption, FS_Subset
  <2>3. s \in Seq(new) /\ IsInjective(s) /\ ToSet(s) = new
    BY <2>2, PermutationSeq
  <2>4. s \in Seq(Page)
    BY <2>1, <2>3, SeqMonotonic
  <2> QED BY <2>1, <2>2, <2>3, <2>4
<1> DEFINE k == Len(s)
           N == Len(f)
<1>3. /\ N \in Nat /\ DOMAIN f = 1 .. N /\ f \in Seq(Page) /\ f \in [1 .. N -> Page]
      /\ k \in Nat /\ DOMAIN s = 1 .. k /\ s \in [1 .. k -> Page]
  BY <1>T, <1>2, LenProperties DEF ListOK
<1>4. /\ n \in 0 .. N
      /\ \A i \in 1 .. n : om[f[i]] > l
      /\ n < N => om[f[n + 1]] <= l
  BY DEF Position
<1>5. l \in Nat /\ l # 0
  BY <1>T DEF InsertDirty, Goto, IInv, Records, HasLsn, Types, FIRST_LSN, Lsns
<1>6. /\ om \in [Page -> Nat] /\ om' \in [Page -> Nat]
      /\ \A p \in Page : om'[p] = IF p \in new THEN l ELSE om[p]
      /\ \A p \in new : om[p] = 0
  BY SMTT(30), <1>T, <1>5 DEF InsertDirty, Types, Lsns
<1>7. \A i \in 1 .. N : om[f[i]] # 0 /\ f[i] \notin new
  BY <1>T, <1>3, <1>6 DEF ListOK, ToSet
<1>8. /\ \A p \in new : \E i \in 1 .. k : s[i] = p
      /\ \A i \in 1 .. k : s[i] \in new
  BY <1>2, <1>3 DEF ToSet
<1>9. \A i \in n + 1 .. N : om[f[i]] <= l
  <2> SUFFICES ASSUME NEW i \in n + 1 .. N PROVE om[f[i]] <= l
    OBVIOUS
  <2>1. CASE i = n + 1
    BY <1>3, <1>4, <2>1
  <2>2. CASE n + 1 < i
    <3>1. n + 1 \in 1 .. N /\ i \in 1 .. N
      BY <1>3, <1>4, <2>2
    <3>2. om[f[n + 1]] >= om[f[i]]
      BY <1>T, <2>2, <3>1 DEF FlushListSorted
    <3> QED BY <1>3, <1>4, <1>5, <1>6, <3>1, <3>2
  <2> QED BY <1>3, <1>4, <2>1, <2>2
<1> DEFINE r == f'
<1>10. /\ r \in Seq(Page)
       /\ Len(r) = N + k
       /\ \A i \in 1 .. N + k :
            r[i] = IF i <= n THEN f[i]
                   ELSE IF i <= n + k THEN s[i - n]
                   ELSE f[i - k]
  <2> DEFINE e == SubSeq(f, 1, n) \o s \o SubSeq(f, n + 1, Len(f))
  <2>1. n \in 0 .. Len(f)
    BY <1>4
  <2>2. /\ e \in Seq(Page)
        /\ Len(e) = Len(f) + Len(s)
        /\ \A i \in 1 .. Len(e) :
             e[i] = IF i <= n THEN f[i]
                    ELSE IF i <= n + Len(s) THEN s[i - n]
                    ELSE f[i - Len(s)]
    <3> HIDE DEF f
    <3> QED BY ZenonT(30), <1>2, <1>3, <2>1, InsertSeq
  <2>3. r = e
    BY <1>1
  <2> HIDE DEF e, r
  <2> QED BY <2>2, <2>3
<1>11. DOMAIN r = 1 .. N + k
  BY <1>10, LenProperties
<1>12. /\ \A i, j \in 1 .. N : f[i] = f[j] => i = j
       /\ \A i, j \in 1 .. k : s[i] = s[j] => i = j
  BY <1>T, <1>2, <1>3 DEF ListOK, IsInjective
<1> HIDE DEF new, f, l, k, N, r
<1>13. \A i \in 1 .. N + k :
        /\ i <= n => i \in 1 .. N /\ r[i] = f[i]
        /\ i > n /\ i <= n + k => i - n \in 1 .. k /\ r[i] = s[i - n]
        /\ i > n + k => i - k \in n + 1 .. N /\ i - k \in 1 .. N /\ r[i] = f[i - k]
  BY SMTT(30), <1>3, <1>4, <1>10
<1>14. IsInjective(r)
  <2> SUFFICES ASSUME NEW i \in 1 .. N + k, NEW j \in 1 .. N + k, r[i] = r[j]
               PROVE  i = j
    BY <1>11 DEF IsInjective
  <2> QED BY <1>3, <1>4, <1>7, <1>8, <1>12, <1>13
<1>15. ToSet(r) = {p \in Page : om'[p] # 0}
  <2>1. ASSUME NEW i \in 1 .. N + k PROVE r[i] \in Page /\ om'[r[i]] # 0
    <3>1. CASE i > n /\ i <= n + k
      BY <1>2, <1>3, <1>5, <1>6, <1>8, <1>13, <3>1
    <3>2. CASE ~(i > n /\ i <= n + k)
      BY <1>3, <1>4, <1>6, <1>7, <1>13, <3>2
    <3> QED BY <3>1, <3>2
  <2>2. ASSUME NEW p \in Page, om'[p] # 0
        PROVE  \E i \in 1 .. N + k : r[i] = p
    <3>1. CASE p \in new
      <4>1. PICK i \in 1 .. k : s[i] = p
        BY <1>8, <3>1
      <4>2. n + i \in 1 .. N + k /\ n + i > n /\ n + i <= n + k /\ (n + i) - n = i
        BY <1>3, <1>4
      <4> QED BY <1>13, <4>1, <4>2
    <3>2. CASE p \notin new
      <4>1. om[p] # 0
        BY <1>6, <2>2, <3>2
      <4>2. PICK i \in 1 .. N : f[i] = p
        BY <1>T, <1>3, <4>1 DEF ListOK, ToSet, f
      <4>3. CASE i <= n
        BY <1>3, <1>4, <1>13, <4>2, <4>3
      <4>4. CASE i > n
        <5>1. i + k \in 1 .. N + k /\ i + k > n + k /\ (i + k) - k = i
          BY <1>3, <1>4, <4>4
        <5> QED BY <1>13, <4>2, <5>1
      <4> QED BY <1>4, <4>3, <4>4
    <3> QED BY <3>1, <3>2
  <2> QED BY <1>11, <2>1, <2>2 DEF ToSet
<1>16. ASSUME NEW i \in 1 .. N + k
       PROVE  /\ om'[r[i]] \in Nat
              /\ i <= n => om'[r[i]] = om[f[i]] /\ om'[r[i]] > l
              /\ i > n /\ i <= n + k => om'[r[i]] = l
              /\ i > n + k => om'[r[i]] = om[f[i - k]] /\ om'[r[i]] <= l
  <2>1. r[i] \in Page
    BY <1>3, <1>4, <1>13
  <2> QED BY <1>3, <1>4, <1>5, <1>6, <1>7, <1>8, <1>9, <1>13, <2>1
<1>17. ASSUME NEW i \in 1 .. N + k, NEW j \in 1 .. N + k, i < j
       PROVE  om'[r[i]] >= om'[r[j]]
  <2>1. \A x, y \in 1 .. N : x < y => om[f[x]] >= om[f[y]]
    BY <1>T DEF FlushListSorted, f, N
  <2>2. CASE j <= n
    <3>1. i \in 1 .. N /\ j \in 1 .. N /\ i <= n
      BY <1>3, <1>4, <1>17, <2>2
    <3> QED BY <1>16, <1>17, <2>1, <2>2, <3>1
  <2>3. CASE i > n + k
    <3>1. i - k \in 1 .. N /\ j - k \in 1 .. N /\ j > n + k /\ i - k < j - k
      BY <1>3, <1>4, <1>17, <2>3
    <3> QED BY <1>16, <2>1, <2>3, <3>1
  <2>4. CASE j > n /\ i <= n + k
    <3>1. om'[r[i]] >= l /\ om'[r[j]] <= l
      BY <1>3, <1>4, <1>5, <1>16, <2>4
    <3> QED BY <1>5, <1>16, <3>1
  <2> QED BY <1>3, <1>4, <2>2, <2>3, <2>4
<1>18. FlushListSorted'
  BY <1>10, <1>17 DEF FlushListSorted, r, f
<1> QED BY <1>10, <1>14, <1>15, <1>18 DEF ListOK, r, f

(* So does the removal of a page when its write is complete. *)
LEMMA WriteCompleteList ==
    ASSUME IInv, NEW p \in Page, write_complete(p)
    PROVE  ListOK' /\ FlushListSorted'
<1> DEFINE f == flush_list
           N == Len(f)
           r == f'
<1>T. Types /\ ListOK /\ FlushListSorted
  BY TypeParts DEF IInv
<1>1. /\ N \in Nat /\ DOMAIN f = 1 .. N /\ f \in Seq(Page) /\ f \in [1 .. N -> Page]
  BY <1>T, LenProperties DEF ListOK
<1>2. PICK k \in 1 .. N : f[k] = p /\ r = RemoveAt(f, k)
  BY <1>1 DEF write_complete
<1>3. /\ r \in Seq(Page) /\ Len(r) = N - 1
      /\ \A i \in 1 .. N - 1 : r[i] = IF i < k THEN f[i] ELSE f[i + 1]
  BY <1>1, <1>2, RemoveSeq
<1>4. DOMAIN r = 1 .. N - 1
  BY <1>3, LenProperties
<1>5. /\ om \in [Page -> Nat] /\ om' \in [Page -> Nat]
      /\ \A q \in Page : om'[q] = IF q = p THEN 0 ELSE om[q]
  BY <1>T DEF write_complete, Types, Lsns
<1>6. \A i, j \in 1 .. N : f[i] = f[j] => i = j
  BY <1>T, <1>1 DEF ListOK, IsInjective
<1>7. /\ \A i \in 1 .. N : f[i] \in Page /\ om[f[i]] # 0
      /\ \A q \in Page : om[q] # 0 => \E i \in 1 .. N : f[i] = q
  BY <1>T, <1>1 DEF ListOK, ToSet
<1>8. \A i, j \in 1 .. N : i < j => om[f[i]] >= om[f[j]]
  BY <1>T DEF FlushListSorted
<1> HIDE DEF f, N, r
<1>9. \A i \in 1 .. N - 1 : \E j \in 1 .. N :
        j # k /\ r[i] = f[j] /\ j = IF i < k THEN i ELSE i + 1
  BY <1>1, <1>3
<1>10. IsInjective(r)
  <2> SUFFICES ASSUME NEW i \in 1 .. N - 1, NEW j \in 1 .. N - 1, r[i] = r[j]
               PROVE  i = j
    BY <1>4 DEF IsInjective
  <2> QED BY <1>1, <1>6, <1>9
<1>11. ToSet(r) = {q \in Page : om'[q] # 0}
  <2>1. ASSUME NEW i \in 1 .. N - 1 PROVE r[i] \in Page /\ om'[r[i]] # 0
    <3>1. PICK j \in 1 .. N : j # k /\ r[i] = f[j]
      BY <1>9
    <3>2. f[j] # p
      BY <1>2, <1>6, <3>1
    <3> QED BY <1>5, <1>7, <3>1, <3>2
  <2>2. ASSUME NEW q \in Page, om'[q] # 0
        PROVE  \E i \in 1 .. N - 1 : r[i] = q
    <3>1. om[q] # 0 /\ q # p
      BY <1>5, <2>2
    <3>2. PICK j \in 1 .. N : f[j] = q
      BY <1>7, <3>1
    <3>3. j # k
      BY <1>2, <3>1, <3>2
    <3>4. CASE j < k
      <4>1. j \in 1 .. N - 1 /\ r[j] = q
        BY <1>1, <1>3, <3>2, <3>4
      <4> QED BY <4>1
    <3>5. CASE j > k
      <4>1. j - 1 \in 1 .. N - 1 /\ ~(j - 1 < k) /\ (j - 1) + 1 = j
        BY <1>1, <3>5
      <4>2. r[j - 1] = q
        BY <1>3, <3>2, <4>1
      <4> QED BY <4>1, <4>2
    <3> QED BY <1>1, <3>3, <3>4, <3>5
  <2> QED BY <1>4, <2>1, <2>2 DEF ToSet
<1>12. ASSUME NEW i \in 1 .. N - 1, NEW j \in 1 .. N - 1, i < j
       PROVE  om'[r[i]] >= om'[r[j]]
  <2>1. PICK x \in 1 .. N : x # k /\ r[i] = f[x] /\ x = IF i < k THEN i ELSE i + 1
    BY <1>9
  <2>2. PICK y \in 1 .. N : y # k /\ r[j] = f[y] /\ y = IF j < k THEN j ELSE j + 1
    BY <1>9
  <2>3. x < y
    BY <1>1, <1>12, <2>1, <2>2
  <2>4. f[x] # p /\ f[y] # p
    BY <1>2, <1>6, <2>1, <2>2
  <2>5. om'[f[x]] = om[f[x]] /\ om'[f[y]] = om[f[y]]
    BY <1>5, <1>7, <2>4
  <2> QED BY <1>8, <2>1, <2>2, <2>3, <2>5
<1>13. FlushListSorted'
  BY <1>3, <1>12 DEF FlushListSorted, r, f
<1> QED BY <1>3, <1>10, <1>11, <1>13 DEF ListOK, r, f

LEMMA ListStep == IInv /\ [Next]_vars => ListOK' /\ FlushListSorted'
<1> SUFFICES ASSUME IInv, [Next]_vars PROVE ListOK' /\ FlushListSorted'
  OBVIOUS
<1>1. CASE UNCHANGED <<om, flush_list>>
  BY <1>1, TypeParts DEF IInv, ListOK, FlushListSorted
<1>2. ASSUME NEW t \in Mtr,
             Modify(t) \/ do_write(t) \/ Unlatch(t) \/ Release(t)
      PROVE  UNCHANGED <<om, flush_list>>
  BY <1>2 DEF Modify, do_write, Unlatch, Release, pool
<1>3. ASSUME NEW p \in Page, flush(p) \/ submit_io(p) \/ WriteError(p)
      PROVE  UNCHANGED <<om, flush_list>>
  BY <1>3 DEF flush, submit_io, WriteError
<1>4. CASE FlushLog \/ complete_write \/ UNCHANGED vars
  BY <1>1, <1>4 DEF FlushLog, complete_write, pool, vars
<1>5. ASSUME NEW c \in Checkpointer,
             \/ FsyncData(c) \/ clear_flush(c) \/ DetermineOldest(c)
             \/ LogFlushed(c) \/ Decide(c) \/ WriteHeader(c)
             \/ CompleteCheckpoint(c)
      PROVE  UNCHANGED <<om, flush_list>>
  BY <1>5 DEF FsyncData, clear_flush, DetermineOldest, LogFlushed, Decide,
              WriteHeader, CompleteCheckpoint, pool
<1> QED BY <1>1, <1>2, <1>3, <1>4, <1>5, InsertDirtyList, WriteCompleteList
        DEF Next

(* A page that is being written is latched by no mini-transaction, and no  *)
(* page by two of them.                                                    *)
LEMMA PagesDisjoint ==
    ASSUME Types, Latches, NEW t \in Mtr, NEW p \in pages[t]
    PROVE  /\ p \in Page
           /\ page_lock[p] = t /\ page_lock[p] \notin {Free, Io, Writing}
           /\ \A u \in Mtr : p \in pages[u] => u = t
  BY MtrAssumption DEF Types, Latches

(* What the steps of a checkpoint leave alone. *)
LEMMA CheckpointFrame ==
    ASSUME NEW c \in Checkpointer,
           \/ FsyncData(c) \/ clear_flush(c) \/ DetermineOldest(c)
           \/ LogFlushed(c) \/ Decide(c) \/ WriteHeader(c)
           \/ CompleteCheckpoint(c)
    PROVE  /\ UNCHANGED <<page_lock, page_lsn, om, flush_list, file, latch,
                          logged, pc, pages, start, made_dirty>>
           /\ lsn' = lsn \/ lsn' = lsn + 1
  BY DEF FsyncData, clear_flush, DetermineOldest, LogFlushed, Decide,
         WriteHeader, CompleteCheckpoint, pool, mtr, log, disk

LEMMA LatchesStep == IInv /\ [Next]_vars => Latches'
<1> SUFFICES ASSUME IInv, [Next]_vars PROVE Latches'
  OBVIOUS
<1> USE MtrAssumption DEF Goto, log, pool, mtr, Latches
<1>T. Types /\ Latches
  BY TypeParts DEF IInv
<1>1. CASE UNCHANGED <<latch, page_lock, om, pc, pages>>
  BY <1>1, <1>T
<1>2. ASSUME NEW t \in Mtr, Modify(t) PROVE Latches'
  BY <1>2, <1>T DEF Types, Modify
<1>3. ASSUME NEW t \in Mtr, do_write(t) PROVE Latches'
  BY <1>3, <1>T DEF Types, do_write
<1>4. ASSUME NEW t \in Mtr, InsertDirty(t) PROVE Latches'
  <2>1. \A p \in Page : om[p] # 0 => om'[p] # 0
    BY <1>4, <1>T DEF Types, InsertDirty
  <2>2. /\ pc[t] = "appended" /\ pc' = [pc EXCEPT ![t] = "inserted"]
        /\ UNCHANGED <<latch, page_lock, pages>>
    BY <1>4 DEF InsertDirty
  <2> QED BY <1>T, <2>1, <2>2 DEF Types
<1>5. ASSUME NEW t \in Mtr, Unlatch(t) PROVE Latches'
  BY <1>5, <1>T DEF Types, Unlatch
<1>6. ASSUME NEW t \in Mtr, Release(t) PROVE Latches'
  <2>1. /\ pc[t] = "unlatched" /\ pc' = [pc EXCEPT ![t] = "idle"]
        /\ pages' = [pages EXCEPT ![t] = {}]
        /\ page_lock' = [p \in Page |-> IF p \in pages[t] THEN Free
                                                          ELSE page_lock[p]]
        /\ UNCHANGED <<latch, om>>
    BY <1>6 DEF Release
  <2>2. \A u \in Mtr : u \in latch' <=> pc'[u] \in {"appended", "inserted"}
    BY <1>T, <2>1 DEF Types
  <2>3. \A u \in Mtr, p \in Page : page_lock'[p] = u <=> p \in pages'[u]
    BY <1>T, <2>1, PagesDisjoint DEF Types
  <2>4. \A u \in Mtr : pc'[u] = "idle" => pages'[u] = {}
    BY <1>T, <2>1 DEF Types
  <2>5. \A p \in Page : page_lock'[p] \in {Io, Writing} => om'[p] # 0
    BY <1>T, <2>1 DEF Types, Free, Io, Writing
  <2> QED BY <2>2, <2>3, <2>4, <2>5
<1>7. CASE FlushLog \/ complete_write \/ UNCHANGED vars
  BY <1>1, <1>7 DEF FlushLog, complete_write, vars
<1>8. ASSUME NEW p \in Page,
             \/ flush(p) \/ submit_io(p) \/ write_complete(p) \/ WriteError(p)
      PROVE  Latches'
  <2>1. /\ page_lock[p] \in {Free, Io, Writing}
        /\ \E l \in {Free, Io, Writing} : page_lock' = [page_lock EXCEPT ![p] = l]
        /\ UNCHANGED <<latch, pc, pages>>
    BY <1>8 DEF flush, submit_io, write_complete, WriteError
  <2>2. \A u \in Mtr, q \in Page : page_lock'[q] = u <=> q \in pages'[u]
    BY <1>T, <2>1, PagesDisjoint DEF Types
  <2>3. \A q \in Page : page_lock'[q] \in {Io, Writing} => om'[q] # 0
    BY <1>8, <1>T DEF Types, flush, submit_io, write_complete, WriteError,
                      Free, Io, Writing
  <2> QED BY <1>T, <2>1, <2>2, <2>3
<1> QED BY <1>1, <1>2, <1>3, <1>4, <1>5, <1>6, <1>7, <1>8, CheckpointFrame
        DEF Next

LEMMA MadeDirtyStep == IInv /\ [Next]_vars => MadeDirty'
<1> SUFFICES ASSUME IInv, [Next]_vars PROVE MadeDirty'
  OBVIOUS
<1> USE DEF Goto, log, pool, mtr, MadeDirty
<1>T. Types /\ Latches /\ MadeDirty
  BY TypeParts DEF IInv
<1>1. CASE UNCHANGED <<om, pc, pages, made_dirty>>
  BY <1>1, <1>T
<1>2. ASSUME NEW t \in Mtr, Modify(t) PROVE MadeDirty'
  BY <1>2, <1>T DEF Types, Modify
<1>3. ASSUME NEW t \in Mtr, do_write(t) PROVE MadeDirty'
  BY <1>3, <1>T DEF Types, do_write
<1>4. ASSUME NEW t \in Mtr, InsertDirty(t) PROVE MadeDirty'
  <2>1. start[t] # 0
    BY <1>4, <1>T DEF Types, IInv, Records, HasLsn, InsertDirty, Lsns, FIRST_LSN
  <2>2. \A p \in pages[t] : om'[p] # 0
    BY <1>4, <1>T, <2>1 DEF Types, InsertDirty
  <2>3. \A u \in Mtr : u # t => \A p \in pages[u] : om'[p] = om[p]
    BY <1>4, <1>T, PagesDisjoint DEF InsertDirty
  <2>4. /\ pc' = [pc EXCEPT ![t] = "inserted"] /\ pc[t] = "appended"
        /\ made_dirty[t] /\ UNCHANGED <<pages, made_dirty>>
    BY <1>4 DEF InsertDirty
  <2>5. ASSUME NEW u \in Mtr, u # t
        PROVE  /\ pc'[u] = pc[u]
               /\ (\E p \in pages[u] : om'[p] = 0) <=>
                     (\E p \in pages[u] : om[p] = 0)
               /\ (\A p \in pages[u] : om'[p] # 0) <=>
                     (\A p \in pages[u] : om[p] # 0)
    BY SMTT(30), <1>T, <2>3, <2>4, <2>5 DEF Types
  <2> QED BY <1>T, <2>2, <2>4, <2>5 DEF Types
<1>5. ASSUME NEW t \in Mtr, Unlatch(t) PROVE MadeDirty'
  BY <1>5, <1>T DEF Types, Unlatch
<1>6. ASSUME NEW t \in Mtr, Release(t) PROVE MadeDirty'
  BY <1>6, <1>T DEF Types, Release
<1>7. CASE FlushLog \/ complete_write \/ UNCHANGED vars
  BY <1>1, <1>7 DEF FlushLog, complete_write, vars
<1>8. ASSUME NEW p \in Page, flush(p) \/ submit_io(p) \/ WriteError(p)
      PROVE  MadeDirty'
  BY <1>1, <1>8 DEF flush, submit_io, WriteError
<1>9. ASSUME NEW p \in Page, write_complete(p) PROVE MadeDirty'
  <2>1. \A u \in Mtr : \A q \in pages[u] : om'[q] = om[q]
    BY <1>9, <1>T, PagesDisjoint DEF write_complete, Types
  <2>2. UNCHANGED <<pc, pages, made_dirty>>
    BY <1>9 DEF write_complete
  <2>3. ASSUME NEW u \in Mtr
        PROVE  /\ (\E q \in pages[u] : om'[q] = 0) <=>
                     (\E q \in pages[u] : om[q] = 0)
               /\ (\A q \in pages[u] : om'[q] # 0) <=>
                     (\A q \in pages[u] : om[q] # 0)
    BY <2>1
  <2> QED BY <1>T, <2>2, <2>3
<1> QED BY <1>1, <1>2, <1>3, <1>4, <1>5, <1>6, <1>7, <1>8, <1>9,
           CheckpointFrame DEF Next

LEMMA RecordsStep == IInv /\ [Next]_vars => Records'
<1> SUFFICES ASSUME IInv, [Next]_vars PROVE Records'
  OBVIOUS
<1> USE DEF Goto, log, mtr, pool, Records, HasLsn, Lsns, FIRST_LSN
<1>T. Types /\ Records
  BY TypeParts DEF IInv
<1>1. CASE /\ UNCHANGED <<pc, start, logged>>
           /\ lsn' = lsn \/ lsn' = lsn + 1
  BY <1>1, <1>T DEF Types
<1>2. ASSUME NEW t \in Mtr, Modify(t) PROVE Records'
  BY <1>2, <1>T DEF Types, Modify
<1>3. ASSUME NEW t \in Mtr, do_write(t) PROVE Records'
  BY <1>3, <1>T DEF Types, do_write
<1>4. ASSUME NEW t \in Mtr, InsertDirty(t) PROVE Records'
  BY <1>4, <1>T DEF Types, InsertDirty
<1>5. ASSUME NEW t \in Mtr, Unlatch(t) PROVE Records'
  BY <1>5, <1>T DEF Types, Unlatch
<1>6. ASSUME NEW t \in Mtr, Release(t) PROVE Records'
  BY <1>6, <1>T DEF Types, Release
<1>7. CASE FlushLog \/ complete_write \/ UNCHANGED vars
  BY <1>1, <1>7 DEF FlushLog, complete_write, vars
<1>8. ASSUME NEW p \in Page,
             \/ flush(p) \/ submit_io(p) \/ write_complete(p) \/ WriteError(p)
      PROVE  Records'
  BY <1>1, <1>8 DEF flush, submit_io, write_complete, WriteError
<1> QED BY <1>1, <1>2, <1>3, <1>4, <1>5, <1>6, <1>7, <1>8, CheckpointFrame
        DEF Next

(* Stamping the pages of a mini-transaction never lowers FIL_PAGE_LSN. *)
LEMMA StampGrows ==
    ASSUME IInv, NEW t \in Mtr, HasLsn(t), NEW p \in Page
    PROVE  /\ page_lsn[p] \in Nat /\ Stamped(t)[p] \in Nat
           /\ page_lsn[p] <= Stamped(t)[p]
           /\ Stamped(t)[p] <= lsn
           /\ p \in pages[t] => Stamped(t)[p] = start[t] + 1
           /\ p \notin pages[t] => Stamped(t)[p] = page_lsn[p]
  BY TypeParts DEF IInv, Types, PageLsns, Records, Stamped, Lsns, FIRST_LSN

LEMMA PageLsnsStep == IInv /\ [Next]_vars => PageLsns'
<1> SUFFICES ASSUME IInv, [Next]_vars PROVE PageLsns'
  OBVIOUS
<1> USE DEF Goto, log, mtr, pool, disk, PageLsns, Lsns, FIRST_LSN
<1>T. Types /\ Latches /\ Records /\ PageLsns
  BY TypeParts DEF IInv
<1>1. CASE /\ UNCHANGED <<file, page_lsn, om, pc, pages, start>>
           /\ lsn' = lsn \/ lsn' = lsn + 1
  BY <1>1, <1>T DEF Types, HasLsn
<1>2. ASSUME NEW t \in Mtr, Modify(t) PROVE PageLsns'
  BY <1>2, <1>T DEF Types, Modify, HasLsn
<1>3. ASSUME NEW t \in Mtr, do_write(t) PROVE PageLsns'
  BY <1>3, <1>T DEF Types, do_write, HasLsn
<1>4. ASSUME NEW t \in Mtr, HasLsn(t), page_lsn' = Stamped(t),
             UNCHANGED <<file, lsn>>,
             \A p \in Page : om'[p] < lsn,
             \A u \in Mtr, p \in Page :
                 HasLsn(u)' /\ p \in pages'[u] =>
                     HasLsn(u) /\ p \in pages[u] /\ start'[u] = start[u]
      PROVE  PageLsns'
  <2> SUFFICES ASSUME NEW p \in Page
               PROVE  /\ file[p] <= page_lsn'[p]
                      /\ page_lsn'[p] <= lsn
                      /\ \A u \in Mtr : HasLsn(u)' /\ p \in pages'[u] =>
                                          page_lsn'[p] <= start'[u] + 1
    BY <1>4
  <2>1. file[p] \in Nat /\ file[p] <= page_lsn[p] /\ lsn \in Nat
    BY <1>T DEF Types
  <2>2. ASSUME NEW u \in Mtr, HasLsn(u)', p \in pages'[u]
        PROVE  page_lsn'[p] <= start'[u] + 1
    <3>1. HasLsn(u) /\ p \in pages[u] /\ start'[u] = start[u] /\ start[u] \in Nat
      BY <1>4, <1>T, <2>2 DEF Types
    <3>2. CASE p \in pages[t]
      BY <1>4, <1>T, <3>1, <3>2, PagesDisjoint, StampGrows
    <3>3. CASE p \notin pages[t]
      BY <1>4, <1>T, <3>1, <3>3, StampGrows
    <3> QED BY <3>2, <3>3
  <2> QED BY <1>4, <2>1, <2>2, StampGrows
<1>5. ASSUME NEW t \in Mtr, InsertDirty(t) PROVE PageLsns'
  <2>1. HasLsn(t) /\ UNCHANGED <<file, lsn, pages, start>>
    BY <1>5 DEF InsertDirty, HasLsn
  <2>2. \A u \in Mtr : HasLsn(u)' => HasLsn(u)
    BY <1>5, <1>T DEF InsertDirty, HasLsn, Types
  <2>3. \A p \in Page : om'[p] < lsn
    BY <1>5, <1>T, <2>1 DEF InsertDirty, Types, Records
  <2> QED BY <1>4, <1>5, <2>1, <2>2, <2>3 DEF InsertDirty
<1>6. ASSUME NEW t \in Mtr, Unlatch(t) PROVE PageLsns'
  BY <1>6, <1>T DEF Types, Unlatch, HasLsn
<1>7. ASSUME NEW t \in Mtr, Release(t) PROVE PageLsns'
  <2>1. HasLsn(t) /\ UNCHANGED <<file, lsn, om>>
    BY <1>7 DEF Release, HasLsn
  <2>2. \A u \in Mtr : HasLsn(u)' => /\ u # t /\ HasLsn(u)
                                     /\ pages'[u] = pages[u]
                                     /\ start'[u] = start[u]
    BY <1>7, <1>T DEF Release, HasLsn, Types
  <2>3. CASE made_dirty[t]
    <3>1. UNCHANGED page_lsn
      BY <1>7, <2>3 DEF Release
    <3> QED BY <1>T, <2>1, <2>2, <3>1
  <2>4. CASE ~made_dirty[t]
    <3>1. page_lsn' = Stamped(t)
      BY <1>7, <2>4 DEF Release
    <3> QED BY <1>4, <1>T, <2>1, <2>2, <3>1
  <2> QED BY <2>3, <2>4
<1>8. CASE FlushLog \/ complete_write \/ UNCHANGED vars
  BY <1>1, <1>8 DEF FlushLog, complete_write, vars
<1>9. ASSUME NEW p \in Page, flush(p) \/ submit_io(p) \/ WriteError(p)
      PROVE  PageLsns'
  BY <1>1, <1>9 DEF flush, submit_io, WriteError
<1>10. ASSUME NEW p \in Page, write_complete(p) PROVE PageLsns'
  BY <1>10, <1>T DEF Types, write_complete, HasLsn
<1> QED BY <1>1, <1>2, <1>3, <1>5, <1>6, <1>7, <1>8, <1>9, <1>10,
           CheckpointFrame DEF Next

LEMMA StampedPagesStep == IInv /\ [Next]_vars => StampedPages'
<1> SUFFICES ASSUME IInv, [Next]_vars PROVE StampedPages'
  OBVIOUS
<1> USE DEF Goto, log, mtr, pool, StampedPages, Lsns, FIRST_LSN
<1>T. Types /\ Latches /\ Records /\ StampedPages
  BY TypeParts DEF IInv
<1>1. CASE UNCHANGED <<page_lsn, pc, pages, start, logged, made_dirty>>
  BY <1>1, <1>T DEF Unstamped
<1>2. ASSUME NEW t \in Mtr, Modify(t) PROVE StampedPages'
  <2>1. \A u \in Mtr : Unstamped(u) => /\ u # t /\ Unstamped(u)'
                                       /\ pages'[u] = pages[u]
    BY <1>2, <1>T DEF Types, Modify, Unstamped
  <2>2. UNCHANGED <<page_lsn, start, logged>>
    BY <1>2 DEF Modify
  <2> QED BY <1>T, <2>1, <2>2
<1>3. ASSUME NEW t \in Mtr, do_write(t) PROVE StampedPages'
  <2>1. \A u \in Mtr : Unstamped(u) => /\ u # t /\ Unstamped(u)'
                                       /\ start'[u] = start[u]
    BY <1>3, <1>T DEF Types, do_write, Unstamped
  <2>2. Unstamped(t)' /\ start'[t] = lsn
    BY <1>3, <1>T DEF Types, do_write, Unstamped
  <2>3. /\ UNCHANGED <<page_lsn, pages>>
        /\ \A m \in Lsns : logged'[m] = IF m = lsn THEN pages[t] ELSE logged[m]
    BY <1>3, <1>T DEF do_write, Types
  <2> QED BY <1>T, <2>1, <2>2, <2>3
<1>4. ASSUME NEW t \in Mtr, HasLsn(t), page_lsn' = Stamped(t), UNCHANGED logged,
             \A u \in Mtr : u # t /\ Unstamped(u) =>
                 Unstamped(u)' /\ start'[u] = start[u] /\ pages'[u] = pages[u]
      PROVE  StampedPages'
  <2> SUFFICES ASSUME NEW m \in Lsns, NEW p \in logged[m]
               PROVE  \/ page_lsn'[p] > m
                      \/ \E u \in Mtr : Unstamped(u)' /\ start'[u] = m
                                          /\ p \in pages'[u]
    BY <1>4
  <2>1. p \in Page
    BY <1>T DEF Types
  <2>2. CASE page_lsn[p] > m
    BY <1>4, <2>1, <2>2, StampGrows
  <2>3. CASE \E u \in Mtr : Unstamped(u) /\ start[u] = m /\ p \in pages[u]
    <3>1. PICK u \in Mtr : Unstamped(u) /\ start[u] = m /\ p \in pages[u]
      BY <2>3
    <3>2. CASE u = t
      BY <1>4, <2>1, <3>1, <3>2, StampGrows
    <3>3. CASE u # t
      BY <1>4, <3>1, <3>3
    <3> QED BY <3>2, <3>3
  <2> QED BY <1>T, <2>2, <2>3
<1>5. ASSUME NEW t \in Mtr, InsertDirty(t) PROVE StampedPages'
  <2>1. \A u \in Mtr : u # t /\ Unstamped(u) => Unstamped(u)'
    BY <1>5, <1>T DEF InsertDirty, Unstamped, Types
  <2> QED BY <1>4, <1>5, <2>1 DEF InsertDirty, HasLsn
<1>6. ASSUME NEW t \in Mtr, Unlatch(t) PROVE StampedPages'
  <2>1. \A u \in Mtr : Unstamped(u) => Unstamped(u)'
    BY <1>6, <1>T DEF Unlatch, Unstamped, Types
  <2> QED BY <1>6, <1>T, <2>1 DEF Unlatch
<1>7. ASSUME NEW t \in Mtr, Release(t) PROVE StampedPages'
  <2>1. \A u \in Mtr : u # t /\ Unstamped(u) =>
            Unstamped(u)' /\ start'[u] = start[u] /\ pages'[u] = pages[u]
    BY <1>7, <1>T DEF Release, Unstamped, Types
  <2>2. UNCHANGED logged /\ HasLsn(t)
    BY <1>7 DEF Release, HasLsn
  <2>3. CASE made_dirty[t]
    <3>1. UNCHANGED page_lsn /\ ~Unstamped(t)
      BY <1>7, <2>3 DEF Release, Unstamped
    <3> QED BY <1>T, <2>1, <2>2, <3>1
  <2>4. CASE ~made_dirty[t]
    BY <1>4, <1>7, <2>1, <2>2, <2>4 DEF Release
  <2> QED BY <2>3, <2>4
<1>8. CASE FlushLog \/ complete_write \/ UNCHANGED vars
  BY <1>1, <1>8 DEF FlushLog, complete_write, vars
<1>9. ASSUME NEW p \in Page,
             \/ flush(p) \/ submit_io(p) \/ write_complete(p) \/ WriteError(p)
      PROVE  StampedPages'
  BY <1>1, <1>9 DEF flush, submit_io, write_complete, WriteError
<1> QED BY <1>1, <1>2, <1>3, <1>5, <1>6, <1>7, <1>8, <1>9, CheckpointFrame
        DEF Next

LEMMA AccountedStep == IInv /\ [Next]_vars => Accounted'
<1> SUFFICES ASSUME IInv, [Next]_vars PROVE Accounted'
  OBVIOUS
<1> USE DEF Goto, log, mtr, pool, disk, Accounted, Lsns, FIRST_LSN
<1>T. Types /\ Latches /\ MadeDirty /\ Records /\ PageLsns /\ Accounted
  BY TypeParts DEF IInv
<1>1. CASE UNCHANGED <<file, om, pc, pages, start, logged>>
  BY <1>1, <1>T
<1>2. ASSUME NEW t \in Mtr, pc[t] # "appended" \/ \A p \in pages[t] : om[p] # 0,
             \A u \in Mtr : u # t =>
                 /\ pc'[u] = pc[u] /\ start'[u] = start[u]
                 /\ pages'[u] = pages[u],
             UNCHANGED <<file, om, logged>>
      PROVE  Accounted'
  BY <1>2, <1>T
<1>3. ASSUME NEW t \in Mtr, Modify(t) PROVE Accounted'
  BY <1>2, <1>3, <1>T DEF Modify, Types
<1>4. ASSUME NEW t \in Mtr, do_write(t) PROVE Accounted'
  <2>1. /\ UNCHANGED <<file, om, pages>>
        /\ \A m \in Lsns : logged'[m] = IF m = lsn THEN pages[t] ELSE logged[m]
        /\ pc[t] # "appended" /\ pc'[t] = "appended" /\ start'[t] = lsn
        /\ \A u \in Mtr : u # t => pc'[u] = pc[u] /\ start'[u] = start[u]
    BY <1>4, <1>T DEF do_write, Types
  <2>2. ASSUME NEW p \in pages[t]
        PROVE  om[p] # 0 => om[p] <= lsn
    BY <1>T DEF Types, PageLsns
  <2> QED BY <1>T, <2>1, <2>2
<1>5. ASSUME NEW t \in Mtr, InsertDirty(t) PROVE Accounted'
  <2>1. /\ UNCHANGED <<file, start, pages, logged>>
        /\ pc[t] = "appended"
        /\ \A u \in Mtr : u # t => pc'[u] = pc[u]
        /\ \A p \in Page : om'[p] = IF p \in pages[t] /\ om[p] = 0
                                    THEN start[t] ELSE om[p]
        /\ start[t] \in Nat /\ start[t] # 0
    BY <1>5, <1>T DEF InsertDirty, Types, Records, HasLsn
  <2> SUFFICES ASSUME NEW m \in Lsns, NEW p \in logged[m]
               PROVE  \/ file[p] > m
                      \/ om'[p] # 0 /\ om'[p] <= m
                      \/ \E u \in Mtr : /\ pc'[u] = "appended" /\ start[u] = m
                                        /\ p \in pages[u] /\ om'[p] = 0
    BY <2>1
  <2>2. p \in Page
    BY <1>T DEF Types
  <2>3. CASE om[p] # 0 /\ om[p] <= m
    BY <2>1, <2>2, <2>3
  <2>4. CASE \E u \in Mtr : /\ pc[u] = "appended" /\ start[u] = m
                            /\ p \in pages[u] /\ om[p] = 0
    <3>1. PICK u \in Mtr : /\ pc[u] = "appended" /\ start[u] = m
                           /\ p \in pages[u] /\ om[p] = 0
      BY <2>4
    <3>2. CASE u = t
      BY <2>1, <2>2, <3>1, <3>2
    <3>3. CASE u # t
      <4>1. p \notin pages[t]
        BY <1>T, <3>1, <3>3, PagesDisjoint
      <4> QED BY <2>1, <2>2, <3>1, <3>3, <4>1
    <3> QED BY <3>2, <3>3
  <2> QED BY <1>T, <2>3, <2>4
<1>6. ASSUME NEW t \in Mtr, Unlatch(t) PROVE Accounted'
  <2>1. pc[t] # "appended" \/ \A p \in pages[t] : om[p] # 0
    BY <1>6, <1>T DEF Unlatch, MadeDirty
  <2> QED BY <1>2, <1>6, <1>T, <2>1 DEF Unlatch, Types
<1>7. ASSUME NEW t \in Mtr, Release(t) PROVE Accounted'
  BY <1>2, <1>7, <1>T DEF Release, Types
<1>8. CASE FlushLog \/ complete_write \/ UNCHANGED vars
  BY <1>1, <1>8 DEF FlushLog, complete_write, vars
<1>9. ASSUME NEW p \in Page, flush(p) \/ submit_io(p) \/ WriteError(p)
      PROVE  Accounted'
  BY <1>1, <1>9 DEF flush, submit_io, WriteError
<1>10. ASSUME NEW p \in Page, write_complete(p) PROVE Accounted'
  <2>1. /\ UNCHANGED <<pc, start, pages, logged>>
        /\ page_lock[p] = Writing
        /\ \A q \in Page : /\ om'[q] = IF q = p THEN 0 ELSE om[q]
                           /\ file'[q] = IF q = p THEN page_lsn[p] ELSE file[q]
    BY <1>10, <1>T DEF write_complete, Types
  <2> SUFFICES ASSUME NEW m \in Lsns, NEW q \in logged[m]
               PROVE  \/ file'[q] > m
                      \/ om'[q] # 0 /\ om'[q] <= m
                      \/ \E u \in Mtr : /\ pc[u] = "appended" /\ start[u] = m
                                        /\ q \in pages[u] /\ om'[q] = 0
    BY <2>1
  <2>2. q \in Page
    BY <1>T DEF Types
  <2>3. CASE q = p
    <3>1. \A u \in Mtr : q \notin pages[u]
      BY <1>T, <2>1, <2>3, PagesDisjoint
    <3>2. page_lsn[q] > m
      BY <3>1 DEF IInv, StampedPages
    <3> QED BY <2>1, <2>2, <2>3, <3>2
  <2>4. CASE q # p
    BY <1>T, <2>1, <2>2, <2>4
  <2> QED BY <2>3, <2>4
<1> QED BY <1>1, <1>3, <1>4, <1>5, <1>6, <1>7, <1>8, <1>9, <1>10,
           CheckpointFrame DEF Next

(* A safe position of a checkpoint remains safe: whatever becomes dirty    *)
(* later has an LSN that is not below it.                                  *)
LEMMA LowWaterStable ==
    ASSUME IInv, [Next]_vars, NEW l \in Nat, LowWater(l)
    PROVE  /\ FIRST_LSN <= l /\ l <= lsn'
           /\ \A p \in Page : om'[p] # 0 => l <= om'[p]
           /\ \A t \in Mtr : pc'[t] = "appended" => l <= start'[t]
<1> DEFINE LW == /\ FIRST_LSN <= l /\ l <= lsn'
                 /\ \A p \in Page : om'[p] # 0 => l <= om'[p]
                 /\ \A t \in Mtr : pc'[t] = "appended" => l <= start'[t]
<1> SUFFICES LW
  OBVIOUS
<1> USE DEF Goto, log, mtr, pool, LowWater, FIRST_LSN, Lsns
<1>T. Types /\ lsn \in Nat
  BY TypeParts DEF IInv, Types
<1>1. CASE /\ UNCHANGED <<om, pc, start>>
           /\ lsn' = lsn \/ lsn' = lsn + 1
  BY <1>1, <1>T
<1>2. ASSUME NEW t \in Mtr, Modify(t) \/ Unlatch(t) \/ Release(t)
      PROVE  LW
  <2>1. UNCHANGED <<om, lsn>> /\ \A u \in Mtr : pc'[u] = "appended" =>
                                    pc[u] = "appended" /\ start'[u] = start[u]
    BY <1>2, <1>T DEF Types, Modify, Unlatch, Release
  <2> QED BY <1>T, <2>1
<1>3. ASSUME NEW t \in Mtr, do_write(t) PROVE LW
  <2>1. /\ UNCHANGED om /\ lsn' = lsn + 1
        /\ \A u \in Mtr : pc'[u] = "appended" =>
             \/ pc[u] = "appended" /\ start'[u] = start[u]
             \/ start'[u] = lsn
    BY <1>3, <1>T DEF Types, do_write
  <2> QED BY <1>T, <2>1
<1>4. ASSUME NEW t \in Mtr, InsertDirty(t) PROVE LW
  <2>1. /\ UNCHANGED <<lsn, start>>
        /\ \A u \in Mtr : pc'[u] = "appended" => pc[u] = "appended"
        /\ pc[t] = "appended"
    BY <1>4, <1>T DEF Types, InsertDirty
  <2>2. \A p \in Page : om'[p] = om[p] \/ om'[p] = start[t]
    BY <1>4, <1>T DEF Types, InsertDirty
  <2> QED BY <1>T, <2>1, <2>2
<1>5. CASE FlushLog \/ complete_write \/ UNCHANGED vars
  BY <1>1, <1>5 DEF FlushLog, complete_write, vars
<1>6. ASSUME NEW p \in Page, flush(p) \/ submit_io(p) \/ WriteError(p)
      PROVE  LW
  BY <1>1, <1>6 DEF flush, submit_io, WriteError
<1>7. ASSUME NEW p \in Page, write_complete(p) PROVE LW
  <2>1. /\ UNCHANGED <<pc, start, lsn>>
        /\ \A q \in Page : om'[q] = 0 \/ om'[q] = om[q]
    BY <1>7, <1>T DEF Types, write_complete
  <2> QED BY <1>T, <2>1
<1> HIDE DEF LW
<1> QED BY <1>1, <1>2, <1>3, <1>4, <1>5, <1>6, <1>7, CheckpointFrame DEF Next

LEMMA CheckpointsStep == IInv /\ [Next]_vars => Checkpoints'
<1> SUFFICES ASSUME IInv, [Next]_vars PROVE Checkpoints'
  OBVIOUS
<1> USE DEF Continue, ckpt, call
<1>T. Types /\ Checkpoints
  BY TypeParts DEF IInv
<1>N. /\ disk_checkpoint \in Nat /\ next_checkpoint_lsn \in Nat
      /\ last_checkpoint_lsn \in Nat /\ lsn \in Nat
      /\ \A c \in Checkpointer : oldest[c] \in Nat
  BY <1>T DEF Types, Lsns, FIRST_LSN
<1> DEFINE LW(l) == /\ FIRST_LSN <= l /\ l <= lsn'
                    /\ \A p \in Page : om'[p] # 0 => l <= om'[p]
                    /\ \A t \in Mtr : pc'[t] = "appended" => l <= start'[t]
<1>L. \A l \in Nat : LowWater(l) => LW(l)
  BY LowWaterStable
<1>P. /\ LowWater(disk_checkpoint)' <=> LW(disk_checkpoint')
      /\ \A c \in Checkpointer : LowWater(oldest[c])' <=> LW(oldest'[c])
      /\ LowWater(next_checkpoint_lsn)' <=> LW(next_checkpoint_lsn')
  BY DEF LowWater
<1> HIDE DEF LW
<1>1. CASE UNCHANGED <<ckpt, cpc, oldest>>
  BY <1>1, <1>T, <1>N, <1>L, <1>P DEF Checkpoints
<1>2. ASSUME NEW c \in Checkpointer, FsyncData(c) \/ clear_flush(c)
      PROVE  Checkpoints'
  <2>1. /\ UNCHANGED <<ckpt, oldest>>
        /\ cpc[c] \notin {"header", "complete", "log", "decide"}
        /\ cpc'[c] \notin {"header", "complete", "log", "decide"}
        /\ \A d \in Checkpointer : d # c => cpc'[d] = cpc[d]
    BY <1>2, <1>T DEF FsyncData, clear_flush, Types
  <2> QED BY <2>1, <1>T, <1>N, <1>L, <1>P DEF Checkpoints
<1>3. ASSUME NEW c \in Checkpointer, LogFlushed(c) PROVE Checkpoints'
  <2>1. /\ UNCHANGED <<ckpt, oldest>>
        /\ cpc[c] = "log" /\ cpc'[c] = "decide"
        /\ \A d \in Checkpointer : d # c => cpc'[d] = cpc[d]
    BY <1>3, <1>T DEF LogFlushed, Types
  <2> QED BY <2>1, <1>T, <1>N, <1>L, <1>P DEF Checkpoints
<1>4. ASSUME NEW c \in Checkpointer, DetermineOldest(c) PROVE Checkpoints'
  <2> DEFINE old == get_oldest_modification(lsn)
  <2>1. old \in Nat /\ LowWater(old)
    <3>1. old \in FIRST_LSN .. lsn /\ \A p \in Page : om[p] # 0 => old <= om[p]
      BY <1>T, OldestModification DEF IInv, Checkpoints
    <3>2. \A t \in Mtr : pc[t] # "appended"
      BY <1>4 DEF DetermineOldest, IInv, Latches
    <3> HIDE DEF old
    <3> QED BY <1>N, <3>1, <3>2 DEF LowWater, FIRST_LSN
  <2>2. LW(old)
    BY <1>L, <2>1
  <2>3. /\ UNCHANGED ckpt
        /\ cpc[c] = "oldest" /\ cpc'[c] \in {"idle", "log"}
        /\ \A d \in Checkpointer : d # c => cpc'[d] = cpc[d]
        /\ \A d \in Checkpointer : d # c => oldest'[d] = oldest[d]
        /\ cpc'[c] = "log" => oldest'[c] = old
    BY <1>4, <1>T DEF DetermineOldest, Types
  <2> HIDE DEF old
  <2> QED BY <2>2, <2>3, <1>T, <1>N, <1>L, <1>P DEF Checkpoints
<1>5. ASSUME NEW c \in Checkpointer, Decide(c) PROVE Checkpoints'
  <2>1. /\ UNCHANGED <<last_checkpoint_lsn, disk_checkpoint>>
        /\ cpc[c] = "decide"
        /\ \A d \in Checkpointer : d # c => cpc'[d] = cpc[d]
        /\ \A d \in Checkpointer : d # c => oldest'[d] = oldest[d]
    BY <1>5, <1>T DEF Decide, Types
  <2>2. \/ /\ cpc'[c] = "idle"
           /\ UNCHANGED <<next_checkpoint_lsn, checkpoint_pending>>
        \/ /\ cpc'[c] = "header" /\ ~checkpoint_pending /\ checkpoint_pending'
           /\ next_checkpoint_lsn' = oldest[c]
           /\ ~(last_checkpoint_lsn >= oldest[c])
    BY <1>5, <1>T DEF Decide, Types
  <2>3. CASE cpc'[c] = "idle"
    BY <2>1, <2>2, <2>3, <1>T, <1>N, <1>L, <1>P DEF Checkpoints
  <2>4. CASE cpc'[c] = "header"
    <3>1. LowWater(oldest[c]) /\ disk_checkpoint = last_checkpoint_lsn
      BY <1>T, <2>1, <2>2, <2>4 DEF Checkpoints
    <3>2. \A d \in Checkpointer : d # c => cpc'[d] \notin {"header", "complete"}
      BY <1>T, <2>1, <2>2, <2>4 DEF Checkpoints
    <3>3. disk_checkpoint' <= next_checkpoint_lsn'
      BY <1>N, <2>1, <2>2, <2>4, <3>1
    <3> QED BY <2>1, <2>2, <2>4, <3>1, <3>2, <3>3, <1>T, <1>N, <1>L, <1>P
            DEF Checkpoints
  <2> QED BY <2>2, <2>3, <2>4
<1>6. ASSUME NEW c \in Checkpointer, WriteHeader(c) PROVE Checkpoints'
  <2>1. /\ UNCHANGED <<last_checkpoint_lsn, next_checkpoint_lsn,
                       checkpoint_pending, oldest>>
        /\ cpc[c] = "header" /\ cpc'[c] = "complete"
        /\ disk_checkpoint' = next_checkpoint_lsn
        /\ \A d \in Checkpointer : d # c => cpc'[d] = cpc[d]
    BY <1>6, <1>T DEF WriteHeader, Types
  <2>2. /\ LowWater(next_checkpoint_lsn)
        /\ disk_checkpoint <= next_checkpoint_lsn
        /\ checkpoint_pending
        /\ \A d \in Checkpointer : d # c => cpc[d] \notin {"header", "complete"}
    BY <1>T, <2>1 DEF Checkpoints
  <2> QED BY <2>1, <2>2, <1>T, <1>N, <1>L, <1>P DEF Checkpoints
<1>7. ASSUME NEW c \in Checkpointer, CompleteCheckpoint(c) PROVE Checkpoints'
  <2>1. /\ UNCHANGED <<disk_checkpoint, next_checkpoint_lsn, oldest>>
        /\ cpc[c] = "complete" /\ cpc'[c] = "idle"
        /\ ~checkpoint_pending'
        /\ last_checkpoint_lsn' = next_checkpoint_lsn
        /\ \A d \in Checkpointer : d # c => cpc'[d] = cpc[d]
    BY <1>7, <1>T DEF CompleteCheckpoint, Types
  <2>2. \A d \in Checkpointer : d # c => cpc[d] \notin {"header", "complete"}
    BY <1>T, <2>1 DEF Checkpoints
  <2> QED BY <2>1, <2>2, <1>T, <1>N, <1>L, <1>P DEF Checkpoints
<1>8. ASSUME NEW t \in Mtr, \/ Modify(t) \/ do_write(t) \/ InsertDirty(t)
                            \/ Unlatch(t) \/ Release(t)
      PROVE  Checkpoints'
  BY <1>1, <1>8 DEF Modify, do_write, InsertDirty, Unlatch, Release
<1>9. ASSUME NEW p \in Page,
             \/ flush(p) \/ submit_io(p) \/ write_complete(p) \/ WriteError(p)
      PROVE  Checkpoints'
  BY <1>1, <1>9 DEF flush, submit_io, write_complete, WriteError
<1>10. CASE FlushLog \/ complete_write \/ UNCHANGED vars
  BY <1>1, <1>10 DEF FlushLog, complete_write, vars
<1> QED BY <1>2, <1>3, <1>4, <1>5, <1>6, <1>7, <1>8, <1>9, <1>10 DEF Next

LEMMA InitIInv == Init => IInv
<1> SUFFICES ASSUME Init PROVE IInv
  OBVIOUS
<1> USE MaxLsnAssumption, MaxCompletingAssumption, MtrAssumption
    DEF Init, Lsns, FIRST_LSN
<1>1. Types
  <2>1. page_lock \in [Page -> Mtr \cup {Free, Io, Writing}]
    OBVIOUS
  <2>2. /\ page_lsn \in [Page -> Lsns] /\ om \in [Page -> Lsns]
        /\ file \in [Page -> Lsns] /\ durable \in [Page -> Lsns]
        /\ logged \in [Lsns -> SUBSET Page]
    OBVIOUS
  <2>3. /\ lsn \in FIRST_LSN .. MaxLsn /\ flushed_lsn \in FIRST_LSN .. MaxLsn
        /\ last_checkpoint_lsn \in FIRST_LSN .. MaxLsn
        /\ next_checkpoint_lsn \in FIRST_LSN .. MaxLsn
        /\ disk_checkpoint \in FIRST_LSN .. MaxLsn
        /\ completing \in 0 .. MaxCompleting
    OBVIOUS
  <2>4. /\ pc \in [Mtr -> {"idle", "modified", "appended", "inserted",
                           "unlatched"}]
        /\ pages \in [Mtr -> SUBSET Page] /\ start \in [Mtr -> Lsns]
        /\ made_dirty \in [Mtr -> BOOLEAN]
    OBVIOUS
  <2>5. /\ cpc \in [Checkpointer -> {"idle", "clear", "oldest", "log", "decide",
                                     "header", "complete"}]
        /\ oldest \in [Checkpointer -> Lsns] /\ limit \in [Checkpointer -> Lsns]
    OBVIOUS
  <2>6. latch \subseteq Mtr /\ checkpoint_pending \in BOOLEAN
        /\ needs_fsync \in BOOLEAN
    OBVIOUS
  <2> QED BY ONLY <2>1, <2>2, <2>3, <2>4, <2>5, <2>6 DEF Types
<1>2. ListOK
  BY EmptySeq DEF ListOK, IsInjective, ToSet
<1>3. Latches /\ MadeDirty /\ Records
  BY DEF Latches, MadeDirty, Records, HasLsn, Free, Io, Writing
<1>4. PageLsns /\ StampedPages /\ Accounted
  BY DEF PageLsns, StampedPages, Accounted, HasLsn
<1>5. FlushListSorted
  BY DEF FlushListSorted
<1>6. Checkpoints
  BY DEF Checkpoints, LowWater
<1> QED BY <1>1, <1>2, <1>3, <1>4, <1>5, <1>6, TypeParts DEF IInv

(* The inductive invariant of mini-transactions and checkpoints: who holds *)
(* the latches, that m_made_dirty stays right, how the LSNs of records and *)
(* pages are ordered, that every record is in the data file, on the flush  *)
(* list or about to be, and where concurrent checkpoints are.              *)
THEOREM Invariance == Spec => []IInv
<1>1. IInv /\ [Next]_vars => IInv'
  <2> SUFFICES ASSUME IInv, [Next]_vars PROVE IInv'
    OBVIOUS
  <2>1. TypeOK'
    BY TypesStep, ListStep DEF TypeOK, Types, ListOK
  <2> QED BY <2>1, ListStep, LatchesStep, MadeDirtyStep, RecordsStep,
             PageLsnsStep, StampedPagesStep, AccountedStep, CheckpointsStep
          DEF IInv
<1> QED BY <1>1, InitIInv, PTL DEF Spec

(* Every variable keeps its type, and the flush list always holds exactly  *)
(* the pages with a nonzero oldest_modification(), once each, although     *)
(* mini-transactions insert pages concurrently with the page writes that   *)
(* remove them.                                                            *)
THEOREM TypeCorrect == Spec => []TypeOK
<1>1. IInv => TypeOK
  BY DEF IInv
<1> QED BY <1>1, Invariance, PTL

(* prepare_insert_into_flush_list() keeps the flush list sorted, in        *)
(* whatever order the mini-transactions arrive with their LSNs.            *)
THEOREM FlushListAlwaysSorted == Spec => []FlushListSorted
<1>1. IInv => FlushListSorted
  BY DEF IInv
<1> QED BY <1>1, Invariance, PTL

(* The checkpoint in the log header never passes a change that is not in   *)
(* its data file: a record below it is neither held back by a dirty page   *)
(* nor by a mini-transaction on its way to the flush list, because         *)
(* log_checkpoint() reads the oldest modification under the exclusive      *)
(* latch, which no such mini-transaction shares.                           *)
THEOREM CheckpointAlwaysCovered == Spec => []CheckpointCovered
<1>1. IInv => CheckpointCovered
  <2> SUFFICES ASSUME IInv, NEW m \in Lsns, m < disk_checkpoint,
                      NEW p \in logged[m]
               PROVE  file[p] > m
    BY DEF CheckpointCovered, Covered
  <2>T. Types
    BY TypeParts DEF IInv
  <2>N. m \in Nat /\ disk_checkpoint \in Nat
    BY <2>T DEF Types, Lsns, FIRST_LSN
  <2>P. p \in Page
    BY <2>T DEF Types
  <2>F. om \in [Page -> Nat] /\ start \in [Mtr -> Nat]
    BY <2>T DEF Types, Lsns, FIRST_LSN
  <2>1. /\ p \in Page /\ om \in [Page -> Nat] /\ start \in [Mtr -> Nat]
        /\ disk_checkpoint \in Nat /\ m \in Nat
    BY <2>N, <2>P, <2>F
  <2>2. LowWater(disk_checkpoint)
    BY DEF IInv, Checkpoints
  <2>3. ~(om[p] # 0 /\ om[p] <= m)
    BY <2>1, <2>2 DEF LowWater
  <2>4. \A t \in Mtr : pc[t] = "appended" => start[t] # m
    BY <2>1, <2>2 DEF LowWater
  <2> QED BY <2>3, <2>4 DEF IInv, Accounted
<1> QED BY <1>1, Invariance, PTL

(* Nothing enters the flush list behind the checkpoint, what               *)
(* prepare_insert_into_flush_list() and log_checkpoint_low() assert.       *)
THEOREM AlwaysInsertAboveCheckpoint == Spec => []InsertAboveCheckpoint
<1>1. IInv => InsertAboveCheckpoint
  BY TypeParts DEF IInv, Checkpoints, LowWater, InsertAboveCheckpoint, Types,
                   Lsns, FIRST_LSN
<1> QED BY <1>1, Invariance, PTL

(* Write-ahead logging: the log of the last change of a page is durable    *)
(* when the page is in its file, and from the end of the wait in flush()   *)
(* on, since the U-latch keeps mini-transactions from changing the page.   *)
WriteAhead ==
    \A p \in Page : /\ file[p] <= flushed_lsn
                    /\ page_lock[p] = Writing => page_lsn[p] <= flushed_lsn

LEMMA WriteAheadStep == IInv /\ WriteAhead /\ [Next]_vars => WriteAhead'
<1> SUFFICES ASSUME IInv, WriteAhead, [Next]_vars PROVE WriteAhead'
  OBVIOUS
<1>T. Types /\ Latches
  BY TypeParts DEF IInv
<1> USE DEF log, pool, disk, FIRST_LSN, Lsns
<1>1. CASE UNCHANGED <<file, flushed_lsn, page_lock, page_lsn>>
  BY <1>1 DEF WriteAhead
<1>2. CASE FlushLog
  BY <1>2, <1>T DEF FlushLog, WriteAhead, Types
<1>3. ASSUME NEW p \in Page, submit_io(p) PROVE WriteAhead'
  BY <1>3, <1>T DEF submit_io, WriteAhead, Types
<1>4. ASSUME NEW p \in Page, write_complete(p) PROVE WriteAhead'
  BY <1>4, <1>T DEF write_complete, WriteAhead, Types, Free, Writing
<1>5. ASSUME NEW p \in Page, flush(p) \/ WriteError(p) PROVE WriteAhead'
  BY <1>5, <1>T DEF flush, WriteError, WriteAhead, Types, Free, Io, Writing
<1>6. ASSUME NEW t \in Mtr, Modify(t) PROVE WriteAhead'
  <2>1. \A p \in Page : page_lock'[p] = Writing => page_lock[p] = Writing
    BY <1>6, <1>T, MtrAssumption DEF Modify, Types
  <2> QED BY <1>6, <2>1 DEF Modify, WriteAhead
<1>7. ASSUME NEW t \in Mtr, InsertDirty(t) \/ Release(t) PROVE WriteAhead'
  <2>1. \A p \in Page : page_lock'[p] = Writing =>
                           page_lock[p] = Writing /\ p \notin pages[t]
    <3>1. \A p \in Page : page_lock[p] = Writing => p \notin pages[t]
      BY <1>T, PagesDisjoint
    <3>2. \A p \in Page : page_lock'[p] = page_lock[p] \/ page_lock'[p] = Free
      BY <1>7, <1>T DEF InsertDirty, Release, Types
    <3> QED BY <3>1, <3>2 DEF Free, Writing
  <2>2. \A p \in Page : p \notin pages[t] => page_lsn'[p] = page_lsn[p]
    BY <1>7, <1>T DEF InsertDirty, Release, Stamped, Types
  <2>3. UNCHANGED <<file, flushed_lsn>>
    BY <1>7 DEF InsertDirty, Release
  <2> QED BY <2>1, <2>2, <2>3 DEF WriteAhead
<1>8. ASSUME NEW t \in Mtr, do_write(t) \/ Unlatch(t) PROVE WriteAhead'
  BY <1>1, <1>8 DEF do_write, Unlatch
<1>9. ASSUME NEW c \in Checkpointer,
             \/ FsyncData(c) \/ clear_flush(c) \/ DetermineOldest(c)
             \/ LogFlushed(c) \/ Decide(c) \/ WriteHeader(c)
             \/ CompleteCheckpoint(c)
      PROVE  WriteAhead'
  BY <1>1, <1>9 DEF FsyncData, clear_flush, DetermineOldest, LogFlushed,
                    Decide, WriteHeader, CompleteCheckpoint
<1>10. CASE complete_write \/ UNCHANGED vars
  BY <1>1, <1>10 DEF complete_write, vars
<1> QED BY <1>2, <1>3, <1>4, <1>5, <1>6, <1>7, <1>8, <1>9, <1>10 DEF Next

(* A server that is killed at any moment recovers the changes of exactly   *)
(* the durable log records: what is below the checkpoint was written, what *)
(* is above it is replayed, and buf_page_t::flush() lets nothing into a    *)
(* data file that lies behind the end of the durable log.                  *)
THEOREM AlwaysRecoveryExact == Spec => []RecoveryExact
<1>1. Init => WriteAhead
  BY DEF Init, WriteAhead, FIRST_LSN, Free, Writing
<1>2. Spec => []WriteAhead
  BY <1>1, WriteAheadStep, Invariance, PTL DEF Spec
<1>3. IInv /\ WriteAhead /\ CheckpointCovered => RecoveryExact
  <2> SUFFICES ASSUME IInv, WriteAhead, CheckpointCovered,
                      NEW m \in Lsns, NEW p \in logged[m]
               PROVE  (file[p] > m \/ m \in disk_checkpoint .. flushed_lsn - 1)
                          <=> m < flushed_lsn
    BY DEF RecoveryExact
  <2>T. Types
    BY TypeParts DEF IInv
  <2>1. /\ m \in Nat /\ disk_checkpoint \in Nat /\ flushed_lsn \in Nat
        /\ p \in Page /\ file[p] \in Nat
    <3>1. m \in Nat /\ disk_checkpoint \in Nat /\ flushed_lsn \in Nat
      BY <2>T DEF Types, Lsns, FIRST_LSN
    <3>2. p \in Page
      BY <2>T DEF Types
    <3>3. file \in [Page -> Nat]
      BY <2>T DEF Types, Lsns
    <3> QED BY <3>1, <3>2, <3>3
  <2>2. m < disk_checkpoint => file[p] > m
    BY DEF CheckpointCovered, Covered
  <2>3. file[p] <= flushed_lsn
    BY <2>1 DEF WriteAhead
  <2> QED BY <2>1, <2>2, <2>3
<1> QED BY <1>2, <1>3, Invariance, CheckpointAlwaysCovered, PTL

(* The checkpoint in the log header never moves back, however many threads *)
(* execute log_checkpoint() and whichever of them is the last to decide.   *)
THEOREM CheckpointNeverMovesBack == Spec => CheckpointMonotonic
<1>1. IInv /\ [Next]_vars => [disk_checkpoint' >= disk_checkpoint]_vars
  <2> SUFFICES ASSUME IInv, Next PROVE disk_checkpoint' >= disk_checkpoint
    OBVIOUS
  <2>1. disk_checkpoint \in Nat
    BY TypeParts DEF IInv, Types, FIRST_LSN
  <2> USE DEF ckpt
  <2>2. CASE UNCHANGED disk_checkpoint
    BY <2>1, <2>2
  <2>3. ASSUME NEW c \in Checkpointer, WriteHeader(c)
        PROVE  disk_checkpoint' >= disk_checkpoint
    BY <2>1, <2>3 DEF WriteHeader, Continue, IInv, Checkpoints
  <2>4. ASSUME NEW c \in Checkpointer,
               \/ FsyncData(c) \/ clear_flush(c) \/ DetermineOldest(c)
               \/ LogFlushed(c) \/ Decide(c) \/ CompleteCheckpoint(c)
        PROVE  UNCHANGED disk_checkpoint
    BY <2>4 DEF FsyncData, clear_flush, DetermineOldest, LogFlushed, Decide,
                CompleteCheckpoint
  <2>5. ASSUME NEW t \in Mtr, \/ Modify(t) \/ do_write(t) \/ InsertDirty(t)
                              \/ Unlatch(t) \/ Release(t)
        PROVE  UNCHANGED disk_checkpoint
    BY <2>5 DEF Modify, do_write, InsertDirty, Unlatch, Release
  <2>6. ASSUME NEW p \in Page,
               \/ flush(p) \/ submit_io(p) \/ write_complete(p) \/ WriteError(p)
        PROVE  UNCHANGED disk_checkpoint
    BY <2>6 DEF flush, submit_io, write_complete, WriteError
  <2>7. CASE FlushLog \/ complete_write
    BY <2>2, <2>7 DEF FlushLog, complete_write
  <2> QED BY <2>2, <2>3, <2>4, <2>5, <2>6, <2>7 DEF Next
<1> QED BY <1>1, Invariance, PTL DEF Spec, CheckpointMonotonic
=============================================================================
