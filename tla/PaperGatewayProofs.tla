------------------------- MODULE PaperGatewayProofs -------------------------
(***************************************************************************)
(* The safety of the paper gateway, for every set of calls and keys, all   *)
(* prices and any number of failed saves and restarts.                     *)
(*                                                                         *)
(* Orders: the file, the snapshots in the queue and memory are versions of *)
(* one book in the order they were made, and no version takes back what an *)
(* older one says (InOrder).  So whatever a restart reads, it says at      *)
(* least what the file said when somebody was answered.  The newest one is *)
(* memory, from which repeated calls are answered (MemoryOK).              *)
(*                                                                         *)
(* Capital: what a settlement covers was closed on disk, and what it does  *)
(* not cover was created after it (Grounded).  So an entry that memory     *)
(* counts as settled is flat, and admission counts all the others.         *)
(***************************************************************************)
EXTENDS PaperGateway, SequenceTheorems, FiniteSetTheorems, WellFoundedInduction, TLAPS

Known(o) == o.status \notin {"NONE", "RISK_ACCEPTED"}

\* Versions of the book: what the adapter has not taken is not filled.
Orderly(o) ==
  /\ o.status \in {"NONE", "RISK_ACCEPTED", "REJECTED"} => o.filled = 0
  /\ o.status = "FILLED" <=> o.filled = Lots
Versions == {book \in Books : \A k \in Keys : Orderly(book[k])}
Write == [snapshot : Versions, by : Calls]

\* Orders, queue and calls are what they look like.
StoreOK ==
  /\ orders \in Versions /\ file \in Versions /\ writes \in Seq(Write) /\ now \in 0 .. MaxTime
  /\ pc \in [Calls -> PCs] /\ job \in [Calls -> Keys \cup {NoKey}] /\ copy \in [Calls -> Order]
  /\ submitted \in [Keys -> Nat] /\ overlapped \in BOOLEAN
  /\ told \in [Keys -> News] /\ recalled \in [Keys -> News] /\ unsaved \in BOOLEAN

Closed == {"FILLED", "CANCELED", "REJECTED"}

\* A later version b says what a says; fills may be lost once `lost' is true.
Follows(lost, o, n) ==
  /\ o.status # "NONE" => n.status # "NONE" /\ n.createdAt = o.createdAt
  /\ Known(o) => Known(n)
  /\ o.status \in Closed => n.status \in Closed
  /\ o.status = "CANCELED" => n.status = "CANCELED"
  /\ ~lost => o.filled <= n.filled
Advances(lost, a, b) == \A k \in Keys : Follows(lost, a[k], b[k])

InOrder(lost, f, ws, o) ==
  /\ Advances(lost, f, o)
  /\ \A i \in 1 .. Len(ws) : Advances(lost, f, ws[i].snapshot) /\ Advances(lost, ws[i].snapshot, o)
  /\ \A i, j \in 1 .. Len(ws) : i < j => Advances(lost, ws[i].snapshot, ws[j].snapshot)

\* Every queued snapshot is awaited by one call and has what that call did.
Saving == {"creating", "accepting", "rejecting", "filling", "cancelling"}
Waits(ws, pcs, jobs) ==
  /\ \A i \in 1 .. Len(ws) :
       LET p == ws[i].by  o == ws[i].snapshot[jobs[p]] IN
       /\ pcs[p] \in Saving /\ jobs[p] \in Keys
       /\ o.status # "NONE"
       /\ pcs[p] \in {"accepting", "filling"} => Known(o)
       /\ pcs[p] = "cancelling" => o.status = "CANCELED"
  /\ \A i, j \in 1 .. Len(ws) : ws[i].by = ws[j].by => i = j

\* An order being created is nobody else's, and the adapter has not seen it.
CreatingOK ==
  \A p \in Calls : pc[p] = "creating" =>
    /\ job[p] \in Keys
    /\ orders[job[p]].status = "RISK_ACCEPTED" /\ submitted[job[p]] = 0
    /\ \A q \in Calls \ {p} : pc[q] = "creating" => job[q] # job[p]

\* While the adapter answers a cancel, only a fill makes the order held out of date.
AdapterOK ==
  \A p \in Calls : pc[p] = "atAdapter" =>
    /\ job[p] \in Keys /\ Known(orders[job[p]])
    /\ copy[p].createdAt = orders[job[p]].createdAt /\ copy[p].filled # Lots
    /\ ~overlapped => copy[p].filled = orders[job[p]].filled

SubmittedOK == \A k \in Keys : submitted[k] <= 1 /\ (submitted[k] = 1 => file[k].status # "NONE")

\* An order says what is told of it.
Upholds(lost, news, o) ==
  /\ news.placed => Known(o)
  /\ news.canceled => o.status = "CANCELED"
  /\ ~lost => o.filled >= news.filled

\* Memory says what was answered from it, and is the newest snapshot in the queue, or
\* in the file when none is queued and the last save succeeded.
MemoryOK ==
  /\ \A k \in Keys : Upholds(overlapped, recalled[k], orders[k])
  /\ writes # <<>> => writes[Len(writes)].snapshot = orders
  /\ AllSaved => \A k \in Keys : file[k].status = orders[k].status /\ file[k].filled = orders[k].filled

IInv ==
  /\ StoreOK
  /\ InOrder(overlapped, file, writes, orders)
  /\ Waits(writes, pc, job)
  /\ CreatingOK /\ AdapterOK
  /\ SubmittedOK /\ DoneIsDurable /\ MemoryOK

-----------------------------------------------------------------------------
(* The queue.                                                              *)

\* The first of a sequence removed.
LEMMA Removed ==
  ASSUME NEW S, NEW s \in Seq(S), 1 \in DOMAIN s
  PROVE  LET r == RemoveAt(s, 1) IN
         /\ r \in Seq(S) /\ Len(r) = Len(s) - 1
         /\ \A i \in 1 .. Len(r) : r[i] = s[i + 1]
<1>1. Len(s) \in Nat /\ Len(s) >= 1 /\ 1 - 1 = 0 /\ 1 + 1 = 2
  OBVIOUS
<1>2. RemoveAt(s, 1) = SubSeq(s, 1, 0) \o SubSeq(s, 2, Len(s))
  BY <1>1 DEF RemoveAt
<1>3. SubSeq(s, 1, 0) = <<>>
  BY SubSeqEmpty
<1>4. \A i \in 2 .. Len(s) : s[i] \in S
  OBVIOUS
<1>5. /\ SubSeq(s, 2, Len(s)) \in Seq(S)
      /\ Len(SubSeq(s, 2, Len(s))) = IF 2 <= Len(s) THEN Len(s) - 2 + 1 ELSE 0
      /\ \A i \in 1 .. Len(s) - 2 + 1 : SubSeq(s, 2, Len(s))[i] = s[2 + i - 1]
  <2>1. Len(s) \in Int /\ 2 \in Int
    BY <1>1
  <2> QED BY <1>4, <2>1, SubSeqProperties
<1>6. RemoveAt(s, 1) = SubSeq(s, 2, Len(s))
  BY <1>2, <1>3, <1>5, ConcatEmptySeq
<1> DEFINE v == SubSeq(s, 2, Len(s))
<1> HIDE DEF v
<1>7. Len(v) = Len(s) - 1
  <2>1. Len(v) = IF 2 <= Len(s) THEN Len(s) - 2 + 1 ELSE 0
    BY <1>5 DEF v
  <2>2. \A n \in Nat : n >= 1 => (IF 2 <= n THEN n - 2 + 1 ELSE 0) = n - 1
    OBVIOUS
  <2> QED BY <1>1, <2>1, <2>2, Zenon
<1>8. ASSUME NEW i \in 1 .. Len(v)  PROVE v[i] = s[i + 1]
  <2>1. i \in 1 .. Len(s) - 2 + 1 /\ 2 + i - 1 = i + 1
    BY <1>1, <1>7
  <2> QED BY <1>5, <2>1 DEF v
<1> QED BY <1>5, <1>6, <1>7, <1>8 DEF v

\* A newer version follows all versions there are.
LEMMA Appended ==
  ASSUME NEW lost \in BOOLEAN, NEW f \in Versions, NEW ws \in Seq(Write), NEW o \in Versions,
         NEW book \in Versions, NEW p \in Calls,
         InOrder(lost, f, ws, o), Advances(lost, o, book)
  PROVE  InOrder(lost, f, Append(ws, [snapshot |-> book, by |-> p]), book)
<1> DEFINE w == [snapshot |-> book, by |-> p]
           vs == Append(ws, w)
<1>1. /\ Len(vs) = Len(ws) + 1 /\ vs[Len(ws) + 1] = w
      /\ \A i \in 1 .. Len(ws) : vs[i] = ws[i] /\ ws[i] \in Write
  <2>1. w \in Write
    BY DEF Write
  <2> HIDE DEF w
  <2> QED BY <2>1, AppendProperties
<1>2. ASSUME NEW a \in Versions, Advances(lost, a, o)  PROVE Advances(lost, a, book)
  BY <1>2 DEF Advances, Follows, Versions, Books, Order, Known
<1>3. Advances(lost, book, book)
  BY DEF Advances, Follows, Versions, Books, Order
<1>4. \A i \in 1 .. Len(ws) : ws[i].snapshot \in Versions
  BY <1>1 DEF Write
<1>5. \A i \in 1 .. Len(ws) : Advances(lost, ws[i].snapshot, book)
  BY <1>2, <1>4 DEF InOrder
<1>6. Advances(lost, f, book)
  BY <1>2 DEF InOrder
<1>7. \A i \in 1 .. Len(vs) : i \in 1 .. Len(ws) \/ i = Len(ws) + 1
  BY <1>1
<1>8. \A i \in 1 .. Len(vs) : Advances(lost, f, vs[i].snapshot) /\ Advances(lost, vs[i].snapshot, book)
  BY <1>1, <1>3, <1>5, <1>6, <1>7 DEF InOrder
<1>9. ASSUME NEW i \in 1 .. Len(vs), NEW j \in 1 .. Len(vs), i < j
      PROVE  Advances(lost, vs[i].snapshot, vs[j].snapshot)
  <2>1. i \in 1 .. Len(ws)
    BY <1>1, <1>9
  <2>2. CASE j \in 1 .. Len(ws)
    BY <1>1, <1>9, <2>1, <2>2 DEF InOrder
  <2>3. CASE j = Len(ws) + 1
    BY <1>1, <1>5, <2>1, <2>3
  <2> QED BY <1>7, <2>2, <2>3
<1> QED BY <1>6, <1>8, <1>9 DEF InOrder

\* Without its first snapshot, from the old file or from that snapshot.
LEMMA Dropped ==
  ASSUME NEW lost \in BOOLEAN, NEW f \in Versions, NEW ws \in Seq(Write), NEW o \in Versions,
         1 \in DOMAIN ws, InOrder(lost, f, ws, o)
  PROVE  /\ InOrder(lost, f, RemoveAt(ws, 1), o)
         /\ InOrder(lost, ws[1].snapshot, RemoveAt(ws, 1), o)
<1> DEFINE rest == RemoveAt(ws, 1)
<1>1. Len(rest) = Len(ws) - 1 /\ \A i \in 1 .. Len(rest) : rest[i] = ws[i + 1]
  BY Removed
<1>2. \A i \in 1 .. Len(rest) : i + 1 \in 2 .. Len(ws)
  BY <1>1
<1>3. /\ \A i \in 1 .. Len(ws) : Advances(lost, f, ws[i].snapshot) /\ Advances(lost, ws[i].snapshot, o)
      /\ Advances(lost, f, o) /\ 1 \in 1 .. Len(ws)
  BY DEF InOrder
<1>4. \A i, j \in 1 .. Len(ws) : i < j => Advances(lost, ws[i].snapshot, ws[j].snapshot)
  BY DEF InOrder
<1> HIDE DEF rest
<1>5. ASSUME NEW i \in 1 .. Len(rest)
      PROVE  /\ Advances(lost, f, rest[i].snapshot) /\ Advances(lost, rest[i].snapshot, o)
             /\ Advances(lost, ws[1].snapshot, rest[i].snapshot)
  <2>1. i + 1 \in 1 .. Len(ws) /\ 1 < i + 1 /\ rest[i] = ws[i + 1]
    BY <1>1, <1>2
  <2> QED BY <2>1, <1>3, <1>4
<1>6. ASSUME NEW i \in 1 .. Len(rest), NEW j \in 1 .. Len(rest), i < j
      PROVE  Advances(lost, rest[i].snapshot, rest[j].snapshot)
  <2>1. i + 1 \in 1 .. Len(ws) /\ rest[i] = ws[i + 1]
    BY <1>1, <1>2
  <2>2. j + 1 \in 1 .. Len(ws) /\ rest[j] = ws[j + 1]
    BY <1>1, <1>2
  <2>3. i + 1 < j + 1
    BY <1>6
  <2> QED BY <2>1, <2>2, <2>3, <1>4
<1> QED BY <1>3, <1>5, <1>6 DEF rest, InOrder

\* What is in order stays in order when fills may be lost.
LEMMA Relaxed ==
  ASSUME NEW f, NEW ws, NEW o, NEW lost, NEW later, lost => later, InOrder(lost, f, ws, o)
  PROVE  InOrder(later, f, ws, o)
BY DEF InOrder, Advances, Follows

\* A call that was not waiting adds its snapshot to the queue.
LEMMA Pushed ==
  ASSUME NEW ws \in Seq(Write), NEW pcs, NEW jobs, NEW qcs, NEW kobs, NEW book \in Versions,
         NEW p \in Calls, Waits(ws, pcs, jobs), pcs[p] \notin Saving,
         \A q \in Calls \ {p} : qcs[q] = pcs[q] /\ kobs[q] = jobs[q],
         qcs[p] \in Saving, kobs[p] \in Keys, book[kobs[p]].status # "NONE",
         qcs[p] \in {"accepting", "filling"} => Known(book[kobs[p]]),
         qcs[p] = "cancelling" => book[kobs[p]].status = "CANCELED"
  PROVE  Waits(Append(ws, [snapshot |-> book, by |-> p]), qcs, kobs)
<1> DEFINE w == [snapshot |-> book, by |-> p]
           vs == Append(ws, w)
<1>1. /\ Len(ws) \in Nat /\ Len(vs) = Len(ws) + 1 /\ vs[Len(ws) + 1] = w
      /\ \A i \in 1 .. Len(ws) : vs[i] = ws[i] /\ ws[i] \in Write
  <2>1. w \in Write
    BY DEF Write
  <2> HIDE DEF w
  <2> QED BY <2>1, AppendProperties
<1>2. \A i \in 1 .. Len(vs) : i \in 1 .. Len(ws) \/ i = Len(ws) + 1
  BY <1>1
<1>3. \A i \in 1 .. Len(ws) : ws[i].by \in Calls \ {p}
  BY <1>1 DEF Waits, Write
<1>4. w.by = p /\ w.snapshot = book
  OBVIOUS
<1> HIDE DEF w, vs
<1>5. ASSUME NEW i \in 1 .. Len(vs)
      PROVE  LET c == vs[i].by  o == vs[i].snapshot[kobs[c]] IN
             /\ qcs[c] \in Saving /\ kobs[c] \in Keys
             /\ o.status # "NONE"
             /\ qcs[c] \in {"accepting", "filling"} => Known(o)
             /\ qcs[c] = "cancelling" => o.status = "CANCELED"
  <2>1. CASE i \in 1 .. Len(ws)
    BY <1>1, <1>3, <2>1 DEF Waits
  <2>2. CASE i = Len(ws) + 1
    BY <1>1, <1>4, <2>2
  <2> QED BY <1>2, <2>1, <2>2
<1>6. ASSUME NEW i \in 1 .. Len(vs), NEW j \in 1 .. Len(vs), vs[i].by = vs[j].by
      PROVE  i = j
  <2>1. CASE i \in 1 .. Len(ws) /\ j \in 1 .. Len(ws)
    BY <1>1, <1>6, <2>1 DEF Waits
  <2>2. CASE i \in 1 .. Len(ws) /\ j = Len(ws) + 1
    BY <1>1, <1>3, <1>4, <1>6, <2>2
  <2>3. CASE i = Len(ws) + 1 /\ j \in 1 .. Len(ws)
    BY <1>1, <1>3, <1>4, <1>6, <2>3
  <2> QED BY <1>2, <2>1, <2>2, <2>3
<1> QED BY <1>5, <1>6 DEF Waits, vs, w

\* The first snapshot leaves, and its call does something else.
LEMMA Popped ==
  ASSUME NEW ws \in Seq(Write), NEW pcs, NEW jobs, NEW qcs, NEW kobs,
         1 \in DOMAIN ws, Waits(ws, pcs, jobs),
         \A q \in Calls \ {ws[1].by} : qcs[q] = pcs[q] /\ kobs[q] = jobs[q]
  PROVE  /\ RemoveAt(ws, 1) \in Seq(Write)
         /\ Waits(RemoveAt(ws, 1), qcs, kobs)
         /\ \A i \in 1 .. Len(RemoveAt(ws, 1)) : RemoveAt(ws, 1)[i].by # ws[1].by
<1> DEFINE rest == RemoveAt(ws, 1)
<1>1. /\ rest \in Seq(Write) /\ Len(rest) = Len(ws) - 1
      /\ \A i \in 1 .. Len(rest) : rest[i] = ws[i + 1]
  BY Removed
<1>2. Len(ws) \in Nat /\ 1 \in 1 .. Len(ws) /\ \A i \in 1 .. Len(ws) : ws[i] \in Write
  OBVIOUS
<1> HIDE DEF rest
<1>3. ASSUME NEW i \in 1 .. Len(rest)
      PROVE  i + 1 \in 1 .. Len(ws) /\ i + 1 # 1 /\ rest[i] = ws[i + 1]
  BY <1>1, <1>2
<1>4. \A i \in 1 .. Len(rest) : rest[i].by \in Calls \ {ws[1].by}
  BY <1>2, <1>3 DEF Waits, Write
<1>5. ASSUME NEW i \in 1 .. Len(rest)
      PROVE  LET c == rest[i].by  o == rest[i].snapshot[kobs[c]] IN
             /\ qcs[c] \in Saving /\ kobs[c] \in Keys
             /\ o.status # "NONE"
             /\ qcs[c] \in {"accepting", "filling"} => Known(o)
             /\ qcs[c] = "cancelling" => o.status = "CANCELED"
  <2>1. i + 1 \in 1 .. Len(ws) /\ rest[i] = ws[i + 1] /\ rest[i].by \in Calls \ {ws[1].by}
    BY <1>3, <1>4
  <2> QED BY <2>1 DEF Waits
<1>6. ASSUME NEW i \in 1 .. Len(rest), NEW j \in 1 .. Len(rest), rest[i].by = rest[j].by
      PROVE  i = j
  <2>1. /\ i + 1 \in 1 .. Len(ws) /\ rest[i] = ws[i + 1]
        /\ j + 1 \in 1 .. Len(ws) /\ rest[j] = ws[j + 1]
    BY <1>3
  <2>2. i + 1 = j + 1
    BY <1>6, <2>1 DEF Waits
  <2> QED BY <2>2
<1> QED BY <1>1, <1>4, <1>5, <1>6 DEF Waits, rest

\* A call that is not waiting does something else.
LEMMA Elsewhere ==
  ASSUME NEW ws \in Seq(Write), NEW pcs, NEW jobs, NEW qcs, NEW kobs, NEW p \in Calls,
         Waits(ws, pcs, jobs), pcs[p] \notin Saving,
         \A q \in Calls \ {p} : qcs[q] = pcs[q] /\ kobs[q] = jobs[q]
  PROVE  Waits(ws, qcs, kobs)
<1>1. \A i \in 1 .. Len(ws) : ws[i] \in Write
  OBVIOUS
<1>2. \A i \in 1 .. Len(ws) : ws[i].by \in Calls \ {p}
  BY <1>1 DEF Waits, Write
<1> QED BY <1>2 DEF Waits

-----------------------------------------------------------------------------
(* Memory, and what is answered from it.                                   *)

LEMMA FilledNat ==
  ASSUME NEW o \in Order
  PROVE  o.filled \in Nat /\ o.filled \in 0 .. Lots
BY SizesAssumption DEF Order

\* What an order says stays true of one that follows it.
LEMMA StaysUpheld ==
  ASSUME NEW lost, NEW later, lost => later, NEW n \in News, NEW o \in Order, NEW m \in Order,
         Upholds(lost, n, o), Follows(later, o, m)
  PROVE  Upholds(later, n, m)
<1>1. n.filled \in Nat /\ o.filled \in Nat /\ m.filled \in Nat
  BY FilledNat, SizesAssumption DEF News
<1>2. ASSUME ~later  PROVE m.filled >= n.filled
  BY <1>1, <1>2 DEF Upholds, Follows
<1> QED BY <1>2 DEF Upholds, Follows

LEMMA BothUpheld ==
  ASSUME NEW lost, NEW x \in News, NEW y \in News, NEW o, Upholds(lost, x, o), Upholds(lost, y, o)
  PROVE  Both(x, y) \in News /\ Upholds(lost, Both(x, y), o)
<1>1. /\ x.filled \in 0 .. Lots /\ y.filled \in 0 .. Lots
      /\ x.placed \in BOOLEAN /\ y.placed \in BOOLEAN /\ x.canceled \in BOOLEAN /\ y.canceled \in BOOLEAN
  BY DEF News
<1>2. /\ Both(x, y).placed = (x.placed \/ y.placed) /\ Both(x, y).canceled = (x.canceled \/ y.canceled)
      /\ Both(x, y).filled \in {x.filled, y.filled}
  BY DEF Both
<1> QED BY <1>1, <1>2 DEF Both, News, Upholds

LEMMA SaysUpheld ==
  ASSUME NEW lost, NEW o \in Order, NEW f, f.status = o.status, f.filled = o.filled
  PROVE  Says(o) \in News /\ Upholds(lost, Says(o), f)
<1>1. o.filled \in Nat /\ o.filled \in 0 .. Lots
  BY FilledNat
<1>2. /\ Says(o).placed = (o.status \notin {"NONE", "RISK_ACCEPTED"})
      /\ Says(o).canceled = (o.status = "CANCELED") /\ Says(o).filled = o.filled
  BY DEF Says
<1>3. Says(o) \in News
  BY <1>1 DEF Says, News
<1>4. f.filled >= o.filled
  BY <1>1
<1> QED BY <1>2, <1>3, <1>4 DEF Upholds, Known

LEMMA NothingUpheld ==
  ASSUME NEW lost, NEW o \in Order
  PROVE  NoNews \in News /\ Upholds(lost, NoNews, o)
<1>1. o.filled \in Nat /\ 0 \in 0 .. Lots
  BY FilledNat, SizesAssumption
<1> QED BY <1>1 DEF NoNews, News, Upholds

\* Memory moves on, and its snapshot is queued.
LEMMA Remembering ==
  ASSUME IInv, overlapped => overlapped', orders' \in Versions, recalled' = recalled,
         Advances(overlapped', orders, orders'),
         NEW ws \in Seq(Write), NEW p \in Calls, writes' = Append(ws, [snapshot |-> orders', by |-> p])
  PROVE  MemoryOK'
<1> DEFINE w == [snapshot |-> orders', by |-> p]
<1>1. writes' # <<>> /\ writes'[Len(writes')] = w
  <2>1. w \in Write
    BY DEF Write
  <2> HIDE DEF w
  <2>2. Len(writes') = Len(ws) + 1 /\ writes'[Len(ws) + 1] = w /\ Len(ws) \in Nat
    BY <2>1, AppendProperties DEF w
  <2> QED BY <2>2
<1>2. ASSUME NEW k \in Keys  PROVE Upholds(overlapped', recalled[k], orders'[k])
  <2>1. Follows(overlapped', orders[k], orders'[k]) /\ Upholds(overlapped, recalled[k], orders[k])
    BY DEF Advances, IInv, MemoryOK
  <2>2. recalled[k] \in News /\ orders[k] \in Order /\ orders'[k] \in Order
    BY DEF IInv, StoreOK, Versions, Books
  <2> QED BY <2>1, <2>2, StaysUpheld
<1> QED BY <1>1, <1>2 DEF MemoryOK, AllSaved

\* Without its head the queue still ends in memory, or its head was memory.
LEMMA Newest ==
  ASSUME IInv, NEW i \in NextWrites
  PROVE  LET rest == RemoveAt(writes, i) IN
         IF rest = <<>> THEN writes[i].snapshot = orders ELSE rest[Len(rest)].snapshot = orders
<1> DEFINE rest == RemoveAt(writes, i)
<1>1. i = 1 /\ 1 \in DOMAIN writes /\ Len(writes) \in Nat /\ writes # <<>>
  BY DEF NextWrites, IInv, StoreOK
<1>2. /\ rest \in Seq(Write) /\ Len(rest) = Len(writes) - 1
      /\ \A j \in 1 .. Len(rest) : rest[j] = writes[j + 1]
  BY <1>1, Removed DEF IInv, StoreOK
<1>3. writes[Len(writes)].snapshot = orders
  BY <1>1 DEF IInv, MemoryOK
<1> HIDE DEF rest
<1>4. CASE rest = <<>>
  <2>1. Len(writes) = 1
    BY <1>1, <1>2, <1>4
  <2> QED BY <1>1, <1>3, <1>4, <2>1 DEF rest
<1>5. CASE rest # <<>>
  <2>1. Len(rest) \in 1 .. Len(rest) /\ Len(rest) + 1 = Len(writes)
    BY <1>1, <1>2, <1>5, EmptySeq
  <2> QED BY <1>2, <1>3, <1>5, <2>1 DEF rest
<1> QED BY <1>4, <1>5

-----------------------------------------------------------------------------
(* One lemma per step.                                                     *)

LEMMA Starting == Init => IInv
<1> SUFFICES ASSUME Init  PROVE IInv
  OBVIOUS
<1> USE SizesAssumption, BoundsAssumption
<1>1. NoOrder \in Order /\ NoOrder.status = "NONE" /\ NoOrder.filled = 0 /\ 0 \in 0 .. MaxTime
  BY DEF NoOrder, Order, Statuses
<1>2. orders \in Versions /\ file = orders /\ writes = <<>> /\ Len(writes) = 0
  BY <1>1 DEF Init, Versions, Books, Orderly
<1>3. StoreOK
  <2>1. writes \in Seq(Write)
    BY <1>2
  <2>2. pc \in [Calls -> PCs] /\ job \in [Calls -> Keys \cup {NoKey}]
    BY DEF Init, PCs
  <2>3. copy \in [Calls -> Order] /\ submitted \in [Keys -> Nat] /\ now \in 0 .. MaxTime
    BY <1>1 DEF Init
  <2>4. told \in [Keys -> News] /\ recalled \in [Keys -> News] /\ unsaved \in BOOLEAN
    BY <1>1, NothingUpheld DEF Init
  <2>5. overlapped \in BOOLEAN
    BY DEF Init
  <2> QED BY <1>2, <2>1, <2>2, <2>3, <2>4, <2>5 DEF StoreOK
<1>4. InOrder(overlapped, file, writes, orders)
  BY <1>1, <1>2 DEF Init, InOrder, Advances, Follows, Versions
<1>5. Waits(writes, pc, job)
  BY <1>2 DEF Waits
<1>6. CreatingOK /\ AdapterOK /\ SubmittedOK /\ DoneIsDurable
  BY <1>1, <1>2 DEF Init, CreatingOK, AdapterOK, SubmittedOK, DoneIsDurable, NoNews
<1>7. MemoryOK
  <2>1. \A k \in Keys : Upholds(overlapped, recalled[k], orders[k])
    BY <1>1, NothingUpheld DEF Init
  <2> QED BY <1>2, <2>1 DEF MemoryOK
<1> QED BY <1>3, <1>4, <1>5, <1>6, <1>7 DEF IInv

LEMMA Placing ==
  ASSUME IInv, NEW p \in Calls, NEW k \in Keys, PlaceOrder(p, k)
  PROVE  IInv'
<1> DEFINE o == [status |-> "RISK_ACCEPTED", filled |-> 0, recoveryHold |-> FALSE, createdAt |-> now]
           book == [orders EXCEPT ![k] = o]
<1> USE DEF IInv
<1>1. /\ pc[p] = "idle" /\ orders[k].status = "NONE"
      /\ pc' = [pc EXCEPT ![p] = "creating"] /\ job' = [job EXCEPT ![p] = k] /\ copy' = copy
      /\ orders' = book /\ writes' = Append(writes, [snapshot |-> book, by |-> p])
      /\ file' = file /\ submitted' = submitted /\ told' = told /\ overlapped' = overlapped /\ now' = now
      /\ recalled' = recalled /\ unsaved' = unsaved
  BY DEF PlaceOrder, Starts, Persist, Beginning, Others
<1>2. orders[k].filled = 0 /\ orders \in Books
  BY <1>1 DEF StoreOK, Versions, Orderly
<1>3. o \in Order /\ o.status = "RISK_ACCEPTED" /\ o.filled = 0
  BY SizesAssumption DEF StoreOK, Order, Statuses
<1> HIDE DEF o
<1>4. book \in Versions
  <2>1. Orderly(o)
    BY <1>3, SizesAssumption DEF Orderly
  <2> QED BY <1>2, <1>3, <2>1 DEF StoreOK, Versions, Books
<1>5. StoreOK'
  <2>1. [snapshot |-> book, by |-> p] \in Write
    BY <1>4 DEF Write
  <2>2. writes' \in Seq(Write)
    BY <1>1, <2>1, AppendProperties DEF StoreOK
  <2> QED BY <1>1, <1>4, <2>2 DEF StoreOK, PCs
<1>6. Advances(overlapped, orders, book)
  <2>1. \A j \in Keys : orders[j].filled <= orders[j].filled
    BY <1>2, SizesAssumption DEF Books, Order
  <2>2. Follows(overlapped, orders[k], book[k])
    BY <1>1, <1>2, <1>3 DEF Follows, Known, Books, Closed
  <2>3. ASSUME NEW j \in Keys, j # k  PROVE Follows(overlapped, orders[j], book[j])
    BY <1>2, <2>1, <2>3 DEF Follows, Books
  <2> QED BY <2>2, <2>3 DEF Advances
<1>7. InOrder(overlapped, file, writes, orders)'
  BY <1>1, <1>4, <1>6, Appended DEF StoreOK
<1>8. Waits(writes, pc, job)'
  <2>1. /\ pc[p] \notin Saving /\ pc'[p] = "creating" /\ job'[p] = k
        /\ \A q \in Calls \ {p} : pc'[q] = pc[q] /\ job'[q] = job[q]
    BY <1>1 DEF StoreOK, Saving
  <2>2. book[k].status = "RISK_ACCEPTED"
    BY <1>2, <1>3 DEF Books
  <2> HIDE DEF book
  <2>3. Waits(Append(writes, [snapshot |-> book, by |-> p]), pc', job')
    BY <1>4, <2>1, <2>2, Pushed DEF StoreOK, Saving
  <2> QED BY <1>1, <2>3
<1>9. CreatingOK'
  <2>1. submitted[k] = 0
    BY <1>1 DEF SubmittedOK, StoreOK, InOrder, Advances, Follows
  <2>2. \A q \in Calls : pc[q] = "creating" => job[q] # k
    BY <1>1 DEF CreatingOK
  <2> QED BY <1>1, <1>2, <1>3, <2>1, <2>2 DEF CreatingOK, StoreOK, Books
<1>10. AdapterOK'
  <2>1. \A q \in Calls : pc[q] = "atAdapter" => job[q] # k
    BY <1>1 DEF AdapterOK, Known
  <2> QED BY <1>1, <1>2, <2>1 DEF AdapterOK, StoreOK, Books
<1>11. SubmittedOK' /\ DoneIsDurable'
  BY <1>1 DEF SubmittedOK, DoneIsDurable
<1>12. MemoryOK'
  <2> HIDE DEF book
  <2> QED BY <1>1, <1>4, <1>6, Remembering DEF StoreOK
<1> QED BY <1>5, <1>7, <1>8, <1>9, <1>10, <1>11, <1>12

LEMMA Filling ==
  ASSUME IInv, NEW p \in Calls, NEW k \in Keys, ApplyPaperFill(p, k)
  PROVE  IInv'
<1> USE DEF IInv
<1>1. PICK n \in 1 .. Remaining(k) :
        LET filled == orders[k].filled + n IN
        Persist(p, writes, [orders EXCEPT
          ![k].filled = filled,
          ![k].status = IF filled = Lots THEN "FILLED" ELSE "PARTIALLY_FILLED"])
  BY DEF ApplyPaperFill
<1> DEFINE filled == orders[k].filled + n
           status == IF filled = Lots THEN "FILLED" ELSE "PARTIALLY_FILLED"
           book == [orders EXCEPT ![k].filled = filled, ![k].status = status]
<1>2. /\ pc[p] = "idle" /\ orders[k].status \in {"ACCEPTED", "PARTIALLY_FILLED"}
      /\ pc' = [pc EXCEPT ![p] = "filling"] /\ job' = [job EXCEPT ![p] = k] /\ copy' = copy
      /\ file' = file /\ submitted' = submitted /\ told' = told /\ now' = now
      /\ overlapped' = (overlapped \/ \E q \in Calls : pc[q] = "atAdapter" /\ job[q] = k)
      /\ recalled' = recalled /\ unsaved' = unsaved
  BY DEF ApplyPaperFill, Starts, Beginning, Others, Fillable
<1>3. orders' = book /\ writes' = Append(writes, [snapshot |-> book, by |-> p])
  BY <1>1 DEF Persist
<1>4. filled \in 0 .. Lots /\ orders[k].filled <= filled /\ orders \in Books
  BY <1>1, SizesAssumption DEF Remaining, StoreOK, Versions, Books, Order
<1>5. status \in {"FILLED", "PARTIALLY_FILLED"}
  OBVIOUS
<1> HIDE DEF filled, status
<1>6. /\ book \in Books
      /\ \A j \in Keys : j # k => book[j] = orders[j]
      /\ book[k].status = status /\ book[k].filled = filled
      /\ book[k].createdAt = orders[k].createdAt
  BY <1>4, <1>5 DEF Books, Order, Statuses
<1>7. book \in Versions
  <2>1. Orderly(book[k])
    BY <1>5, <1>6, <1>4, SizesAssumption DEF Orderly, status
  <2> QED BY <1>6, <2>1 DEF StoreOK, Versions
<1> HIDE DEF book
<1>8. overlapped' \in BOOLEAN /\ (overlapped => overlapped')
  BY <1>2 DEF StoreOK
<1>9. StoreOK'
  <2>1. [snapshot |-> book, by |-> p] \in Write
    BY <1>7 DEF Write
  <2>2. writes' \in Seq(Write)
    BY <1>3, <2>1, AppendProperties DEF StoreOK
  <2>3. /\ pc' \in [Calls -> PCs] /\ job' \in [Calls -> Keys \cup {NoKey}]
        /\ submitted' \in [Keys -> Nat] /\ copy' \in [Calls -> Order] /\ now' \in 0 .. MaxTime
        /\ told' \in [Keys -> News] /\ recalled' \in [Keys -> News] /\ unsaved' \in BOOLEAN
        /\ file' \in Versions
    BY <1>2 DEF StoreOK, PCs
  <2> QED BY <1>3, <1>7, <1>8, <2>2, <2>3 DEF StoreOK
<1>10. Advances(overlapped', orders, book)
  <2>1. ASSUME NEW j \in Keys  PROVE Follows(overlapped', orders[j], book[j])
    <3>1. CASE j = k
      BY <1>2, <1>4, <1>5, <1>6, <3>1 DEF Follows, Known, Closed
    <3>2. CASE j # k
      BY <1>4, <1>6, <3>2 DEF Follows, Books, Order
    <3> QED BY <3>1, <3>2
  <2> QED BY <2>1 DEF Advances
<1>11. InOrder(overlapped, file, writes, orders)'
  <2>1. InOrder(overlapped', file, writes, orders)
    BY <1>8, Relaxed
  <2>2. InOrder(overlapped', file, Append(writes, [snapshot |-> book, by |-> p]), book)
    BY <1>7, <1>8, <1>10, <2>1, Appended DEF StoreOK
  <2> QED BY <1>2, <1>3, <2>2
<1>12. Waits(writes, pc, job)'
  <2>1. /\ pc[p] \notin Saving /\ pc'[p] = "filling" /\ job'[p] = k
        /\ \A q \in Calls \ {p} : pc'[q] = pc[q] /\ job'[q] = job[q]
    BY <1>2 DEF StoreOK, Saving
  <2>2. Known(book[k]) /\ book[k].status # "NONE"
    BY <1>5, <1>6 DEF Known
  <2>3. Waits(Append(writes, [snapshot |-> book, by |-> p]), pc', job')
    BY <1>7, <2>1, <2>2, Pushed DEF StoreOK, Saving
  <2> QED BY <1>3, <2>3
<1>13. CreatingOK'
  <2>1. \A q \in Calls : pc[q] = "creating" => job[q] # k
    BY <1>2 DEF CreatingOK
  <2> QED BY <1>2, <1>3, <1>6, <2>1 DEF CreatingOK, StoreOK
<1>14. AdapterOK'
  <2> SUFFICES ASSUME NEW q \in Calls, pc'[q] = "atAdapter"
               PROVE  /\ job'[q] \in Keys /\ Known(orders'[job'[q]])
                      /\ copy'[q].createdAt = orders'[job'[q]].createdAt /\ copy'[q].filled # Lots
                      /\ ~overlapped' => copy'[q].filled = orders'[job'[q]].filled
    BY DEF AdapterOK
  <2>1. /\ pc[q] = "atAdapter" /\ job'[q] = job[q] /\ job[q] \in Keys /\ copy'[q] = copy[q]
        /\ copy[q].createdAt = orders[job[q]].createdAt /\ copy[q].filled # Lots
    BY <1>2 DEF StoreOK, AdapterOK
  <2>2. CASE job[q] = k
    BY <1>2, <1>3, <1>5, <1>6, <2>1, <2>2 DEF Known
  <2>3. CASE job[q] # k
    BY <1>2, <1>3, <1>6, <1>8, <2>1, <2>3 DEF AdapterOK
  <2> QED BY <2>2, <2>3
<1>15. SubmittedOK' /\ DoneIsDurable'
  BY <1>2, <1>8 DEF SubmittedOK, DoneIsDurable
<1>16. MemoryOK'
  BY <1>2, <1>3, <1>7, <1>8, <1>10, Remembering DEF StoreOK
<1> QED BY <1>9, <1>11, <1>12, <1>13, <1>14, <1>15, <1>16

LEMMA Cancelling ==
  ASSUME IInv, NEW p \in Calls, NEW k \in Keys, CancelOrder(p, k)
  PROVE  IInv'
<1> USE DEF IInv
<1>1. /\ pc[p] = "idle" /\ orders[k].status \in {"ACCEPTED", "PARTIALLY_FILLED"}
      /\ pc' = [pc EXCEPT ![p] = "atAdapter"] /\ job' = [job EXCEPT ![p] = k]
      /\ copy' = [copy EXCEPT ![p] = orders[k]]
      /\ orders' = orders /\ file' = file /\ writes' = writes
      /\ submitted' = submitted /\ told' = told /\ overlapped' = overlapped /\ now' = now
      /\ recalled' = recalled /\ unsaved' = unsaved
  BY DEF CancelOrder, Starts, Beginning, Others, Fillable, store
<1>2. StoreOK'
  <2>1. orders[k] \in Order
    BY DEF StoreOK, Versions, Books
  <2> QED BY <1>1, <2>1 DEF StoreOK, PCs
<1>3. InOrder(overlapped, file, writes, orders)'
  BY <1>1
<1>4. Waits(writes, pc, job)'
  <2>1. pc[p] \notin Saving /\ \A q \in Calls \ {p} : pc'[q] = pc[q] /\ job'[q] = job[q]
    BY <1>1 DEF StoreOK, Saving
  <2>2. Waits(writes, pc', job')
    BY <2>1, Elsewhere DEF StoreOK
  <2> QED BY <1>1, <2>2
<1>5. CreatingOK'
  BY <1>1 DEF CreatingOK, StoreOK
<1>6. AdapterOK'
  <2>1. orders[k].filled # Lots
    BY <1>1 DEF StoreOK, Versions, Orderly
  <2> QED BY <1>1, <2>1 DEF AdapterOK, StoreOK, Known
<1>7. SubmittedOK' /\ DoneIsDurable' /\ MemoryOK'
  BY <1>1 DEF SubmittedOK, DoneIsDurable, MemoryOK, AllSaved
<1> QED BY <1>2, <1>3, <1>4, <1>5, <1>6, <1>7

LEMMA Cancelled ==
  ASSUME IInv, NEW p \in Calls, CancelAnswered(p)
  PROVE  IInv'
<1> DEFINE k == job[p]
           o == [copy[p] EXCEPT !.status = "CANCELED"]
           book == [orders EXCEPT ![k] = o]
<1> USE DEF IInv
<1>1. /\ pc[p] = "atAdapter" /\ pc' = [pc EXCEPT ![p] = "cancelling"] /\ job' = job
      /\ orders' = book /\ writes' = Append(writes, [snapshot |-> book, by |-> p])
      /\ copy' = [copy EXCEPT ![p] = NoOrder]
      /\ file' = file /\ submitted' = submitted /\ told' = told /\ overlapped' = overlapped /\ now' = now
      /\ recalled' = recalled /\ unsaved' = unsaved
  BY DEF CancelAnswered, Goto, Persist, Beginning, Others
<1>2. /\ k \in Keys /\ Known(orders[k]) /\ orders \in Books
      /\ copy[p].createdAt = orders[k].createdAt /\ copy[p].filled # Lots
      /\ ~overlapped => copy[p].filled = orders[k].filled
  BY <1>1 DEF AdapterOK, StoreOK, Versions
<1>3. /\ o \in Order /\ o.status = "CANCELED" /\ o.filled = copy[p].filled
      /\ o.createdAt = copy[p].createdAt
  BY DEF StoreOK, Order, Statuses
<1> HIDE DEF o, k
<1>4. book \in Books /\ book[k] = o /\ \A j \in Keys : j # k => book[j] = orders[j]
  BY <1>2, <1>3 DEF Books
<1>5. book \in Versions
  <2>1. Orderly(o)
    BY <1>2, <1>3 DEF Orderly
  <2> QED BY <1>4, <2>1 DEF StoreOK, Versions
<1> HIDE DEF book
<1>6. StoreOK'
  <2>1. [snapshot |-> book, by |-> p] \in Write
    BY <1>5 DEF Write
  <2>2. writes' \in Seq(Write)
    BY <1>1, <2>1, AppendProperties DEF StoreOK
  <2>3. NoOrder \in Order
    BY SizesAssumption, BoundsAssumption DEF NoOrder, Order, Statuses
  <2> QED BY <1>1, <1>5, <2>2, <2>3 DEF StoreOK, PCs
<1>7. Advances(overlapped, orders, book)
  <2>1. ASSUME NEW j \in Keys  PROVE Follows(overlapped, orders[j], book[j])
    <3>1. orders[j].filled \in Nat
      BY <1>2, SizesAssumption DEF Books, Order
    <3>2. CASE j = k
      BY <1>2, <1>3, <1>4, <3>1, <3>2 DEF Follows, Known, Closed
    <3>3. CASE j # k
      BY <1>4, <3>1, <3>3 DEF Follows
    <3> QED BY <3>2, <3>3
  <2> QED BY <2>1 DEF Advances
<1>8. InOrder(overlapped, file, writes, orders)'
  <2>1. InOrder(overlapped, file, Append(writes, [snapshot |-> book, by |-> p]), book)
    BY <1>5, <1>7, Appended DEF StoreOK
  <2> QED BY <1>1, <2>1
<1>9. Waits(writes, pc, job)'
  <2>1. /\ pc[p] \notin Saving /\ pc'[p] = "cancelling" /\ job'[p] = k
        /\ \A q \in Calls \ {p} : pc'[q] = pc[q] /\ job'[q] = job[q]
    BY <1>1 DEF StoreOK, Saving, k
  <2>2. book[k].status = "CANCELED"
    BY <1>3, <1>4
  <2>3. Waits(Append(writes, [snapshot |-> book, by |-> p]), pc', job')
    BY <1>2, <1>5, <2>1, <2>2, Pushed DEF StoreOK, Saving
  <2> QED BY <1>1, <2>3
<1>10. CreatingOK'
  <2>1. \A q \in Calls : pc[q] = "creating" => job[q] # k
    BY <1>2 DEF CreatingOK, Known
  <2> QED BY <1>1, <1>4, <2>1 DEF CreatingOK, StoreOK
<1>11. AdapterOK'
  <2> SUFFICES ASSUME NEW q \in Calls, pc'[q] = "atAdapter"
               PROVE  /\ job'[q] \in Keys /\ Known(orders'[job'[q]])
                      /\ copy'[q].createdAt = orders'[job'[q]].createdAt /\ copy'[q].filled # Lots
                      /\ ~overlapped' => copy'[q].filled = orders'[job'[q]].filled
    BY DEF AdapterOK
  <2>1. /\ q # p /\ pc[q] = "atAdapter" /\ job'[q] = job[q] /\ job[q] \in Keys
        /\ Known(orders[job[q]]) /\ copy'[q] = copy[q]
        /\ copy[q].createdAt = orders[job[q]].createdAt /\ copy[q].filled # Lots
        /\ ~overlapped => copy[q].filled = orders[job[q]].filled
    BY <1>1 DEF StoreOK, AdapterOK
  <2>2. CASE job[q] = k
    BY <1>1, <1>2, <1>3, <1>4, <2>1, <2>2 DEF Known
  <2>3. CASE job[q] # k
    BY <1>1, <1>4, <2>1, <2>3
  <2> QED BY <2>2, <2>3
<1>12. SubmittedOK' /\ DoneIsDurable'
  BY <1>1 DEF SubmittedOK, DoneIsDurable
<1>13. MemoryOK'
  BY <1>1, <1>5, <1>7, Remembering DEF StoreOK
<1> QED BY <1>6, <1>8, <1>9, <1>10, <1>11, <1>12, <1>13

\* What was told stays on disk when the file is replaced by a later version.
LEMMA Durable ==
  ASSUME IInv, NEW f \in Versions, Advances(overlapped, file, f)
  PROVE  \A k \in Keys : /\ Upholds(overlapped, told[k], f[k])
                         /\ submitted[k] = 1 => f[k].status # "NONE"
<1> SUFFICES ASSUME NEW k \in Keys
             PROVE  /\ Upholds(overlapped, told[k], f[k])
                    /\ submitted[k] = 1 => f[k].status # "NONE"
  OBVIOUS
<1>1. Follows(overlapped, file[k], f[k])
  BY DEF Advances
<1>2. /\ Upholds(overlapped, told[k], file[k])
      /\ submitted[k] = 1 => file[k].status # "NONE"
  BY DEF IInv, DoneIsDurable, SubmittedOK, Known, Upholds
<1>3. f[k] \in Order /\ file[k] \in Order /\ told[k] \in News
  BY DEF IInv, StoreOK, Versions, Books
<1>4. Upholds(overlapped, told[k], f[k])
  BY <1>1, <1>2, <1>3, StaysUpheld
<1> QED BY <1>1, <1>2, <1>4 DEF Follows

\* The head of the queue is saved: where the queue and the file are then.
LEMMA Saved ==
  ASSUME IInv, NEW i \in NextWrites
  PROVE  /\ i = 1 /\ 1 \in DOMAIN writes /\ writes[i] \in Write
         /\ InOrder(overlapped, file, RemoveAt(writes, i), orders)
         /\ InOrder(overlapped, writes[i].snapshot, RemoveAt(writes, i), orders)
         /\ Advances(overlapped, file, writes[i].snapshot)
<1>1. i = 1 /\ 1 \in DOMAIN writes /\ 1 \in 1 .. Len(writes)
  BY DEF NextWrites, IInv, StoreOK
<1>2. writes[1] \in Write
  BY <1>1 DEF IInv, StoreOK
<1>3. /\ InOrder(overlapped, file, RemoveAt(writes, 1), orders)
      /\ InOrder(overlapped, writes[1].snapshot, RemoveAt(writes, 1), orders)
  BY <1>1, Dropped DEF IInv, StoreOK
<1>4. Advances(overlapped, file, writes[1].snapshot)
  BY <1>1 DEF IInv, InOrder
<1> QED BY <1>1, <1>2, <1>3, <1>4

LEMMA Submitting ==
  ASSUME IInv, NEW i \in NextWrites, file' = writes[i].snapshot,
         Submit(writes[i].by, RemoveAt(writes, i)), overlapped' = overlapped, now' = now,
         unsaved' = FALSE
  PROVE  IInv'
<1> DEFINE p == writes[i].by
           f == writes[i].snapshot
           rest == RemoveAt(writes, i)
           k == job[p]
<1>1. /\ i = 1 /\ 1 \in DOMAIN writes /\ p \in Calls /\ f \in Versions
      /\ InOrder(overlapped, f, rest, orders) /\ Advances(overlapped, file, f)
  BY Saved DEF Write
<1>2. PICK status \in {"ACCEPTED", "REJECTED"}, step \in {"accepting", "rejecting"} :
        /\ Persist(p, rest, [orders EXCEPT ![k].status = status])
        /\ pc' = [pc EXCEPT ![p] = step]
  BY DEF Submit, Goto
<1> DEFINE book == [orders EXCEPT ![k].status = status]
<1>3. /\ pc[p] = "creating" /\ job' = job /\ copy' = copy /\ told' = told /\ recalled' = recalled
      /\ submitted' = [submitted EXCEPT ![k] = @ + 1]
  BY DEF Submit
<1>4. orders' = book /\ writes' = Append(rest, [snapshot |-> book, by |-> p])
  BY <1>2 DEF Persist
<1>5. /\ k \in Keys /\ orders[k].status = "RISK_ACCEPTED" /\ submitted[k] = 0 /\ orders \in Books
      /\ \A q \in Calls \ {p} : pc[q] = "creating" => job[q] # k
  BY <1>1, <1>3 DEF IInv, CreatingOK, StoreOK, Versions
<1>6. f[k].status # "NONE"
  BY <1>1 DEF IInv, Waits, StoreOK
<1>7. /\ rest \in Seq(Write) /\ Waits(rest, pc, job)
      /\ \A j \in 1 .. Len(rest) : rest[j].by # p
  BY <1>1, Popped DEF IInv, StoreOK
<1> HIDE DEF k, f, p, rest
<1>8. /\ book \in Books
      /\ \A j \in Keys : j # k => book[j] = orders[j]
      /\ book[k].status = status /\ book[k].filled = orders[k].filled
      /\ book[k].createdAt = orders[k].createdAt
  BY <1>5 DEF Books, Order, Statuses
<1>9. book \in Versions
  <2>1. Orderly(book[k])
    <3>1. Orderly(orders[k])
      BY <1>5 DEF IInv, StoreOK, Versions
    <3> QED BY <1>5, <1>8, <3>1, SizesAssumption DEF Orderly
  <2> QED BY <1>8, <2>1 DEF IInv, StoreOK, Versions
<1> HIDE DEF book
<1>10. StoreOK'
  <2>1. [snapshot |-> book, by |-> p] \in Write
    BY <1>1, <1>9 DEF Write
  <2>2. writes' \in Seq(Write)
    BY <1>4, <1>7, <2>1, AppendProperties
  <2>3. /\ file' \in Versions /\ told' \in [Keys -> News] /\ recalled' \in [Keys -> News]
        /\ unsaved' \in BOOLEAN
    BY <1>1, <1>3 DEF f, IInv, StoreOK
  <2> QED BY <1>1, <1>2, <1>3, <1>4, <1>5, <1>9, <2>2, <2>3 DEF IInv, StoreOK, PCs
<1>11. Advances(overlapped, orders, book)
  <2>1. ASSUME NEW j \in Keys  PROVE Follows(overlapped, orders[j], book[j])
    <3>1. orders[j].filled \in Nat
      BY <1>5, SizesAssumption DEF Books, Order
    <3>2. CASE j = k
      BY <1>5, <1>8, <3>1, <3>2 DEF Follows, Known, Closed
    <3>3. CASE j # k
      BY <1>8, <3>1, <3>3 DEF Follows
    <3> QED BY <3>2, <3>3
  <2> QED BY <2>1 DEF Advances
<1>12. InOrder(overlapped, file, writes, orders)'
  <2>1. InOrder(overlapped, f, Append(rest, [snapshot |-> book, by |-> p]), book)
    BY <1>1, <1>7, <1>9, <1>11, Appended DEF IInv, StoreOK
  <2> QED BY <1>4, <2>1 DEF f
<1>13. Waits(writes, pc, job)'
  <2> DEFINE before == [pc EXCEPT ![p] = "idle"]
  <2>1. /\ before[p] \notin Saving /\ pc'[p] = step /\ job'[p] = k
        /\ \A q \in Calls \ {p} : before[q] = pc[q] /\ pc'[q] = before[q] /\ job'[q] = job[q]
    BY <1>1, <1>2, <1>3 DEF IInv, StoreOK, Saving, k
  <2> HIDE DEF before
  <2>2. Waits(rest, before, job)
    <3>a. \A j \in 1 .. Len(rest) : rest[j] \in Write
      BY <1>7
    <3>1. \A j \in 1 .. Len(rest) : rest[j].by \in Calls \ {p}
      BY <1>7, <3>a DEF Write
    <3> QED BY <1>7, <2>1, <3>1 DEF Waits
  <2>3. Known(book[k])
    BY <1>8 DEF Known
  <2>4. Waits(Append(rest, [snapshot |-> book, by |-> p]), pc', job')
    BY <1>1, <1>5, <1>7, <1>9, <2>1, <2>2, <2>3, Pushed DEF Saving, Known
  <2> QED BY <1>4, <2>4
<1>14. CreatingOK'
  <2> SUFFICES ASSUME NEW q \in Calls, pc'[q] = "creating"
               PROVE  /\ job'[q] \in Keys
                      /\ orders'[job'[q]].status = "RISK_ACCEPTED" /\ submitted'[job'[q]] = 0
                      /\ \A r \in Calls \ {q} : pc'[r] = "creating" => job'[r] # job'[q]
    BY DEF CreatingOK
  <2>1. q # p /\ pc[q] = "creating" /\ job[q] # k /\ job'[q] = job[q] /\ job[q] \in Keys
    BY <1>1, <1>2, <1>3, <1>5 DEF IInv, StoreOK, CreatingOK
  <2>2. orders'[job[q]] = orders[job[q]] /\ submitted'[job[q]] = submitted[job[q]]
    BY <1>3, <1>4, <1>5, <1>8, <2>1 DEF IInv, StoreOK
  <2>3. \A r \in Calls \ {q} : pc'[r] = "creating" => job'[r] # job'[q]
    BY <1>1, <1>2, <1>3, <2>1 DEF IInv, StoreOK, CreatingOK
  <2> QED BY <2>1, <2>2, <2>3 DEF IInv, CreatingOK
<1>15. AdapterOK'
  <2> SUFFICES ASSUME NEW q \in Calls, pc'[q] = "atAdapter"
               PROVE  /\ job'[q] \in Keys /\ Known(orders'[job'[q]])
                      /\ copy'[q].createdAt = orders'[job'[q]].createdAt /\ copy'[q].filled # Lots
                      /\ ~overlapped' => copy'[q].filled = orders'[job'[q]].filled
    BY DEF AdapterOK
  <2>1. pc[q] = "atAdapter" /\ job'[q] = job[q] /\ copy'[q] = copy[q]
    BY <1>1, <1>2, <1>3 DEF IInv, StoreOK
  <2>2. job[q] \in Keys /\ job[q] # k
    BY <1>5, <2>1 DEF IInv, AdapterOK, Known
  <2>3. orders'[job[q]] = orders[job[q]]
    BY <1>4, <1>8, <2>2
  <2> QED BY <2>1, <2>2, <2>3 DEF IInv, AdapterOK
<1>16. SubmittedOK' /\ DoneIsDurable'
  <2>1. \A j \in Keys : /\ Upholds(overlapped, told[j], f[j])
                        /\ submitted[j] = 1 => f[j].status # "NONE"
    BY <1>1, Durable
  <2>2. \A j \in Keys : submitted'[j] = IF j = k THEN 1 ELSE submitted[j]
    BY <1>3, <1>5 DEF IInv, StoreOK
  <2>3. file' = f
    BY DEF f
  <2>4. SubmittedOK'
    BY <1>6, <2>1, <2>2, <2>3 DEF IInv, SubmittedOK
  <2>5. DoneIsDurable'
    BY <1>3, <2>1, <2>3 DEF DoneIsDurable, Known, Upholds
  <2> QED BY <2>4, <2>5
<1>17. MemoryOK'
  BY <1>1, <1>3, <1>4, <1>7, <1>9, <1>11, Remembering
<1> QED BY <1>10, <1>12, <1>13, <1>14, <1>15, <1>16, <1>17 DEF IInv

\* The call whose snapshot leaves the queue ends, and the file is the same or that
\* snapshot.
LEMMA Leaving ==
  ASSUME IInv, NEW i \in NextWrites, NEW f \in {file, writes[i].snapshot},
         file' = f, writes' = RemoveAt(writes, i), Ends(writes[i].by),
         orders' = orders, submitted' = submitted, overlapped' = overlapped, now' = now,
         told' \in [Keys -> News], \A k \in Keys : Upholds(overlapped, told'[k], f[k]),
         recalled' \in [Keys -> News], \A k \in Keys : Upholds(overlapped, recalled'[k], orders[k]),
         unsaved' \in BOOLEAN, unsaved' \/ f = writes[i].snapshot
  PROVE  IInv'
<1> DEFINE p == writes[i].by
<1>1. /\ i = 1 /\ 1 \in DOMAIN writes /\ p \in Calls /\ f \in Versions
      /\ InOrder(overlapped, f, RemoveAt(writes, i), orders) /\ Advances(overlapped, file, f)
  <2>1. Advances(overlapped, file, file)
    BY SizesAssumption DEF Advances, Follows, IInv, StoreOK, Versions, Books, Order
  <2> QED BY <2>1, Saved DEF Write, IInv, StoreOK
<1>2. /\ pc' = [pc EXCEPT ![p] = "idle"] /\ job' = [job EXCEPT ![p] = NoKey]
      /\ copy' = [copy EXCEPT ![p] = NoOrder]
  BY DEF Ends
<1>3. \A q \in Calls \ {p} : pc'[q] = pc[q] /\ job'[q] = job[q] /\ copy'[q] = copy[q]
  BY <1>1, <1>2 DEF IInv, StoreOK
<1>4. pc'[p] = "idle"
  BY <1>1, <1>2 DEF IInv, StoreOK
<1>5. writes' \in Seq(Write) /\ Waits(writes', pc', job')
  BY <1>1, <1>3, Popped DEF IInv, StoreOK
<1>6. StoreOK'
  <2>1. NoOrder \in Order
    BY SizesAssumption, BoundsAssumption DEF NoOrder, Order, Statuses
  <2> QED BY <1>1, <1>2, <1>5, <2>1 DEF IInv, StoreOK, PCs
<1>7. InOrder(overlapped, file, writes, orders)' /\ Waits(writes, pc, job)'
  BY <1>1, <1>5
<1>8. CreatingOK' /\ AdapterOK'
  BY <1>3, <1>4 DEF IInv, CreatingOK, AdapterOK
<1>9. SubmittedOK' /\ DoneIsDurable'
  <2>1. \A k \in Keys : submitted[k] = 1 => f[k].status # "NONE"
    BY <1>1, Durable
  <2>2. SubmittedOK'
    BY <2>1 DEF IInv, SubmittedOK
  <2>3. DoneIsDurable'
    BY DEF DoneIsDurable, Known, Upholds
  <2> QED BY <2>2, <2>3
<1>10. MemoryOK'
  BY Newest DEF MemoryOK, AllSaved
<1> QED BY <1>6, <1>7, <1>8, <1>9, <1>10 DEF IInv

LEMMA Answering ==
  ASSUME IInv, NEW i \in NextWrites, file' = writes[i].snapshot,
         Answer(writes[i].by, RemoveAt(writes, i), writes[i].snapshot),
         overlapped' = overlapped, now' = now, unsaved' = FALSE
  PROVE  IInv'
<1> DEFINE p == writes[i].by
           f == writes[i].snapshot
           rest == RemoveAt(writes, i)
           k == job[p]
           done == [ placed   |-> pc[p] # "rejecting",
                     canceled |-> pc[p] = "cancelling",
                     filled   |-> IF pc[p] = "filling" THEN f[k].filled ELSE 0 ]
           heard == [told EXCEPT ![k] = Both(@, done)]
<1>1. /\ i = 1 /\ 1 \in DOMAIN writes /\ p \in Calls /\ f \in Versions
      /\ Advances(overlapped, file, f)
  BY Saved DEF Write
<1>2. /\ Ends(p) /\ writes' = rest /\ orders' = orders /\ submitted' = submitted
      /\ pc[p] \in {"accepting", "rejecting", "filling", "cancelling"}
  BY DEF Answer
<1>3. IF rest = <<>>
        THEN /\ told' = [j \in Keys |-> Both(heard[j], recalled[j])]
             /\ recalled' = [j \in Keys |-> NoNews]
        ELSE told' = heard /\ recalled' = recalled
  BY DEF Answer
<1>4. /\ k \in Keys
      /\ pc[p] \in {"accepting", "filling"} => Known(f[k])
      /\ pc[p] = "cancelling" => f[k].status = "CANCELED"
  <2>1. 1 \in 1 .. Len(writes)
    BY <1>1 DEF IInv, StoreOK
  <2> QED BY <1>1, <2>1 DEF IInv, Waits
<1>5. \A j \in Keys : f[j] \in Order /\ orders[j] \in Order /\ told[j] \in News /\ recalled[j] \in News
  BY <1>1 DEF IInv, StoreOK, Versions, Books
<1>6. done \in News /\ Upholds(overlapped, done, f[k])
  <2>1. f[k].filled \in Nat /\ f[k].filled \in 0 .. Lots /\ 0 \in 0 .. Lots
    BY <1>4, <1>5, FilledNat, SizesAssumption
  <2>2. pc[p] # "rejecting" => Known(f[k])
    BY <1>2, <1>4 DEF Known
  <2>3. /\ done.placed = (pc[p] # "rejecting") /\ done.canceled = (pc[p] = "cancelling")
        /\ done.filled \in {f[k].filled, 0}
    OBVIOUS
  <2>4. done \in News
    BY <2>1 DEF News
  <2> HIDE DEF done, f, k, p
  <2>5. ~overlapped => f[k].filled >= done.filled
    BY <2>1, <2>3
  <2> QED BY <1>4, <2>2, <2>3, <2>4, <2>5 DEF Upholds
<1>7. \A j \in Keys : Upholds(overlapped, told[j], f[j]) /\ Upholds(overlapped, recalled[j], orders[j])
  BY <1>1, Durable DEF IInv, MemoryOK
<1> HIDE DEF done
<1>8. \A j \in Keys : heard[j] \in News /\ Upholds(overlapped, heard[j], f[j])
  <2> HIDE DEF f, k
  <2>1. Both(told[k], done) \in News /\ Upholds(overlapped, Both(told[k], done), f[k])
    BY <1>4, <1>5, <1>6, <1>7, BothUpheld
  <2>2. \A j \in Keys : heard[j] = IF j = k THEN Both(told[k], done) ELSE told[j]
    BY <1>4 DEF IInv, StoreOK
  <2> QED BY <1>5, <1>7, <2>1, <2>2
<1>9. heard \in [Keys -> News]
  BY <1>8 DEF IInv, StoreOK
<1> HIDE DEF heard
<1>10. CASE rest = <<>>
  <2>1. f = orders
    BY <1>10, Newest
  <2>2. ASSUME NEW j \in Keys
        PROVE  /\ Both(heard[j], recalled[j]) \in News
               /\ Upholds(overlapped, Both(heard[j], recalled[j]), f[j])
               /\ NoNews \in News /\ Upholds(overlapped, NoNews, orders[j])
    <3>1. Upholds(overlapped, recalled[j], f[j])
      BY <1>7, <2>1
    <3> QED BY <1>5, <1>8, <3>1, BothUpheld, NothingUpheld
  <2>3. /\ told' \in [Keys -> News] /\ recalled' \in [Keys -> News]
        /\ \A j \in Keys : Upholds(overlapped, told'[j], f[j]) /\ Upholds(overlapped, recalled'[j], orders[j])
    BY <1>3, <1>10, <2>2
  <2> QED BY <1>2, <2>3, Leaving
<1>11. CASE rest # <<>>
  <2>1. /\ told' \in [Keys -> News] /\ recalled' \in [Keys -> News]
        /\ \A j \in Keys : Upholds(overlapped, told'[j], f[j]) /\ Upholds(overlapped, recalled'[j], orders[j])
    BY <1>3, <1>7, <1>8, <1>9, <1>11 DEF IInv, StoreOK
  <2> QED BY <1>2, <2>1, Leaving
<1> QED BY <1>10, <1>11

LEMMA Failing ==
  ASSUME IInv, SaveFails
  PROVE  IInv'
<1>1. PICK i \in NextWrites : writes' = RemoveAt(writes, i) /\ Ends(writes[i].by)
  BY DEF SaveFails
<1>2. /\ file' \in OnDisk /\ orders' = orders /\ submitted' = submitted /\ told' = told
      /\ overlapped' = overlapped /\ now' = now /\ recalled' = recalled /\ unsaved' = TRUE
  BY DEF SaveFails
<1>3. i = 1 /\ writes[i] \in Write /\ Advances(overlapped, file, writes[i].snapshot)
  BY Saved
<1>4. file' \in {file, writes[i].snapshot}
  BY <1>2, <1>3 DEF OnDisk, NextWrites
<1>5. Advances(overlapped, file, file)
  BY SizesAssumption DEF Advances, Follows, IInv, StoreOK, Versions, Books, Order
<1>6. file' \in Versions /\ Advances(overlapped, file, file')
  BY <1>3, <1>4, <1>5 DEF Write, IInv, StoreOK
<1>7. \A k \in Keys : Upholds(overlapped, told[k], file'[k])
  BY <1>6, Durable
<1>8. /\ told \in [Keys -> News] /\ recalled \in [Keys -> News]
      /\ \A k \in Keys : Upholds(overlapped, recalled[k], orders[k])
  BY DEF IInv, StoreOK, MemoryOK
<1> DEFINE f == file'
<1>9. f \in {file, writes[i].snapshot} /\ file' = f
  BY <1>4
<1> HIDE DEF f
<1> QED BY <1>1, <1>2, <1>7, <1>8, <1>9, Leaving

LEMMA Restarting ==
  ASSUME IInv, Restart
  PROVE  IInv'
<1>1. /\ file' \in OnDisk /\ writes' = <<>>
      /\ orders' = [k \in Keys |-> safeRestoredOrder(file'[k])]
      /\ pc' = [p \in Calls |-> "idle"] /\ job' = [p \in Calls |-> NoKey]
      /\ copy' = [p \in Calls |-> NoOrder]
      /\ submitted' = submitted /\ told' = told /\ overlapped' = overlapped /\ now' = now
      /\ recalled' = [k \in Keys |-> NoNews] /\ unsaved' = FALSE
  BY DEF Restart
<1>2. file' \in Versions /\ Advances(overlapped, file, file')
  <2>1. Advances(overlapped, file, file)
    BY SizesAssumption DEF Advances, Follows, IInv, StoreOK, Versions, Books, Order
  <2>2. CASE file' = file
    BY <2>1, <2>2 DEF IInv, StoreOK
  <2>3. ASSUME NEW i \in NextWrites, file' = writes[i].snapshot
        PROVE  file' \in Versions /\ Advances(overlapped, file, file')
    BY <2>3, Saved DEF Write
  <2> QED BY <1>1, <2>2, <2>3 DEF OnDisk
<1>3. \A k \in Keys : /\ Upholds(overlapped, told[k], file'[k])
                      /\ submitted[k] = 1 => file'[k].status # "NONE"
  BY <1>2, Durable
<1> DEFINE f == file'
<1> HIDE DEF f
<1>4. \A k \in Keys : /\ f[k] \in Order
                      /\ safeRestoredOrder(f[k]) \in Order
                      /\ safeRestoredOrder(f[k]).status = f[k].status
                      /\ safeRestoredOrder(f[k]).filled = f[k].filled
                      /\ safeRestoredOrder(f[k]).createdAt = f[k].createdAt
  <2>1. \A o \in Order : /\ safeRestoredOrder(o) \in Order
                         /\ safeRestoredOrder(o).status = o.status
                         /\ safeRestoredOrder(o).filled = o.filled
                         /\ safeRestoredOrder(o).createdAt = o.createdAt
    BY DEF safeRestoredOrder, Order
  <2>2. \A k \in Keys : f[k] \in Order
    BY <1>2 DEF f, Versions, Books
  <2> QED BY <2>1, <2>2
<1>5. orders' \in [Keys -> Order] /\ \A k \in Keys : orders'[k] = safeRestoredOrder(f[k])
  BY <1>1, <1>4 DEF f
<1>6. orders' \in Versions
  <2>1. \A k \in Keys : Orderly(f[k])
    BY <1>2 DEF f, Versions
  <2> QED BY <1>4, <1>5, <2>1 DEF Versions, Books, Orderly
<1>7. StoreOK'
  <2>1. NoOrder \in Order
    BY SizesAssumption, BoundsAssumption DEF NoOrder, Order, Statuses
  <2>2. writes' \in Seq(Write)
    BY <1>1
  <2>3. recalled' \in [Keys -> News] /\ unsaved' \in BOOLEAN
    BY <1>1, <2>1, NothingUpheld
  <2> QED BY <1>1, <1>2, <1>6, <2>1, <2>2, <2>3 DEF IInv, StoreOK, PCs
<1>8. InOrder(overlapped, file, writes, orders)'
  <2>1. Len(writes') = 0
    BY <1>1
  <2>2. Advances(overlapped, f, orders')
    BY <1>4, <1>5, SizesAssumption DEF Advances, Follows, Known, Order
  <2> QED BY <1>1, <2>1, <2>2 DEF f, InOrder
<1>9. Waits(writes, pc, job)'
  BY <1>1 DEF Waits
<1>10. CreatingOK' /\ AdapterOK'
  BY <1>1 DEF CreatingOK, AdapterOK
<1>11. SubmittedOK' /\ DoneIsDurable'
  <2>1. SubmittedOK'
    BY <1>1, <1>3 DEF IInv, SubmittedOK
  <2>2. DoneIsDurable'
    BY <1>1, <1>3 DEF DoneIsDurable, Known, Upholds
  <2> QED BY <2>1, <2>2
<1>12. MemoryOK'
  <2>1. \A k \in Keys : recalled'[k] = NoNews /\ orders'[k] \in Order
    BY <1>1, <1>4, <1>5
  <2>2. \A k \in Keys : Upholds(overlapped', recalled'[k], orders'[k])
    BY <2>1, NothingUpheld
  <2>3. \A k \in Keys : f[k].status = orders'[k].status /\ f[k].filled = orders'[k].filled
    BY <1>4, <1>5
  <2> QED BY <1>1, <2>2, <2>3 DEF MemoryOK, AllSaved, f
<1> QED BY <1>7, <1>8, <1>9, <1>10, <1>11, <1>12 DEF IInv

\* A call about capital starts or ends.
LEMMA Accounting ==
  ASSUME IInv, NEW p \in Calls, pc[p] \in {"idle", "seeding", "settling"},
         NEW step \in {"idle", "seeding", "settling"}, NEW k \in {NoKey},
         pc' = [pc EXCEPT ![p] = step], job' = [job EXCEPT ![p] = k],
         copy' \in [Calls -> Order], \A q \in Calls \ {p} : copy'[q] = copy[q],
         UNCHANGED <<store, submitted, told, recalled, unsaved, overlapped, now>>
  PROVE  IInv'
<1>1. /\ orders' = orders /\ file' = file /\ writes' = writes
      /\ submitted' = submitted /\ told' = told /\ overlapped' = overlapped /\ now' = now
      /\ recalled' = recalled /\ unsaved' = unsaved
  BY DEF store
<1>2. pc'[p] = step /\ \A q \in Calls \ {p} : pc'[q] = pc[q] /\ job'[q] = job[q] /\ copy'[q] = copy[q]
  BY DEF IInv, StoreOK
<1>3. StoreOK'
  BY <1>1 DEF IInv, StoreOK, PCs
<1>4. InOrder(overlapped, file, writes, orders)'
  BY <1>1 DEF IInv
<1>5. Waits(writes, pc, job)'
  <2>1. pc[p] \notin Saving
    BY DEF Saving
  <2>2. Waits(writes, pc', job')
    BY <1>2, <2>1, Elsewhere DEF IInv, StoreOK
  <2> QED BY <1>1, <2>2
<1>6. CreatingOK' /\ AdapterOK'
  BY <1>1, <1>2 DEF IInv, CreatingOK, AdapterOK
<1>7. SubmittedOK' /\ DoneIsDurable' /\ MemoryOK'
  BY <1>1 DEF IInv, SubmittedOK, DoneIsDurable, MemoryOK, AllSaved
<1> QED BY <1>3, <1>4, <1>5, <1>6, <1>7 DEF IInv

LEMMA Adopting ==
  ASSUME IInv, NEW p \in Calls, NEW c, Adopts(p, c)
  PROVE  IInv'
<1> DEFINE step == IF c.sequence = 0 THEN "seeding" ELSE "settling"
<1>1. step \in {"idle", "seeding", "settling"}
  OBVIOUS
<1>2. /\ pc[p] \in {"idle", "seeding", "settling"}
      /\ pc' = [pc EXCEPT ![p] = step] /\ job' = [job EXCEPT ![p] = NoKey]
      /\ copy' = copy /\ UNCHANGED <<store, submitted, told, recalled, unsaved, overlapped, now>>
  BY DEF Adopts, Starts
<1>3. copy' \in [Calls -> Order] /\ \A q \in Calls \ {p} : copy'[q] = copy[q]
  BY <1>2 DEF IInv, StoreOK
<1> HIDE DEF step
<1> QED BY <1>1, <1>2, <1>3, Accounting

LEMMA Closing ==
  ASSUME IInv, NEW p \in Calls, pc[p] \in {"seeding", "settling"}, Ends(p),
         UNCHANGED <<store, submitted, told, recalled, unsaved, overlapped, now>>
  PROVE  IInv'
<1>1. /\ pc' = [pc EXCEPT ![p] = "idle"] /\ job' = [job EXCEPT ![p] = NoKey]
      /\ copy' = [copy EXCEPT ![p] = NoOrder]
  BY DEF Ends
<1>2. NoOrder \in Order
  BY SizesAssumption, BoundsAssumption DEF NoOrder, Order, Statuses
<1>3. copy' \in [Calls -> Order] /\ \A q \in Calls \ {p} : copy'[q] = copy[q]
  BY <1>1, <1>2 DEF IInv, StoreOK
<1> QED BY <1>1, <1>3, Accounting

\* A repeated call is told what memory says, which is on disk if all is saved.
LEMMA Recalling ==
  ASSUME IInv, NEW k \in Keys, AnswerFromMemory(k)
  PROVE  IInv'
<1> DEFINE heard(news) == [news EXCEPT ![k] = Both(@, Says(orders[k]))]
<1>1. /\ orders' = orders /\ file' = file /\ writes' = writes /\ pc' = pc /\ job' = job /\ copy' = copy
      /\ submitted' = submitted /\ unsaved' = unsaved /\ overlapped' = overlapped /\ now' = now
  BY DEF AnswerFromMemory, store, calls, Others
<1>2. IF AllSaved THEN told' = heard(told) /\ recalled' = recalled
                  ELSE recalled' = heard(recalled) /\ told' = told
  BY DEF AnswerFromMemory
<1>3. ASSUME NEW news \in [Keys -> News], NEW book \in Books,
             \A j \in Keys : Upholds(overlapped, news[j], book[j]),
             book[k].status = orders[k].status, book[k].filled = orders[k].filled
      PROVE  /\ heard(news) \in [Keys -> News]
             /\ \A j \in Keys : Upholds(overlapped, heard(news)[j], book[j])
  <2>1. orders[k] \in Order /\ news[k] \in News
    BY DEF IInv, StoreOK, Versions, Books
  <2>2. Says(orders[k]) \in News /\ Upholds(overlapped, Says(orders[k]), book[k])
    BY <1>3, <2>1, SaysUpheld
  <2>3. /\ Both(news[k], Says(orders[k])) \in News
        /\ Upholds(overlapped, Both(news[k], Says(orders[k])), book[k])
    BY <1>3, <2>1, <2>2, BothUpheld
  <2> QED BY <1>3, <2>3
<1>4. /\ told \in [Keys -> News] /\ recalled \in [Keys -> News] /\ orders \in Books /\ file \in Books
      /\ \A j \in Keys : Upholds(overlapped, recalled[j], orders[j]) /\ Upholds(overlapped, told[j], file[j])
  BY DEF IInv, StoreOK, MemoryOK, DoneIsDurable, Versions, Upholds, Known
<1>5. AllSaved => file[k].status = orders[k].status /\ file[k].filled = orders[k].filled
  BY DEF IInv, MemoryOK
<1> HIDE DEF heard
<1>6. /\ told' \in [Keys -> News] /\ recalled' \in [Keys -> News]
      /\ \A j \in Keys : Upholds(overlapped, recalled'[j], orders[j]) /\ Upholds(overlapped, told'[j], file[j])
  BY <1>2, <1>3, <1>4, <1>5
<1>7. StoreOK'
  BY <1>1, <1>6 DEF IInv, StoreOK
<1>8. InOrder(overlapped, file, writes, orders)' /\ Waits(writes, pc, job)'
  BY <1>1 DEF IInv
<1>9. CreatingOK' /\ AdapterOK' /\ SubmittedOK'
  BY <1>1 DEF IInv, CreatingOK, AdapterOK, SubmittedOK
<1>10. DoneIsDurable' /\ MemoryOK'
  BY <1>1, <1>6 DEF IInv, DoneIsDurable, MemoryOK, AllSaved, Upholds, Known
<1> QED BY <1>7, <1>8, <1>9, <1>10 DEF IInv

LEMMA Consecution == IInv /\ [Next]_vars => IInv'
<1> SUFFICES ASSUME IInv, [Next]_vars  PROVE IInv'
  OBVIOUS
<1>1. ASSUME NEW p \in Calls, NEW k \in Keys, PlaceOrder(p, k)  PROVE IInv'
  BY <1>1, Placing
<1>2. ASSUME NEW p \in Calls, NEW k \in Keys, ApplyPaperFill(p, k)  PROVE IInv'
  BY <1>2, Filling
<1>3. ASSUME NEW p \in Calls, NEW k \in Keys, CancelOrder(p, k)  PROVE IInv'
  BY <1>3, Cancelling
<1>4. ASSUME NEW p \in Calls, CancelAnswered(p)  PROVE IInv'
  BY <1>4, Cancelled
<1>5. ASSUME NEW p \in Calls, ApplyCapitalSettlement(p)  PROVE IInv'
  <2>1. PICK e \in Equities, t \in capital.observedAt .. now + Ahead : Adopts(p, Settlement(capital, e, t))
    BY <1>5 DEF ApplyCapitalSettlement
  <2> QED BY <2>1, Adopting
<1>6. ASSUME NEW p \in Calls, InitializeWallet(p)  PROVE IInv'
  BY <1>6, Adopting DEF InitializeWallet
<1>7. ASSUME NEW p \in Calls, CapitalSaved(p)  PROVE IInv'
  BY <1>7, Closing DEF CapitalSaved, history
<1>8. ASSUME NEW p \in Calls, CapitalSaveFails(p)  PROVE IInv'
  BY <1>8, Closing DEF CapitalSaveFails
<1>9. ASSUME SaveNow  PROVE IInv'
  <2>1. PICK i \in NextWrites :
          /\ file' = writes[i].snapshot
          /\ \/ Submit(writes[i].by, RemoveAt(writes, i))
             \/ Answer(writes[i].by, RemoveAt(writes, i), writes[i].snapshot)
          /\ overlapped' = overlapped /\ now' = now /\ unsaved' = FALSE
    BY <1>9 DEF SaveNow, Others
  <2> QED BY <2>1, Submitting, Answering
<1>10. ASSUME SaveFails  PROVE IInv'
  BY <1>10, Failing
<1>11. ASSUME Restart  PROVE IInv'
  BY <1>11, Restarting
<1>12. ASSUME Tick  PROVE IInv'
  <2>1. /\ orders' = orders /\ file' = file /\ writes' = writes /\ pc' = pc /\ job' = job /\ copy' = copy
        /\ submitted' = submitted /\ told' = told /\ overlapped' = overlapped
        /\ recalled' = recalled /\ unsaved' = unsaved
        /\ now < MaxTime /\ now' = now + 1
    BY <1>12 DEF Tick, store, calls, history
  <2>2. now' \in 0 .. MaxTime
    BY <2>1, BoundsAssumption DEF IInv, StoreOK
  <2> QED BY <2>1, <2>2
          DEF IInv, StoreOK, CreatingOK, AdapterOK, SubmittedOK, DoneIsDurable, MemoryOK, AllSaved
<1>13. CASE UNCHANGED vars
  BY <1>13 DEF vars, store, calls, history, IInv, StoreOK, CreatingOK, AdapterOK, SubmittedOK, DoneIsDurable,
               MemoryOK, AllSaved
<1>14. ASSUME NEW k \in Keys, PlaceRepeated(k) \/ CancelRepeated(k)  PROVE IInv'
  BY <1>14, Recalling DEF PlaceRepeated, CancelRepeated
<1> QED BY <1>1, <1>2, <1>3, <1>4, <1>5, <1>6, <1>7, <1>8, <1>9, <1>10, <1>11, <1>12, <1>13, <1>14 DEF Next

\* The file, the queued snapshots and memory stay versions of one book in the order
\* they were made, each awaited by its call (#persist, #saveNow, restorePaperState).
THEOREM GatewayInvariant == Spec => []IInv
BY Starting, Consecution, PTL DEF Spec

\* An order is given to the adapter at most once (placeOrder, restorePaperState): it
\* is given when its own save has ended, on disk from then on, and an order on disk is
\* never placed again.
THEOREM OrderSubmittedOnce == Spec => []SubmittedOnce
<1>1. IInv => SubmittedOnce
  BY DEF IInv, SubmittedOK, SubmittedOnce
<1> QED BY <1>1, GatewayInvariant, PTL

\* What a caller was told is on disk from then on, whatever is saved, fails to be saved
\* or is read at a restart: the answer of a call whose own save has ended, and one given
\* from memory (placeOrder under a known key, cancelOrder of a canceled order) once the
\* last save succeeded and none is queued.
THEOREM ReportedIsDurable == Spec => []DoneIsDurable
<1>1. IInv => DoneIsDurable
  BY DEF IInv
<1> QED BY <1>1, GatewayInvariant, PTL

-----------------------------------------------------------------------------
(* Capital: its types, of which the milestones need an induction.          *)

\* Induction: a set that holds 0, and with a number the next, holds them all.
LEMMA Induction ==
  ASSUME NEW T \in SUBSET Nat, 0 \in T, \A n \in T : n + 1 \in T
  PROVE  T = Nat
<1> SUFFICES ASSUME Nat \ T # {}  PROVE FALSE
  OBVIOUS
<1>1. IsWellFoundedOn(OpToRel(<, Nat), Nat)
  BY NatLessThanWellFounded
<1> DEFINE Rest == Nat \ T
           Before == OpToRel(<, Nat)
<1>2. PICK m \in Rest : \A n \in Rest : <<n, m>> \notin Before
  <2>1. Rest \subseteq Nat /\ Rest # {} /\ IsWellFoundedOn(Before, Nat)
    BY <1>1
  <2> HIDE DEF Rest, Before
  <2>2. \E x \in Rest : \A y \in Rest : ~ (<<y, x>> \in Before)
    BY <2>1, WFMin
  <2> QED BY <2>2
<1>3. m # 0 /\ m - 1 \in Nat /\ m - 1 < m /\ (m - 1) + 1 = m
  <2>1. m \in Nat /\ m \notin T
    OBVIOUS
  <2> QED BY <2>1
<1>4. <<m - 1, m>> \in OpToRel(<, Nat)
  BY <1>3 DEF OpToRel
<1>5. m - 1 \in T
  BY <1>2, <1>3, <1>4
<1> QED BY <1>3, <1>5

\* What holds of 0, and of a number if of the one before, holds up to m.
LEMMA UpTo ==
  ASSUME NEW T, NEW m \in Nat, 0 \in T, \A i \in 1 .. m : i - 1 \in T => i \in T
  PROVE  0 .. m \subseteq T
<1> DEFINE U == {i \in Nat : i <= m => i \in T}
<1>1. 0 \in U
  OBVIOUS
<1>2. ASSUME NEW n \in U  PROVE n + 1 \in U
  <2> SUFFICES ASSUME n + 1 <= m  PROVE n + 1 \in T
    OBVIOUS
  <2>1. n \in Nat /\ n + 1 \in 1 .. m /\ (n + 1) - 1 = n /\ n <= m
    OBVIOUS
  <2> QED BY <2>1
<1>3. U = Nat
  <2>1. U \in SUBSET Nat
    OBVIOUS
  <2> HIDE DEF U
  <2> QED BY <1>1, <1>2, <2>1, Induction
<1> QED BY <1>3

\* A function F of a set S into itself can be applied again and again, m times to c.
Iterable(S, F, c, m) ==
  \E f \in [0 .. m -> S] : f[0] = c /\ \A i \in 1 .. m : f[i] = F[f[i - 1]]

LEMMA Iterates ==
  ASSUME NEW S, NEW F \in [S -> S], NEW c \in S, NEW m \in Nat
  PROVE  Iterable(S, F, c, m)
<1> DEFINE Chain(f, n) == f[0] = c /\ \A i \in 1 .. n : f[i] = F[f[i - 1]]
           T == {n \in Nat : \E f \in [0 .. n -> S] : Chain(f, n)}
<1>1. 0 \in T
  <2> DEFINE f == [i \in 0 .. 0 |-> c]
  <2>1. f \in [0 .. 0 -> S] /\ f[0] = c
    OBVIOUS
  <2> HIDE DEF f
  <2> QED BY <2>1
<1>2. ASSUME NEW n \in T  PROVE n + 1 \in T
  <2>1. PICK f \in [0 .. n -> S] : Chain(f, n)
    OBVIOUS
  <2> DEFINE g == [i \in 0 .. n + 1 |-> IF i = n + 1 THEN F[f[n]] ELSE f[i]]
  <2>2. g \in [0 .. n + 1 -> S]
    <3>1. \A i \in 0 .. n + 1 : i = n + 1 \/ i \in 0 .. n
      OBVIOUS
    <3>2. n \in 0 .. n
      OBVIOUS
    <3> QED BY <3>1, <3>2
  <2>3. g[0] = c
    BY <2>1
  <2>4. ASSUME NEW i \in 1 .. n + 1  PROVE g[i] = F[g[i - 1]]
    <3>1. i \in 0 .. n + 1 /\ i - 1 \in 0 .. n + 1 /\ i - 1 # n + 1 /\ i - 1 \in 0 .. n
      OBVIOUS
    <3>2. CASE i = n + 1
      BY <3>1, <3>2
    <3>3. CASE i # n + 1
      <4>1. i \in 1 .. n
        BY <3>3
      <4> QED BY <2>1, <3>1, <3>3, <4>1
    <3> QED BY <3>2, <3>3
  <2> HIDE DEF g
  <2>5. Chain(g, n + 1)
    BY <2>3, <2>4
  <2>6. n + 1 \in Nat
    OBVIOUS
  <2> HIDE DEF Chain
  <2> QED BY <2>2, <2>5, <2>6
<1>3. T = Nat
  <2>1. T \in SUBSET Nat
    OBVIOUS
  <2> HIDE DEF T
  <2> QED BY <1>1, <1>2, <2>1, Induction
<1>4. m \in T
  BY <1>3
<1> QED BY <1>4 DEF Iterable

\* A milestone keeps the type, the first base, the equity at work and the rest.
Kin(a, b) ==
  /\ b.base - b.reserve = a.base - a.reserve /\ b.active + b.reserve = a.active + a.reserve
  /\ b.reserve - a.reserve = b.base - a.base
  /\ b.initialized = a.initialized /\ b.excluded = a.excluded
  /\ b.sequence = a.sequence /\ b.peak = a.peak

LEMMA MilestoneKeeps ==
  ASSUME NEW s \in Capital, Milestone(s)
  PROVE  /\ Reserve(s) \in Capital /\ Kin(s, Reserve(s))
         /\ Reserve(s).base = s.base + FloorBps(s.base, 500)
<1> DEFINE r == FloorBps(s.base, 500)
<1>1. s.base \in Nat /\ s.active \in Nat /\ s.reserve \in Nat
  BY DEF Capital
<1>2. r \in Nat /\ r <= s.base /\ s.base <= nextTrigger(s.base)
  BY <1>1 DEF FloorBps, CeilBps, nextTrigger
<1>3. nextTrigger(s.base) \in Nat /\ s.active >= nextTrigger(s.base)
  BY <1>1 DEF CeilBps, nextTrigger, Milestone
<1>4. Reserve(s) = [s EXCEPT !.reserve = s.reserve + r, !.active = s.active - r, !.base = s.base + r]
  BY DEF Reserve
<1> HIDE DEF r
<1>5. s.reserve + r \in Nat /\ s.active - r \in Nat /\ s.base + r \in Nat
  BY <1>1, <1>2, <1>3
<1>6. Reserve(s) \in Capital
  BY <1>4, <1>5 DEF Capital
<1>7. /\ Reserve(s).base = s.base + r /\ Reserve(s).reserve = s.reserve + r
      /\ Reserve(s).active = s.active - r
      /\ Reserve(s).initialized = s.initialized /\ Reserve(s).excluded = s.excluded
      /\ Reserve(s).sequence = s.sequence /\ Reserve(s).peak = s.peak
  BY <1>4 DEF Capital
<1>8. Kin(s, Reserve(s))
  BY <1>1, <1>2, <1>7 DEF Kin
<1> QED BY <1>6, <1>7, <1>8 DEF r

\* What is after the milestones is the last of a chain of them.
Moved(s) == IF Milestone(s) THEN Reserve(s) ELSE s
LEMMA MilestonesChain ==
  ASSUME NEW c \in Capital
  PROVE  \E step : /\ AfterMilestones(c) = step[MaxSteps] /\ step[0] = c
                   /\ \A i \in 0 .. MaxSteps : step[i] \in Capital
                   /\ \A i \in 1 .. MaxSteps : step[i] = Moved(step[i - 1])
<1> DEFINE Def(g) == [n \in 0 .. MaxSteps |-> IF n = 0 THEN c ELSE Moved(g[n - 1])]
           step == CHOOSE g : g = Def(g)
<1>1. ASSUME NEW s \in Capital  PROVE Moved(s) \in Capital
  BY MilestoneKeeps DEF Moved
<1>2. MaxSteps \in Nat
  BY BoundsAssumption
<1>3. PICK f \in [0 .. MaxSteps -> Capital] : f[0] = c /\ \A i \in 1 .. MaxSteps : f[i] = Moved(f[i - 1])
  <2> DEFINE F == [s \in Capital |-> Moved(s)]
  <2>1. F \in [Capital -> Capital]
    BY <1>1
  <2> HIDE DEF F
  <2>2. Iterable(Capital, F, c, MaxSteps)
    BY <1>2, <2>1, Iterates
  <2>3. PICK f \in [0 .. MaxSteps -> Capital] : f[0] = c /\ \A i \in 1 .. MaxSteps : f[i] = F[f[i - 1]]
    BY <2>2 DEF Iterable
  <2>4. \A i \in 1 .. MaxSteps : f[i - 1] \in Capital
    BY <1>2
  <2>5. \A i \in 1 .. MaxSteps : f[i] = Moved(f[i - 1])
    BY <2>3, <2>4 DEF F
  <2> QED BY <2>3, <2>5
<1>4. f = Def(f)
  <2>1. ASSUME NEW n \in 0 .. MaxSteps  PROVE f[n] = Def(f)[n]
    <3>1. n = 0 \/ n \in 1 .. MaxSteps
      BY <1>2
    <3> QED BY <1>3, <3>1
  <2> QED BY <2>1
<1>5. step = Def(step)
  <2> HIDE DEF Def
  <2> QED BY <1>4
<1> HIDE DEF step
<1>6. step[0] = c /\ \A i \in 1 .. MaxSteps : step[i] = Moved(step[i - 1])
  BY <1>2, <1>5
<1>7. \A i \in 0 .. MaxSteps : step[i] \in Capital
  <2> DEFINE T == {i \in 0 .. MaxSteps : step[i] \in Capital}
  <2>1. 0 \in T
    BY <1>2, <1>6
  <2>2. ASSUME NEW i \in 1 .. MaxSteps, i - 1 \in T  PROVE i \in T
    <3>1. i \in 0 .. MaxSteps
      BY <1>2
    <3> QED BY <1>1, <1>6, <2>2, <3>1
  <2>3. 0 .. MaxSteps \subseteq T
    <3> HIDE DEF T
    <3> QED BY <1>2, <2>1, <2>2, UpTo
  <2> QED BY <2>3
<1>8. AfterMilestones(c) = step[MaxSteps]
  BY DEF AfterMilestones, step, Moved
<1> QED BY <1>6, <1>7, <1>8

LEMMA MilestonesTyped ==
  ASSUME NEW c \in Capital
  PROVE  AfterMilestones(c) \in Capital
BY MilestonesChain, BoundsAssumption

\* The lesser and the greater of two numbers.
LEMMA SmallerOfTwo ==
  ASSUME NEW m \in Nat, NEW n \in Nat
  PROVE  Min({m, n}) \in Nat /\ Min({m, n}) <= m /\ Min({m, n}) <= n /\ Min({m, n}) \in {m, n}
<1>1. \E x \in {m, n} : \A y \in {m, n} : x <= y
  <2>1. m <= n \/ n <= m
    OBVIOUS
  <2> QED BY <2>1
<1>2. Min({m, n}) \in {m, n} /\ \A y \in {m, n} : Min({m, n}) <= y
  BY <1>1 DEF Min
<1> QED BY <1>2

LEMMA LargerOfTwo ==
  ASSUME NEW m \in Nat, NEW n \in Nat
  PROVE  Max({m, n}) \in Nat /\ Max({m, n}) >= m /\ Max({m, n}) >= n /\ Max({m, n}) \in {m, n}
<1>1. \E x \in {m, n} : \A y \in {m, n} : x >= y
  <2>1. m >= n \/ n >= m
    OBVIOUS
  <2> QED BY <2>1
<1>2. Max({m, n}) \in {m, n} /\ \A y \in {m, n} : Max({m, n}) >= y
  BY <1>1 DEF Max
<1> QED BY <1>2

\* What a settlement starts from.
LEMMA AtWorkTyped ==
  ASSUME NEW c \in Capital, NEW e \in Nat, c.initialized => e >= c.reserve + c.excluded
  PROVE  AtWork(c, e) \in Capital
<1>0. InitialLimit \in Nat /\ c.reserve \in Nat /\ c.excluded \in Nat
  BY CapitalAssumption DEF Capital
<1>1. CASE c.initialized
  <2>1. e - (c.reserve + c.excluded) \in Nat
    BY <1>0, <1>1
  <2>2. LaterAtWork(c, e) \in Capital
    BY <2>1 DEF LaterAtWork, Capital
  <2> QED BY <1>1, <2>2 DEF AtWork
<1>2. CASE ~c.initialized
  <2>1. Min({InitialLimit, e}) \in Nat /\ Min({InitialLimit, e}) <= e
    BY <1>0, SmallerOfTwo
  <2>2. e - Min({InitialLimit, e}) \in Nat
    BY <2>1
  <2> DEFINE base == Min({InitialLimit, e})
  <2> HIDE DEF base
  <2>3. base \in Nat /\ e - base \in Nat /\ (e > 0) \in BOOLEAN
    BY <2>1, <2>2 DEF base
  <2>4. FirstAtWork(c, e) =
          [c EXCEPT !.initialized = e > 0, !.base = base, !.active = base, !.excluded = e - base]
    BY DEF FirstAtWork, base
  <2>5. FirstAtWork(c, e) \in Capital
    <3> DEFINE started == e > 0
               rest == e - base
    <3>1. started \in BOOLEAN /\ rest \in Nat
      BY <2>3
    <3> HIDE DEF started, rest
    <3>2. [c EXCEPT !.initialized = started, !.base = base, !.active = base, !.excluded = rest] \in Capital
      BY <2>3, <3>1 DEF Capital
    <3> QED BY <2>4, <3>2 DEF started, rest
  <2> QED BY <1>2, <2>5 DEF AtWork
<1> QED BY <1>1, <1>2


LEMMA SettlementTyped ==
  ASSUME NEW c \in Capital, NEW e \in Nat, NEW t \in Nat, orders \in Books,
         c.initialized => e >= c.reserve + c.excluded
  PROVE  Settlement(c, e, t) \in Capital
<1>1. InitialLimit \in Nat /\ c.reserve \in Nat /\ c.excluded \in Nat /\ c.sequence \in Nat /\ c.peak \in Nat
  BY CapitalAssumption DEF Capital
<1>2. AtWork(c, e) \in Capital
  BY AtWorkTyped
<1> DEFINE s == AfterMilestones(AtWork(c, e))
<1>3. s \in Capital
  BY <1>2, MilestonesTyped
<1> HIDE DEF s
<1>4. s.base \in Nat /\ s.active \in Nat /\ s.sequence \in Nat /\ s.peak \in Nat
  BY <1>3 DEF Capital
<1>5. Min({s.base, s.active}) \in Nat
  BY <1>4, SmallerOfTwo
<1>6. Max({s.peak, e}) \in Nat
  BY <1>4, LargerOfTwo
<1>7. Placed(orders) \in SUBSET Keys
  BY DEF Placed
<1>8. Settlement(c, e, t) =
        [s EXCEPT !.effective = Min({s.base, s.active}), !.sequence = s.sequence + 1, !.observedAt = t,
                  !.covers = Placed(orders), !.peak = Max({s.peak, e})]
  BY DEF Settlement, s
<1> DEFINE lower == Min({s.base, s.active})
           higher == Max({s.peak, e})
           found == Placed(orders)
           next == s.sequence + 1
<1>9. lower \in Nat /\ higher \in Nat /\ found \in SUBSET Keys /\ next \in Nat
  BY <1>4, <1>5, <1>6, <1>7
<1>10. Settlement(c, e, t) =
         [s EXCEPT !.effective = lower, !.sequence = next, !.observedAt = t,
                   !.covers = found, !.peak = higher]
  BY <1>8
<1> HIDE DEF lower, higher, found, next
<1> QED BY <1>3, <1>9, <1>10 DEF Capital

-----------------------------------------------------------------------------
(* What is settled.  Of settlements that were neither early nor ahead of   *)
(* the disk: what one found closed is closed on disk, and every entry it   *)
(* did not find was placed at or after the time it is dated.  So a         *)
(* restart, which takes the older ones for settled, takes no other.        *)

Capitals == {capital, credited, capitalFile}
Settlers == {p \in Calls : pc[p] \in {"seeding", "settling"}}

Grounded(c) ==
  /\ c.observedAt <= now
  /\ \A k \in Entries :
       /\ k \in c.covers => file[k].status \in Closed
       /\ orders[k].status # "NONE" /\ k \notin c.covers => orders[k].createdAt >= c.observedAt

CapitalOK ==
  /\ Capitals \subseteq Capital /\ settled \subseteq Keys /\ early \in BOOLEAN /\ faults \in 0 .. MaxFaults
  /\ Settlers = {} => capital = credited
  /\ ~early => \A c \in Capitals : Grounded(c)
  /\ ~early => settled \cap Entries \subseteq capital.covers \cap credited.covers

\* The orders change: what is closed on disk is closed on disk, and an order is new
\* or as old as it was.
Ages ==
  /\ \A k \in Keys : file[k].status \in Closed => file'[k].status \in Closed
  /\ \A k \in Keys : orders'[k].status # "NONE" =>
       \/ orders'[k].createdAt = now
       \/ orders[k].status # "NONE" /\ orders'[k].createdAt = orders[k].createdAt

LEMMA OrdersMove ==
  ASSUME CapitalOK, UNCHANGED <<wallet, now, early>>, faults' \in 0 .. MaxFaults, Ages, Settlers' = Settlers
  PROVE  CapitalOK'
<1>1. /\ capital' = capital /\ credited' = credited /\ capitalFile' = capitalFile
      /\ settled' = settled /\ now' = now /\ early' = early
  BY DEF wallet
<1>2. Capitals' = Capitals
  BY <1>1 DEF Capitals
<1>3. ASSUME ~early, NEW c \in Capitals  PROVE Grounded(c)'
  <2>1. Grounded(c)
    BY <1>3 DEF CapitalOK
  <2>2. ASSUME NEW k \in Entries, orders'[k].status # "NONE", k \notin c.covers
        PROVE  orders'[k].createdAt >= c.observedAt
    <3>1. CASE orders'[k].createdAt = now
      <4>1. c.observedAt \in Nat /\ c.observedAt <= now
        BY <2>1 DEF CapitalOK, Capital, Grounded
      <4> QED BY <3>1, <4>1
    <3>2. CASE orders[k].status # "NONE" /\ orders'[k].createdAt = orders[k].createdAt
      BY <2>1, <2>2, <3>2 DEF Grounded
    <3> QED BY <2>2, <3>1, <3>2, KeysAssumption DEF Ages
  <2> QED BY <1>1, <2>1, <2>2, KeysAssumption DEF Grounded, Ages
<1> QED BY <1>1, <1>2, <1>3 DEF CapitalOK

\* A call that is not a settler goes on to something else that is none.
LEMMA SettlersStay ==
  ASSUME IInv, NEW p \in Calls, pc[p] \notin {"seeding", "settling"},
         NEW step \in PCs \ {"seeding", "settling"}, pc' = [pc EXCEPT ![p] = step]
  PROVE  Settlers' = Settlers
BY DEF IInv, StoreOK, Settlers

\* Saves change the file to a later version.
LEMMA FileCloses ==
  ASSUME IInv, NEW lost, NEW f, Advances(lost, file, f)
  PROVE  \A k \in Keys : file[k].status \in Closed => f[k].status \in Closed
BY DEF Advances, Follows

LEMMA OrderStepsCapital ==
  ASSUME IInv, CapitalOK, NEW p \in Calls, NEW k \in Keys,
         PlaceOrder(p, k) \/ ApplyPaperFill(p, k) \/ CancelOrder(p, k) \/ CancelAnswered(p)
  PROVE  CapitalOK'
<1>1. UNCHANGED <<wallet, now, early, faults>> /\ file' = file
  BY DEF PlaceOrder, ApplyPaperFill, CancelOrder, CancelAnswered, Beginning, Others, store
<1>2. orders \in Books
  BY DEF IInv, StoreOK, Versions
<1>3. CASE PlaceOrder(p, k)
  <2>1. pc[p] = "idle" /\ pc' = [pc EXCEPT ![p] = "creating"]
    BY <1>3 DEF PlaceOrder, Starts
  <2>2. orders' = [orders EXCEPT ![k] =
          [status |-> "RISK_ACCEPTED", filled |-> 0, recoveryHold |-> FALSE, createdAt |-> now]]
    BY <1>3 DEF PlaceOrder, Persist
  <2>3. Ages
    BY <1>1, <1>2, <2>2 DEF Ages, Books
  <2>4. Settlers' = Settlers
    BY <2>1, SettlersStay DEF PCs
  <2> QED BY <1>1, <2>3, <2>4, OrdersMove DEF CapitalOK
<1>4. CASE ApplyPaperFill(p, k)
  <2>1. pc[p] = "idle" /\ pc' = [pc EXCEPT ![p] = "filling"] /\ orders[k].status \in Fillable
    BY <1>4 DEF ApplyPaperFill, Starts
  <2>2. PICK filled, status : orders' = [orders EXCEPT ![k].filled = filled, ![k].status = status]
    <3>1. PICK n \in 1 .. Remaining(k) :
            LET filled == orders[k].filled + n IN
            Persist(p, writes, [orders EXCEPT
              ![k].filled = filled,
              ![k].status = IF filled = Lots THEN "FILLED" ELSE "PARTIALLY_FILLED"])
      BY <1>4 DEF ApplyPaperFill
    <3> QED BY <3>1 DEF Persist
  <2>3. Ages
    <3>1. orders[k].status # "NONE"
      BY <2>1 DEF Fillable
    <3>2. \A j \in Keys : orders'[j].createdAt = orders[j].createdAt /\ (j # k => orders'[j] = orders[j])
      BY <1>2, <2>2 DEF Books, Order
    <3> QED BY <1>1, <3>1, <3>2 DEF Ages
  <2>4. Settlers' = Settlers
    BY <2>1, SettlersStay DEF PCs
  <2> QED BY <1>1, <2>3, <2>4, OrdersMove DEF CapitalOK
<1>5. CASE CancelOrder(p, k)
  <2>1. pc[p] = "idle" /\ pc' = [pc EXCEPT ![p] = "atAdapter"] /\ orders' = orders
    BY <1>5 DEF CancelOrder, Starts, store
  <2>2. Ages
    BY <1>1, <2>1 DEF Ages
  <2>3. Settlers' = Settlers
    BY <2>1, SettlersStay DEF PCs
  <2> QED BY <1>1, <2>2, <2>3, OrdersMove DEF CapitalOK
<1>6. CASE CancelAnswered(p)
  <2> DEFINE o == [copy[p] EXCEPT !.status = "CANCELED"]
  <2>1. /\ pc[p] = "atAdapter" /\ pc' = [pc EXCEPT ![p] = "cancelling"]
        /\ orders' = [orders EXCEPT ![job[p]] = o]
    BY <1>6 DEF CancelAnswered, Goto, Persist
  <2>2. /\ job[p] \in Keys /\ orders[job[p]].status # "NONE"
        /\ o.createdAt = orders[job[p]].createdAt
    BY <2>1 DEF IInv, AdapterOK, Known, StoreOK, Order
  <2> HIDE DEF o
  <2>3. Ages
    BY <1>1, <1>2, <2>1, <2>2 DEF Ages, Books
  <2>4. Settlers' = Settlers
    BY <2>1, SettlersStay DEF PCs
  <2> QED BY <1>1, <2>3, <2>4, OrdersMove DEF CapitalOK
<1> QED BY <1>3, <1>4, <1>5, <1>6

\* The call whose save is at the head of the queue is no settler.
LEMMA HeadSaves ==
  ASSUME IInv, NEW i \in NextWrites
  PROVE  writes[i].by \in Calls /\ pc[writes[i].by] \in Saving /\ job[writes[i].by] \in Keys
<1>1. i \in 1 .. Len(writes) /\ writes[i] \in Write
  BY Saved DEF IInv, StoreOK
<1> QED BY <1>1 DEF IInv, Waits, Write

LEMMA SaveNowCapital ==
  ASSUME IInv, CapitalOK, SaveNow
  PROVE  CapitalOK'
<1>1. PICK i \in NextWrites :
        /\ file' = writes[i].snapshot
        /\ \/ Submit(writes[i].by, RemoveAt(writes, i))
           \/ Answer(writes[i].by, RemoveAt(writes, i), writes[i].snapshot)
  BY DEF SaveNow
<1>2. UNCHANGED <<wallet, now, early, faults>>
  BY DEF SaveNow, Others
<1> DEFINE p == writes[i].by
           k == job[p]
<1>3. p \in Calls /\ pc[p] \in Saving /\ k \in Keys
  BY HeadSaves
<1>4. \A j \in Keys : file[j].status \in Closed => file'[j].status \in Closed
  BY <1>1, Saved, FileCloses
<1>5. orders \in Books
  BY DEF IInv, StoreOK, Versions
<1>6. CASE Submit(p, RemoveAt(writes, i))
  <2>1. PICK status \in {"ACCEPTED", "REJECTED"}, step \in {"accepting", "rejecting"} :
          /\ orders' = [orders EXCEPT ![k].status = status]
          /\ pc' = [pc EXCEPT ![p] = step]
    BY <1>6 DEF Submit, Persist, Goto
  <2>2. orders[k].status # "NONE"
    BY <1>3, <1>6 DEF Submit, IInv, CreatingOK
  <2> HIDE DEF k, p
  <2>3. Ages
    <3>1. \A j \in Keys : orders'[j].createdAt = orders[j].createdAt /\ (j # k => orders'[j] = orders[j])
      BY <1>3, <1>5, <2>1 DEF Books, Order
    <3> QED BY <1>4, <2>2, <3>1 DEF Ages
  <2>4. Settlers' = Settlers
    BY <1>3, <2>1, SettlersStay DEF PCs, Saving
  <2> QED BY <1>2, <2>3, <2>4, OrdersMove DEF CapitalOK
<1>7. CASE Answer(p, RemoveAt(writes, i), writes[i].snapshot)
  <2>1. orders' = orders /\ pc' = [pc EXCEPT ![p] = "idle"]
    BY <1>7 DEF Answer, Ends
  <2> HIDE DEF k, p
  <2>2. Ages
    BY <1>4, <2>1 DEF Ages
  <2>3. Settlers' = Settlers
    BY <1>3, <2>1, SettlersStay DEF PCs, Saving
  <2> QED BY <1>2, <2>2, <2>3, OrdersMove DEF CapitalOK
<1> QED BY <1>1, <1>6, <1>7

LEMMA SaveFailsCapital ==
  ASSUME IInv, CapitalOK, SaveFails
  PROVE  CapitalOK'
<1>1. PICK i \in NextWrites : Ends(writes[i].by)
  BY DEF SaveFails
<1>2. UNCHANGED <<wallet, now, early>> /\ orders' = orders /\ file' \in OnDisk
  BY DEF SaveFails
<1>3. faults' \in 0 .. MaxFaults
  BY BoundsAssumption DEF SaveFails, CapitalOK
<1>4. \A k \in Keys : file[k].status \in Closed => file'[k].status \in Closed
  <2>1. ASSUME NEW j \in NextWrites, file' = writes[j].snapshot
        PROVE  \A k \in Keys : file[k].status \in Closed => file'[k].status \in Closed
    BY <2>1, Saved, FileCloses
  <2> QED BY <1>2, <2>1 DEF OnDisk
<1>5. Ages
  BY <1>2, <1>4 DEF Ages
<1>6. Settlers' = Settlers
  <2>1. writes[i].by \in Calls /\ pc[writes[i].by] \in Saving /\ pc' = [pc EXCEPT ![writes[i].by] = "idle"]
    BY <1>1, HeadSaves DEF Ends
  <2> QED BY <2>1, SettlersStay DEF PCs, Saving
<1> QED BY <1>2, <1>3, <1>5, <1>6, OrdersMove

LEMMA RestartCapital ==
  ASSUME IInv, CapitalOK, Restart
  PROVE  CapitalOK'
<1>1. /\ file' \in OnDisk /\ capitalFile' \in CapitalOnDisk
      /\ orders' = [k \in Keys |-> safeRestoredOrder(file'[k])]
      /\ capital' = capitalFile' /\ credited' = capitalFile'
      /\ settled' = seedSettledOrderIdsAfterRestart(file', capitalFile')
      /\ now' = now /\ early' = early /\ faults < MaxFaults /\ faults' = faults + 1
  BY DEF Restart
<1>2. PICK c \in Capitals : capitalFile' = c
  BY <1>1 DEF CapitalOnDisk, Capitals
<1>3. Capitals' = {c}
  BY <1>1, <1>2 DEF Capitals
<1>4. /\ file' \in Versions
      /\ \A k \in Keys : file[k].status \in Closed => file'[k].status \in Closed
      /\ \A k \in Keys : file'[k].status # "NONE" =>
           orders[k].status # "NONE" /\ orders[k].createdAt = file'[k].createdAt
  <2> DEFINE Good(f) ==
        /\ f \in Versions
        /\ \A k \in Keys : file[k].status \in Closed => f[k].status \in Closed
        /\ \A k \in Keys : f[k].status # "NONE" =>
             orders[k].status # "NONE" /\ orders[k].createdAt = f[k].createdAt
  <2>1. Good(file)
    BY DEF IInv, StoreOK, InOrder, Advances, Follows
  <2>2. ASSUME NEW i \in NextWrites  PROVE Good(writes[i].snapshot)
    <3>1. writes[i] \in Write /\ Advances(overlapped, file, writes[i].snapshot) /\ i \in 1 .. Len(writes)
      BY Saved DEF IInv, StoreOK
    <3>2. Advances(overlapped, writes[i].snapshot, orders)
      BY <3>1 DEF IInv, InOrder
    <3> QED BY <3>1, <3>2 DEF Write, Advances, Follows
  <2> HIDE DEF Good
  <2>3. Good(file')
    BY <1>1, <2>1, <2>2 DEF OnDisk
  <2> QED BY <2>3 DEF Good
<1> DEFINE f == file'
<1> HIDE DEF f
<1>5. \A k \in Keys : orders'[k].status = f[k].status /\ orders'[k].createdAt = f[k].createdAt
  <2>1. \A o \in Order : safeRestoredOrder(o).status = o.status /\ safeRestoredOrder(o).createdAt = o.createdAt
    BY DEF safeRestoredOrder, Order
  <2>2. \A k \in Keys : f[k] \in Order
    BY <1>4 DEF f, Versions, Books
  <2> QED BY <1>1, <2>1, <2>2 DEF f
<1>6. ASSUME ~early  PROVE Grounded(c)'
  <2>1. Grounded(c)
    BY <1>6 DEF CapitalOK
  <2> QED BY <1>1, <1>4, <1>5, <2>1, KeysAssumption DEF Grounded, f
<1>7. settled' \subseteq Keys
  BY <1>1 DEF seedSettledOrderIdsAfterRestart, Placed
<1>8. ASSUME ~early, NEW k \in settled' \cap Entries  PROVE k \in c.covers
  <2>1. /\ k \in Keys /\ f[k].status # "NONE" /\ f[k].createdAt < c.observedAt
    BY <1>1, <1>2 DEF seedSettledOrderIdsAfterRestart, Placed, CoveredAfterRestart, f
  <2>2. Grounded(c) /\ c \in Capital
    BY <1>8 DEF CapitalOK
  <2>3. orders[k].status # "NONE" /\ orders[k].createdAt = f[k].createdAt
    BY <1>4, <2>1 DEF f
  <2>4. c.observedAt \in Nat /\ orders[k].createdAt \in Nat
    BY <2>1, <2>2, BoundsAssumption DEF Capital, IInv, StoreOK, Versions, Books, Order
  <2> QED BY <2>1, <2>2, <2>3, <2>4 DEF Grounded
<1>9. faults' \in 0 .. MaxFaults
  BY <1>1, BoundsAssumption DEF CapitalOK
<1>11. ASSUME ~early'  PROVE settled' \cap Entries \subseteq capital'.covers \cap credited'.covers
  BY <1>1, <1>2, <1>8, <1>11
<1>12. ASSUME ~early'  PROVE \A d \in Capitals' : Grounded(d)'
  BY <1>1, <1>3, <1>6, <1>12
<1>13. Capitals' \subseteq Capital
  BY <1>3 DEF CapitalOK
<1>14. capital' = credited' /\ early' \in BOOLEAN
  BY <1>1 DEF CapitalOK
<1> QED BY <1>7, <1>9, <1>11, <1>12, <1>13, <1>14 DEF CapitalOK

LEMMA TickCapital ==
  ASSUME IInv, CapitalOK, Tick
  PROVE  CapitalOK'
<1>1. /\ orders' = orders /\ file' = file /\ capital' = capital /\ credited' = credited
      /\ capitalFile' = capitalFile /\ settled' = settled /\ early' = early /\ faults' = faults
      /\ pc' = pc /\ now' = now + 1 /\ now \in Nat
  BY BoundsAssumption DEF Tick, store, wallet, calls, history, IInv, StoreOK
<1>2. ASSUME NEW c \in Capitals, Grounded(c)  PROVE Grounded(c)'
  <2>1. c.observedAt \in Nat
    BY DEF CapitalOK, Capital
  <2> QED BY <1>1, <1>2, <2>1 DEF Grounded
<1> QED BY <1>1, <1>2 DEF CapitalOK, Capitals, Settlers

\* A settlement, or the first wallet, is adopted.
LEMMA AdoptsCapital ==
  ASSUME IInv, CapitalOK, NEW p \in Calls, NEW c \in Capital, Adopts(p, c), early' \in BOOLEAN,
         ~early' => ~early /\ (~early => Grounded(c) /\ settled \cap Entries \subseteq c.covers)
  PROVE  CapitalOK'
<1>1. /\ orders' = orders /\ file' = file /\ capital' = c /\ credited' = credited
      /\ capitalFile' = capitalFile /\ settled' = settled /\ faults' = faults /\ now' = now
  BY DEF Adopts, store
<1>2. p \in Settlers'
  BY DEF Adopts, Starts, IInv, StoreOK, Settlers
<1>3. \A d \in Capitals' : d = c \/ d \in Capitals
  BY <1>1 DEF Capitals
<1>4. ASSUME ~early', NEW d \in Capitals'  PROVE Grounded(d)'
  <2>1. Grounded(d)
    BY <1>3, <1>4 DEF CapitalOK
  <2> QED BY <1>1, <2>1 DEF Grounded
<1>5. Capitals' \subseteq Capital
  BY <1>3 DEF CapitalOK
<1>6. ASSUME ~early'  PROVE settled' \cap Entries \subseteq capital'.covers \cap credited'.covers
  BY <1>1, <1>6 DEF CapitalOK
<1> QED BY <1>1, <1>2, <1>4, <1>5, <1>6 DEF CapitalOK

\* Entries that are settled are closed in memory, so a later settlement finds them too.
LEMMA SettledPlaced ==
  ASSUME IInv, CapitalOK, ~early
  PROVE  settled \cap Entries \subseteq Placed(orders)
<1> SUFFICES ASSUME NEW k \in settled \cap Entries  PROVE k \in Placed(orders)
  OBVIOUS
<1>1. credited \in Capitals
  BY DEF Capitals
<1>2. k \in Keys /\ file[k].status \in Closed
  BY <1>1, KeysAssumption DEF CapitalOK, Grounded
<1>3. Follows(overlapped, file[k], orders[k])
  BY <1>2 DEF IInv, InOrder, Advances
<1> QED BY <1>2, <1>3 DEF Follows, Closed, Placed

LEMMA SettlementFields ==
  ASSUME NEW c, NEW e, NEW t, AfterMilestones(AtWork(c, e)) \in Capital
  PROVE  /\ Settlement(c, e, t).observedAt = t /\ Settlement(c, e, t).covers = Placed(orders)
BY DEF Settlement, Capital

LEMMA ApplyCapital ==
  ASSUME IInv, CapitalOK, NEW p \in Calls, ApplyCapitalSettlement(p)
  PROVE  CapitalOK'
<1>1. PICK e \in Equities, t \in capital.observedAt .. now + Ahead :
        /\ capital.initialized => e >= capital.reserve + capital.excluded
        /\ Adopts(p, Settlement(capital, e, t))
        /\ early' = (early \/ t > now \/ \E k \in Entries : orders[k] # file[k])
  BY DEF ApplyCapitalSettlement
<1> DEFINE c == Settlement(capital, e, t)
<1>2. capital \in Capital /\ e \in Nat /\ t \in Nat /\ now \in Nat
  <2>1. capital \in Capital /\ capital.observedAt \in Nat
    BY DEF CapitalOK, Capitals, Capital
  <2>2. now \in Nat
    BY BoundsAssumption DEF IInv, StoreOK
  <2> QED BY <2>1, <2>2, CapitalAssumption, BoundsAssumption
<1>3. c \in Capital
  BY <1>1, <1>2, SettlementTyped DEF IInv, StoreOK, Versions
<1>4. c.observedAt = t /\ c.covers = Placed(orders)
  <2>1. AtWork(capital, e) \in Capital
    BY <1>1, <1>2, AtWorkTyped
  <2> QED BY <2>1, MilestonesTyped, SettlementFields
<1>5. ASSUME ~early'  PROVE ~early /\ Grounded(c) /\ settled \cap Entries \subseteq c.covers
  <2>1. ~early /\ ~(t > now) /\ \A k \in Entries : orders[k] = file[k]
    BY <1>1, <1>5
  <2>2. \A k \in Entries : orders[k].status \notin Nonterminal
    BY DEF ApplyCapitalSettlement
  <2>3. ASSUME NEW k \in Entries, k \in Placed(orders)  PROVE file[k].status \in Closed
    <3>1. orders[k] \in Order
      BY KeysAssumption DEF IInv, StoreOK, Versions, Books
    <3> QED BY <2>1, <2>2, <2>3, <3>1 DEF Order, Statuses, Nonterminal, Closed, Placed
  <2>4. Grounded(c)
    BY <1>2, <1>4, <2>1, <2>3, KeysAssumption DEF Grounded, Placed
  <2> QED BY <1>4, <2>1, <2>4, SettledPlaced
<1>6. early' \in BOOLEAN
  BY <1>1 DEF CapitalOK
<1> QED BY <1>1, <1>3, <1>5, <1>6, AdoptsCapital

LEMMA WalletCapital ==
  ASSUME IInv, CapitalOK, NEW p \in Calls, InitializeWallet(p)
  PROVE  CapitalOK'
<1> DEFINE c == [NoCapital EXCEPT !.initialized = TRUE, !.base = InitialLimit, !.active = InitialLimit,
                                 !.effective = InitialLimit, !.peak = InitialLimit]
<1>1. Adopts(p, c) /\ early' = early /\ Placed(orders) = {}
  BY DEF InitializeWallet
<1>2. c \in Capital /\ c.observedAt = 0 /\ c.covers = {}
  BY CapitalAssumption DEF NoCapital, Capital
<1>3. ASSUME ~early  PROVE Grounded(c) /\ settled \cap Entries \subseteq c.covers
  <2>1. now \in Nat /\ 0 <= now
    BY BoundsAssumption DEF IInv, StoreOK
  <2>2. \A k \in Entries : orders[k].status = "NONE"
    BY <1>1, KeysAssumption DEF Placed
  <2> HIDE DEF c
  <2>3. Grounded(c)
    BY <1>2, <2>1, <2>2 DEF Grounded
  <2> QED BY <1>1, <1>3, <2>3, SettledPlaced
<1> HIDE DEF c
<1> QED BY <1>1, <1>2, <1>3, AdoptsCapital DEF CapitalOK

LEMMA SavedCapital ==
  ASSUME IInv, CapitalOK, NEW p \in Calls, CapitalSaved(p) \/ CapitalSaveFails(p)
  PROVE  CapitalOK'
<1>1. /\ orders' = orders /\ file' = file /\ now' = now /\ early' = early
      /\ faults' \in 0 .. MaxFaults
  BY BoundsAssumption DEF CapitalSaved, CapitalSaveFails, CapitalOK, store, history
<1>2. Capitals' \subseteq Capitals /\ capital' = credited'
  BY DEF CapitalSaved, CapitalSaveFails, Capitals, CapitalOnDisk, RolledBack
<1>3. ASSUME ~early, NEW c \in Capitals'  PROVE Grounded(c)'
  <2>1. Grounded(c)
    BY <1>2, <1>3 DEF CapitalOK
  <2> QED BY <1>1, <2>1 DEF Grounded
<1>4. settled' \subseteq Keys
  BY DEF CapitalSaved, CapitalSaveFails, CapitalOK, Capitals, Capital
<1>5. ASSUME ~early  PROVE settled' \cap Entries \subseteq capital'.covers \cap credited'.covers
  BY <1>5 DEF CapitalSaved, CapitalSaveFails, CapitalOK, RolledBack
<1> QED BY <1>1, <1>2, <1>3, <1>4, <1>5 DEF CapitalOK

LEMMA StartingCapital == Init => CapitalOK
<1> SUFFICES ASSUME Init  PROVE CapitalOK
  OBVIOUS
<1>1. NoCapital \in Capital /\ NoCapital.observedAt = 0 /\ NoCapital.covers = {}
  BY DEF NoCapital, Capital
<1>2. \A k \in Keys : orders[k].status = "NONE"
  BY DEF Init, NoOrder
<1>3. Capitals = {NoCapital} /\ settled = {} /\ now = 0 /\ early = FALSE /\ faults \in 0 .. MaxFaults
  BY BoundsAssumption DEF Init, Capitals
<1>4. Grounded(NoCapital)
  BY <1>1, <1>2, <1>3, KeysAssumption DEF Grounded
<1> QED BY <1>1, <1>3, <1>4 DEF CapitalOK, Init

LEMMA CapitalConsecution == IInv /\ CapitalOK /\ [Next]_vars => CapitalOK'
<1> SUFFICES ASSUME IInv, CapitalOK, [Next]_vars  PROVE CapitalOK'
  OBVIOUS
<1>1. ASSUME NEW p \in Calls, NEW k \in Keys,
             PlaceOrder(p, k) \/ ApplyPaperFill(p, k) \/ CancelOrder(p, k)
      PROVE  CapitalOK'
  BY <1>1, OrderStepsCapital
<1>2. ASSUME NEW p \in Calls, CancelAnswered(p)  PROVE CapitalOK'
  <2>1. job[p] \in Keys
    BY <1>2 DEF CancelAnswered, IInv, AdapterOK
  <2> QED BY <1>2, <2>1, OrderStepsCapital
<1>3. ASSUME NEW p \in Calls, ApplyCapitalSettlement(p)  PROVE CapitalOK'
  BY <1>3, ApplyCapital
<1>4. ASSUME NEW p \in Calls, InitializeWallet(p)  PROVE CapitalOK'
  BY <1>4, WalletCapital
<1>5. ASSUME NEW p \in Calls, CapitalSaved(p) \/ CapitalSaveFails(p)  PROVE CapitalOK'
  BY <1>5, SavedCapital
<1>6. ASSUME SaveNow  PROVE CapitalOK'
  BY <1>6, SaveNowCapital
<1>7. ASSUME SaveFails  PROVE CapitalOK'
  BY <1>7, SaveFailsCapital
<1>8. ASSUME Restart  PROVE CapitalOK'
  BY <1>8, RestartCapital
<1>9. ASSUME Tick  PROVE CapitalOK'
  BY <1>9, TickCapital
<1>10. CASE UNCHANGED vars
  BY <1>10 DEF vars, store, wallet, calls, history, CapitalOK, Capitals, Settlers, Grounded
<1>11. ASSUME NEW k \in Keys, AnswerFromMemory(k)  PROVE CapitalOK'
  BY <1>11 DEF AnswerFromMemory, Others, store, wallet, calls, CapitalOK, Capitals, Settlers, Grounded
<1> QED BY <1>1, <1>2, <1>3, <1>4, <1>5, <1>6, <1>7, <1>8, <1>9, <1>10, <1>11
        DEF Next, PlaceRepeated, CancelRepeated

\* The capitals in memory, on disk and in a rollback stay accounts of equity that was
\* settled: what they cover was closed on disk, what they do not came after them
\* (#applyCapitalSettlement, seedSettledOrderIdsAfterRestart).
THEOREM CapitalInvariant == Spec => [](IInv /\ CapitalOK)
<1>1. Init => IInv /\ CapitalOK
  BY Starting, StartingCapital
<1>2. (IInv /\ CapitalOK) /\ [Next]_vars => (IInv /\ CapitalOK)'
  BY Consecution, CapitalConsecution
<1> QED BY <1>1, <1>2, PTL DEF Spec

\* Every variable of the gateway keeps its type, and an order is filled when all its
\* lots are (applyPaperFill, applyCapitalSettlement with its milestones).
THEOREM TypeCorrect == Spec => []TypeOK
<1>1. IInv /\ CapitalOK => TypeOK
  <2> SUFFICES ASSUME IInv, CapitalOK  PROVE TypeOK
    OBVIOUS
  <2>1. writes \in Seq([snapshot : Books, by : Calls])
    <3>1. Write \subseteq [snapshot : Books, by : Calls]
      BY DEF Write, Versions
    <3>2. writes \in Seq(Write) /\ 1 \in Int /\ Len(writes) \in Int /\ \A i \in 1 .. Len(writes) : writes[i] \in Write
      BY DEF IInv, StoreOK
    <3>3. SubSeq(writes, 1, Len(writes)) \in Seq([snapshot : Books, by : Calls])
      BY <3>1, <3>2, SubSeqProperties
    <3> QED BY <3>2, <3>3, SubSeqFull
  <2>2. orders \in Books /\ file \in Books /\ \A k \in Keys : orders[k].status = "FILLED" <=> orders[k].filled = Lots
    BY DEF IInv, StoreOK, Versions, Orderly
  <2>3. capital \in Capital /\ credited \in Capital /\ capitalFile \in Capital
    BY DEF CapitalOK, Capitals
  <2> QED BY <2>1, <2>2, <2>3 DEF TypeOK, IInv, StoreOK, CapitalOK
<1> QED BY <1>1, CapitalInvariant, PTL

-----------------------------------------------------------------------------
(* Admission.                                                              *)

LEMMA UnitsFinite ==
  ASSUME NEW w \in [Keys -> Nat], NEW S \in SUBSET Keys
  PROVE  IsFiniteSet(Units(w, S))
<1> DEFINE UnitsOf == [k \in S |-> {k} \X (1 .. w[k])]
           Parts == {UnitsOf[k] : k \in S}
<1>1. IsFiniteSet(S)
  BY KeysAssumption, FS_Subset
<1>2. UnitsOf \in Surjection(S, Parts)
  BY DEF Surjection
<1>3. IsFiniteSet(Parts)
  BY <1>1, <1>2, FS_Surjection
<1>4. ASSUME NEW T \in Parts  PROVE IsFiniteSet(T)
  <2>1. PICK k \in S : T = {k} \X (1 .. w[k])
    OBVIOUS
  <2>2. IsFiniteSet({k}) /\ IsFiniteSet(1 .. w[k])
    <3>1. 1 \in Int /\ w[k] \in Int
      OBVIOUS
    <3> QED BY <3>1, FS_Singleton, FS_Interval
  <2> QED BY <2>1, <2>2, FS_Product
<1>5. Units(w, S) = UNION Parts
  BY DEF Units
<1> QED BY <1>3, <1>4, <1>5, FS_UNION

\* One notional more makes a sum larger by that at most.
LEMMA OneMore ==
  ASSUME NEW v \in [Keys -> Nat], NEW w \in [Keys -> Nat], NEW S \in SUBSET Keys, NEW T \in SUBSET Keys,
         NEW k \in Keys, \A j \in S \ {k} : j \in T /\ v[j] = w[j]
  PROVE  /\ Won(v, S) \in Nat /\ Won(w, T) \in Nat
         /\ Won(v, S) <= Won(w, T) + v[k]
<1> DEFINE U == Units(v, S)
           V == Units(w, T)
           K == {k} \X (1 .. v[k])
<1>1. IsFiniteSet(U) /\ IsFiniteSet(V)
  BY UnitsFinite
<1>2. IsFiniteSet(K) /\ Cardinality(K) = v[k]
  <2>1. 1 \in Int /\ v[k] \in Int /\ v[k] \in Nat
    OBVIOUS
  <2>2. IsFiniteSet(1 .. v[k]) /\ Cardinality(1 .. v[k]) = v[k]
    BY <2>1, FS_Interval
  <2>3. IsFiniteSet({k}) /\ Cardinality({k}) = 1
    BY FS_Singleton
  <2>4. IsFiniteSet(K) /\ Cardinality(K) = 1 * v[k]
    BY <2>2, <2>3, FS_Product
  <2> QED BY <2>1, <2>4
<1>3. U \subseteq V \cup K
  BY DEF Units
<1> HIDE DEF U, V, K
<1>4. /\ IsFiniteSet(V \cup K)
      /\ Cardinality(V \cup K) = Cardinality(V) + Cardinality(K) - Cardinality(V \cap K)
  BY <1>1, <1>2, FS_Union
<1>5. IsFiniteSet(V \cap K)
  BY <1>1, FS_Subset
<1>6. Cardinality(U) <= Cardinality(V \cup K)
  BY <1>3, <1>4, FS_Subset
<1>7. /\ Cardinality(U) \in Nat /\ Cardinality(V) \in Nat /\ Cardinality(V \cap K) \in Nat
      /\ Cardinality(V \cup K) \in Nat
  BY <1>1, <1>4, <1>5, FS_CardinalityType
<1>8. v[k] \in Nat
  OBVIOUS
<1>9. Cardinality(U) <= Cardinality(V) + v[k]
  BY <1>2, <1>4, <1>6, <1>7, <1>8
<1> QED BY <1>7, <1>9 DEF Won, U, V

LEMMA Products == \A l, m, n \in Nat : l * n \in Nat /\ (l <= m => l * n <= m * n)
OBVIOUS

\* What is told is in memory, so an order's exposure is what it commits.
LEMMA Exposed ==
  ASSUME IInv, ~overlapped
  PROVE  /\ committed \in [Keys -> Nat] /\ exposure = committed
         /\ \A k \in Keys : orders[k].status = "NONE" => committed[k] = 0 /\ told[k].filled = 0
<1>1. ASSUME NEW k \in Keys
      PROVE  /\ committedOrderNotional(k) \in Nat
             /\ Max({committedOrderNotional(k), told[k].filled * Price[k]}) = committedOrderNotional(k)
             /\ orders[k].status = "NONE" => committedOrderNotional(k) = 0 /\ told[k].filled = 0
  <2> DEFINE f == orders[k].filled
             t == told[k].filled
             w == Price[k]
  <2>1. f \in Nat /\ t \in Nat /\ w \in Nat /\ Lots \in Nat /\ t <= Lots /\ f <= Lots
    BY SizesAssumption DEF IInv, StoreOK, Versions, Books, Order, News
  <2>2. t <= f
    <3>1. Follows(overlapped, file[k], orders[k])
      BY DEF IInv, InOrder, Advances
    <3>2. t <= file[k].filled /\ file[k].filled <= f
      BY <3>1 DEF Follows, IInv, DoneIsDurable
    <3>3. file[k].filled \in Nat
      BY SizesAssumption DEF IInv, StoreOK, Versions, Books, Order
    <3> QED BY <2>1, <3>2, <3>3
  <2>3. orders[k].status \in {"NONE", "REJECTED"} => f = 0
    BY DEF IInv, StoreOK, Versions, Orderly
  <2> HIDE DEF f, t, w
  <2> DEFINE n == committedOrderNotional(k)
  <2>4. CASE orders[k].status \in {"NONE", "REJECTED"}
    <3>1. n = 0
      BY <2>4 DEF committedOrderNotional
    <3>2. t = 0
      BY <2>1, <2>2, <2>3, <2>4
    <3>3. t * w = 0
      BY <2>1, <3>2
    <3> HIDE DEF n
    <3>4. n \in Nat /\ Max({n, t * w}) = n
      <4>1. Max({0, 0}) \in {0, 0}
        BY LargerOfTwo
      <4> QED BY <3>1, <3>3, <4>1
    <3> QED BY <3>1, <3>2, <3>4 DEF n, t, w
  <2>5. CASE orders[k].status = "CANCELED"
    <3>1. n = f * w
      BY <2>5 DEF committedOrderNotional, f, w
    <3>2. f * w \in Nat /\ t * w \in Nat /\ t * w <= f * w
      BY <2>1, <2>2, Products
    <3> HIDE DEF n
    <3>3. n \in Nat /\ Max({n, t * w}) = n
      <4> DEFINE x == f * w
                 y == t * w
      <4>1. x \in Nat /\ y \in Nat /\ y <= x
        BY <3>2
      <4> HIDE DEF x, y
      <4>2. Max({x, y}) = x
        BY <4>1, LargerOfTwo
      <4> QED BY <3>1, <4>1, <4>2 DEF x, y
    <3> QED BY <2>5, <3>3 DEF n, t, w
  <2>6. CASE orders[k].status \notin {"NONE", "REJECTED", "CANCELED"}
    <3>1. n = Lots * w
      BY <2>6 DEF committedOrderNotional, w
    <3>2. Lots * w \in Nat /\ t * w \in Nat /\ t * w <= Lots * w
      BY <2>1, Products
    <3> HIDE DEF n
    <3>3. n \in Nat /\ Max({n, t * w}) = n
      <4> DEFINE x == Lots * w
                 y == t * w
      <4>1. x \in Nat /\ y \in Nat /\ y <= x
        BY <3>2
      <4> HIDE DEF x, y
      <4>2. Max({x, y}) = x
        BY <4>1, LargerOfTwo
      <4> QED BY <3>1, <4>1, <4>2 DEF x, y
    <3> QED BY <2>6, <3>3 DEF n, t, w
  <2> QED BY <2>4, <2>5, <2>6
<1> QED BY <1>1 DEF committed, exposure

LEMMA AdmissionFits ==
  ASSUME IInv, CapitalOK, NEW p \in Calls, NEW k \in Entries, PlaceOrder(p, k), ~overlapped, ~early
  PROVE  UnsettledExposure' <= credited.effective
<1> DEFINE S == {j \in Entries : j \notin credited'.covers \/ orders'[j].status \in Nonterminal}
           T == Entries \ settled
           v == exposure'
<1>1. k \in Keys /\ T \in SUBSET Keys /\ S \in SUBSET Keys
  BY KeysAssumption
<1>2. /\ orders[k].status = "NONE" /\ QueueFree /\ Admits(k)
      /\ orders' = [orders EXCEPT ![k] =
           [status |-> "RISK_ACCEPTED", filled |-> 0, recoveryHold |-> FALSE, createdAt |-> now]]
      /\ credited' = credited /\ told' = told
  BY DEF PlaceOrder, Persist, Beginning, Others, wallet
<1>3. orders \in Books
  BY DEF IInv, StoreOK, Versions
<1>4. \A j \in Keys \ {k} : orders'[j] = orders[j]
  BY <1>2, <1>3 DEF Books
<1>5. orders'[k].status = "RISK_ACCEPTED"
  BY <1>1, <1>2, <1>3 DEF Books
<1>6. capital = credited /\ credited \in Capitals /\ credited.effective \in Nat
  <2>1. Settlers = {}
    BY <1>2 DEF QueueFree, InEntryQueue, Settlers
  <2> QED BY <2>1 DEF CapitalOK, Capitals, Capital
<1>7. /\ committed \in [Keys -> Nat] /\ exposure = committed /\ told[k].filled = 0
  BY <1>1, <1>2, Exposed
<1>8. Lots * Price[k] \in Nat
  BY <1>1, SizesAssumption, Products
<1>9. v[k] = Lots * Price[k]
  <2>1. committedOrderNotional(k)' = Lots * Price[k]
    BY <1>5 DEF committedOrderNotional
  <2>2. told'[k].filled * Price[k] = 0
    <3>1. Price[k] \in Nat
      BY <1>1, SizesAssumption
    <3> QED BY <1>2, <1>7, <3>1
  <2>3. v[k] = Max({Lots * Price[k], 0})
    BY <1>1, <2>1, <2>2 DEF exposure
  <2> DEFINE n == Lots * Price[k]
  <2> HIDE DEF n, v
  <2>4. n \in Nat
    BY <1>8 DEF n
  <2>5. Max({n, 0}) = n
    BY <2>4, LargerOfTwo
  <2> QED BY <2>3, <2>5 DEF n
<1>10. \A j \in Keys \ {k} : v[j] = committed[j]
  <2>1. \A j \in Keys \ {k} : v[j] = exposure[j]
    BY <1>2, <1>4 DEF exposure, committedOrderNotional
  <2> QED BY <1>7, <2>1
<1>11. v \in [Keys -> Nat]
  <2>1. \A j \in Keys : v[j] \in Nat
    BY <1>7, <1>8, <1>9, <1>10
  <2>2. v = [j \in Keys |-> v[j]]
    BY DEF exposure
  <2> HIDE DEF v
  <2> QED BY <2>1, <2>2
<1>12. \A j \in S \ {k} : j \in T
  <2> SUFFICES ASSUME NEW j \in S \ {k}, j \in settled  PROVE FALSE
    OBVIOUS
  <2>1. j \in Entries /\ j \in Keys /\ j \in credited.covers
    BY KeysAssumption DEF CapitalOK
  <2>2. file[j].status \in Closed
    BY <1>6, <2>1 DEF CapitalOK, Grounded
  <2>3. orders[j].status \in Closed
    BY <2>1, <2>2 DEF IInv, InOrder, Advances, Follows
  <2> QED BY <1>2, <1>4, <2>1, <2>3 DEF Closed, Nonterminal
<1> HIDE DEF v, S, T
<1>13. Won(v, S) \in Nat /\ Won(committed, T) \in Nat /\ Won(v, S) <= Won(committed, T) + v[k]
  BY <1>1, <1>7, <1>10, <1>11, <1>12, OneMore
<1>14. Won(committed, T) + Lots * Price[k] <= credited.effective
  BY <1>2, <1>6 DEF Admits, CommittedExposure, T
<1>15. Won(v, S) <= credited.effective
  BY <1>6, <1>8, <1>9, <1>13, <1>14
<1>16. UnsettledExposure' = Won(v, S)
  BY DEF UnsettledExposure, v, S, Won, Units
<1> QED BY <1>15, <1>16

\* Only placeOrder makes an order.
LEMMA OnlyPlaced ==
  ASSUME IInv, [Next]_vars, NEW k \in Keys, orders[k].status = "NONE", orders'[k].status # "NONE"
  PROVE  \E p \in Calls : PlaceOrder(p, k)
<1>1. orders \in Books
  BY DEF IInv, StoreOK, Versions
<1>2. ASSUME NEW p \in Calls, NEW j \in Keys, PlaceOrder(p, j)  PROVE \E q \in Calls : PlaceOrder(q, k)
  <2>1. orders' = [orders EXCEPT ![j] =
          [status |-> "RISK_ACCEPTED", filled |-> 0, recoveryHold |-> FALSE, createdAt |-> now]]
    BY <1>2 DEF PlaceOrder, Persist
  <2>2. j = k
    BY <1>1, <2>1 DEF Books
  <2> QED BY <1>2, <2>2
<1>3. ASSUME NEW p \in Calls, NEW j \in Keys, ApplyPaperFill(p, j)  PROVE FALSE
  <2>1. PICK filled, status : orders' = [orders EXCEPT ![j].filled = filled, ![j].status = status]
    <3>1. PICK n \in 1 .. Remaining(j) :
            LET filled == orders[j].filled + n IN
            Persist(p, writes, [orders EXCEPT
              ![j].filled = filled,
              ![j].status = IF filled = Lots THEN "FILLED" ELSE "PARTIALLY_FILLED"])
      BY <1>3 DEF ApplyPaperFill
    <3> QED BY <3>1 DEF Persist
  <2>2. orders[j].status # "NONE"
    BY <1>3 DEF ApplyPaperFill, Fillable
  <2> QED BY <1>1, <2>1, <2>2 DEF Books
<1>4. ASSUME NEW p \in Calls, CancelAnswered(p)  PROVE FALSE
  <2>1. orders' = [orders EXCEPT ![job[p]] = [copy[p] EXCEPT !.status = "CANCELED"]]
    BY <1>4 DEF CancelAnswered, Persist
  <2>2. orders[job[p]].status # "NONE"
    BY <1>4 DEF CancelAnswered, IInv, AdapterOK, Known
  <2> QED BY <1>1, <2>1, <2>2 DEF Books
<1>5. ASSUME SaveNow  PROVE FALSE
  <2>1. PICK i \in NextWrites :
          \/ Submit(writes[i].by, RemoveAt(writes, i))
          \/ Answer(writes[i].by, RemoveAt(writes, i), writes[i].snapshot)
    BY <1>5 DEF SaveNow
  <2>2. writes[i].by \in Calls /\ job[writes[i].by] \in Keys
    BY HeadSaves
  <2>3. CASE Submit(writes[i].by, RemoveAt(writes, i))
    <3> DEFINE j == job[writes[i].by]
    <3>1. PICK status \in {"ACCEPTED", "REJECTED"} : orders' = [orders EXCEPT ![j].status = status]
      BY <2>3 DEF Submit, Persist
    <3>2. orders[j].status # "NONE"
      BY <2>2, <2>3 DEF Submit, IInv, CreatingOK
    <3> QED BY <1>1, <3>1, <3>2 DEF Books
  <2>4. CASE Answer(writes[i].by, RemoveAt(writes, i), writes[i].snapshot)
    BY <2>4 DEF Answer
  <2> QED BY <2>1, <2>3, <2>4
<1>6. ASSUME Restart  PROVE FALSE
  <2>1. orders' = [j \in Keys |-> safeRestoredOrder(file'[j])] /\ file' \in OnDisk
    BY <1>6 DEF Restart
  <2>2. file' \in Versions /\ (file'[k].status # "NONE" => orders[k].status # "NONE")
    <3>1. CASE file' = file
      BY <3>1 DEF IInv, StoreOK, InOrder, Advances, Follows
    <3>2. ASSUME NEW i \in NextWrites, file' = writes[i].snapshot
          PROVE  file' \in Versions /\ (file'[k].status # "NONE" => orders[k].status # "NONE")
      <4>1. writes[i] \in Write /\ i \in 1 .. Len(writes)
        BY Saved DEF IInv, StoreOK
      <4> QED BY <3>2, <4>1 DEF Write, IInv, InOrder, Advances, Follows
    <3> QED BY <2>1, <3>1, <3>2 DEF OnDisk
  <2>3. safeRestoredOrder(file'[k]).status = file'[k].status
    BY <2>2 DEF safeRestoredOrder, Versions, Books, Order
  <2> QED BY <2>1, <2>2, <2>3
<1>7. CASE orders' = orders
  BY <1>7
<1>8. \/ \E p \in Calls, j \in Keys : PlaceOrder(p, j) \/ ApplyPaperFill(p, j)
      \/ \E p \in Calls : CancelAnswered(p)
      \/ SaveNow \/ Restart \/ orders' = orders
  BY DEF Next, CancelOrder, ApplyCapitalSettlement, InitializeWallet, Adopts, CapitalSaved,
         CapitalSaveFails, SaveFails, Tick, PlaceRepeated, CancelRepeated, AnswerFromMemory, store, vars
<1> QED BY <1>2, <1>3, <1>4, <1>5, <1>6, <1>7, <1>8

\* An entry is admitted only if, with all entries that are not settled, it fits the
\* capital of the last settlement that was saved (assessAdmission, restarts included).
THEOREM AdmittedFits == Spec => AdmittedWithinCapital
<1>1. IInv /\ CapitalOK /\ [Next]_vars =>
        [ \A k \in Entries :
            orders[k].status = "NONE" /\ orders'[k].status # "NONE" /\ ~overlapped /\ ~early
              => UnsettledExposure' <= credited.effective ]_vars
  <2> SUFFICES ASSUME IInv, CapitalOK, [Next]_vars, NEW k \in Entries,
                      orders[k].status = "NONE", orders'[k].status # "NONE", ~overlapped, ~early
               PROVE  UnsettledExposure' <= credited.effective
    OBVIOUS
  <2>1. PICK p \in Calls : PlaceOrder(p, k)
    BY OnlyPlaced, KeysAssumption
  <2> QED BY <2>1, AdmissionFits
<1> QED BY <1>1, CapitalInvariant, PTL DEF Spec, AdmittedWithinCapital

-----------------------------------------------------------------------------
(* The reserve.  A capital has the base that the highest equity settled    *)
(* leads to from the first: the milestones below it are those this equity  *)
(* crosses, so a settlement of less, or of as much, reserves nothing.      *)

\* The bases in order, each raised by what the one before reserves.
LEMMA BasesRise ==
  ASSUME NEW first \in Nat
  PROVE  /\ Bases(first)[0] = first /\ MaxReserves \in Nat
         /\ \A n \in 0 .. MaxReserves : Bases(first)[n] \in Nat
         /\ \A n \in 1 .. MaxReserves :
              Bases(first)[n] = Bases(first)[n - 1] + FloorBps(Bases(first)[n - 1], 500)
<1> DEFINE Raised(x) == x + FloorBps(x, 500)
           Def(g) == [n \in 0 .. MaxReserves |-> IF n = 0 THEN first ELSE Raised(g[n - 1])]
           base == CHOOSE g : g = Def(g)
<1>1. MaxReserves \in Nat
  BY BoundsAssumption, Products DEF MaxReserves
<1>2. ASSUME NEW x \in Nat  PROVE Raised(x) \in Nat
  BY DEF FloorBps
<1> HIDE DEF Raised
<1>3. PICK f \in [0 .. MaxReserves -> Nat] :
        f[0] = first /\ \A i \in 1 .. MaxReserves : f[i] = Raised(f[i - 1])
  <2> DEFINE F == [x \in Nat |-> Raised(x)]
  <2>1. F \in [Nat -> Nat]
    BY <1>2
  <2> HIDE DEF F
  <2>2. Iterable(Nat, F, first, MaxReserves)
    BY <1>1, <2>1, Iterates
  <2>3. PICK f \in [0 .. MaxReserves -> Nat] : f[0] = first /\ \A i \in 1 .. MaxReserves : f[i] = F[f[i - 1]]
    BY <2>2 DEF Iterable
  <2>4. \A i \in 1 .. MaxReserves : f[i - 1] \in Nat
    BY <1>1
  <2>5. \A i \in 1 .. MaxReserves : f[i] = Raised(f[i - 1])
    BY <2>3, <2>4 DEF F
  <2> QED BY <2>3, <2>5
<1>4. f = Def(f)
  <2>1. ASSUME NEW n \in 0 .. MaxReserves  PROVE f[n] = Def(f)[n]
    <3>1. n = 0 \/ n \in 1 .. MaxReserves
      BY <1>1
    <3> QED BY <1>3, <3>1
  <2> QED BY <2>1
<1>5. base = Def(base)
  <2> HIDE DEF Def
  <2> QED BY <1>4
<1> HIDE DEF base
<1>6. base[0] = first /\ \A n \in 1 .. MaxReserves : base[n] = Raised(base[n - 1])
  BY <1>1, <1>5
<1>7. \A n \in 0 .. MaxReserves : base[n] \in Nat
  <2> DEFINE T == {n \in 0 .. MaxReserves : base[n] \in Nat}
  <2>1. 0 \in T
    BY <1>1, <1>6
  <2>2. ASSUME NEW n \in 1 .. MaxReserves, n - 1 \in T  PROVE n \in T
    <3>1. n \in 0 .. MaxReserves /\ base[n - 1] \in Nat
      BY <1>1, <2>2
    <3>2. base[n] \in Nat
      BY <1>2, <1>6, <3>1
    <3> QED BY <3>1, <3>2
  <2>3. 0 .. MaxReserves \subseteq T
    <3> HIDE DEF T
    <3> QED BY <1>1, <2>1, <2>2, UpTo
  <2> QED BY <2>3
<1>8. Bases(first) = base
  BY DEF Bases, base, Raised
<1> QED BY <1>1, <1>6, <1>7, <1>8 DEF Raised

\* From a base that reserves nothing on, all are the same.
LEMMA BasesStay ==
  ASSUME NEW first \in Nat, NEW n \in 0 .. MaxReserves, FloorBps(Bases(first)[n], 500) < 1,
         NEW k \in n .. MaxReserves
  PROVE  Bases(first)[k] = Bases(first)[n]
<1> DEFINE B == Bases(first)
           T == {i \in 0 .. MaxReserves : i >= n => B[i] = B[n]}
<1>1. /\ MaxReserves \in Nat /\ n \in Nat /\ B[n] \in Nat
      /\ \A i \in 1 .. MaxReserves : B[i] = B[i - 1] + FloorBps(B[i - 1], 500)
  BY BasesRise
<1>2. B[n] + FloorBps(B[n], 500) = B[n]
  <2>1. FloorBps(B[n], 500) \in Nat
    BY <1>1 DEF FloorBps
  <2> QED BY <1>1, <2>1
<1> HIDE DEF B
<1>3. 0 \in T
  BY <1>1
<1>4. ASSUME NEW i \in 1 .. MaxReserves, i - 1 \in T  PROVE i \in T
  <2> SUFFICES ASSUME i >= n  PROVE B[i] = B[n]
    BY <1>1
  <2>1. CASE i = n
    BY <2>1
  <2>2. CASE i # n
    <3>1. B[i - 1] = B[n]
      BY <1>1, <1>4, <2>2
    <3>2. B[i] = B[i - 1] + FloorBps(B[i - 1], 500)
      BY <1>1
    <3> QED BY <1>2, <3>1, <3>2
  <2> QED BY <2>1, <2>2
<1>5. 0 .. MaxReserves \subseteq T
  <2> HIDE DEF T
  <2> QED BY <1>1, <1>3, <1>4, UpTo
<1>6. k \in 0 .. MaxReserves /\ k >= n
  BY <1>1
<1> QED BY <1>5, <1>6 DEF B

\* The milestones that a capital's base is the result of, of at most `most': the
\* equity `top' crosses each.
Crosses(c, top, b) == top - c.excluded - (b - (c.base - c.reserve)) >= nextTrigger(b)
Reached(c, top, most) ==
  \E n \in 0 .. most : /\ c.base = Bases(c.base - c.reserve)[n]
                       /\ \A i \in 0 .. n - 1 : Crosses(c, top, Bases(c.base - c.reserve)[i])

Reserved(c) ==
  /\ c.sequence <= MaxSettlements
  /\ ~c.initialized => c.peak = 0 /\ c.reserve = 0
  /\ c.initialized => /\ c.reserve <= c.base /\ Reached(c, c.peak, MaxSteps * c.sequence)
                      /\ Crosses(c, c.peak, c.base) => FloorBps(c.base, 500) < 1
ReservedOK == \A c \in Capitals : Reserved(c)

\* Nothing is reserved yet when all equity is at work or excluded.
LEMMA NothingReserved ==
  ASSUME NEW c \in Capital, c.reserve = 0, c.sequence <= MaxSettlements, c.peak - c.excluded = c.base,
         ~c.initialized => c.peak = 0
  PROVE  Reserved(c)
<1>1. c.base \in Nat /\ c.sequence \in Nat /\ c.excluded \in Nat /\ c.peak \in Nat /\ c.base - c.reserve = c.base
  BY DEF Capital
<1>2. Bases(c.base)[0] = c.base
  BY <1>1, BasesRise
<1>3. MaxSteps * c.sequence \in Nat
  BY <1>1, BoundsAssumption, Products
<1>4. 0 \in 0 .. MaxSteps * c.sequence /\ 0 .. 0 - 1 = {}
  BY <1>3
<1>5. Reached(c, c.peak, MaxSteps * c.sequence)
  BY <1>1, <1>2, <1>4 DEF Reached
<1>6. Crosses(c, c.peak, c.base) => FloorBps(c.base, 500) < 1
  BY <1>1 DEF Crosses, nextTrigger, CeilBps, FloorBps
<1> QED BY <1>1, <1>5, <1>6 DEF Reserved

\* A higher equity crosses as much.
LEMMA ReachedBy ==
  ASSUME NEW c \in Capital, NEW d \in Capital, c.reserve <= c.base, c.sequence <= MaxSettlements,
         d.base = c.base, d.reserve = c.reserve, d.excluded = c.excluded,
         NEW low \in Nat, NEW top \in Nat, low <= top, NEW most \in Nat, MaxSteps * c.sequence <= most,
         Reached(c, low, MaxSteps * c.sequence)
  PROVE  Reached(d, top, most)
<1> DEFINE first == c.base - c.reserve
<1>1. first \in Nat /\ d.base - d.reserve = first /\ c.excluded \in Nat /\ c.sequence \in Nat
  BY DEF Capital
<1>2. PICK n \in 0 .. MaxSteps * c.sequence :
        c.base = Bases(first)[n] /\ \A i \in 0 .. n - 1 : Crosses(c, low, Bases(first)[i])
  BY DEF Reached
<1>3. MaxSteps * c.sequence \in Nat /\ MaxSteps * c.sequence <= MaxReserves /\ MaxReserves \in Nat
  BY <1>1, BoundsAssumption, Products DEF MaxReserves
<1> HIDE DEF first
<1>4. ASSUME NEW i \in 0 .. n - 1  PROVE Crosses(d, top, Bases(first)[i])
  <2>1. Crosses(c, low, Bases(first)[i])
    BY <1>2
  <2>2. Bases(first)[i] \in Nat
    <3>1. i \in 0 .. MaxReserves
      BY <1>3
    <3> QED BY <1>1, <3>1, BasesRise
  <2>3. nextTrigger(Bases(first)[i]) \in Nat
    BY <2>2 DEF nextTrigger, CeilBps
  <2>4. low - c.excluded - (Bases(first)[i] - first) >= nextTrigger(Bases(first)[i])
    BY <2>1 DEF Crosses, first
  <2>5. top - c.excluded - (Bases(first)[i] - first) >= nextTrigger(Bases(first)[i])
    <3> DEFINE b == Bases(first)[i]
               trigger == nextTrigger(b)
    <3> HIDE DEF b, trigger
    <3> QED BY <1>1, <2>2, <2>3, <2>4 DEF b, trigger
  <2> QED BY <1>1, <2>5 DEF Crosses
<1>5. n \in 0 .. most
  BY <1>3
<1> QED BY <1>1, <1>2, <1>4, <1>5 DEF Reached

\* Without a milestone nothing changes.
LEMMA NoMilestone ==
  ASSUME NEW c \in Capital, ~Milestone(c)
  PROVE  AfterMilestones(c) = c
<1>1. PICK step : /\ AfterMilestones(c) = step[MaxSteps] /\ step[0] = c
                  /\ \A i \in 0 .. MaxSteps : step[i] \in Capital
                  /\ \A i \in 1 .. MaxSteps : step[i] = Moved(step[i - 1])
  BY MilestonesChain
<1>2. MaxSteps \in Nat
  BY BoundsAssumption
<1> DEFINE T == {i \in 0 .. MaxSteps : step[i] = c}
<1>3. 0 \in T
  BY <1>1, <1>2
<1>4. ASSUME NEW i \in 1 .. MaxSteps, i - 1 \in T  PROVE i \in T
  <2>1. i \in 0 .. MaxSteps /\ step[i - 1] = c
    BY <1>2, <1>4
  <2> QED BY <1>1, <2>1 DEF Moved
<1>5. 0 .. MaxSteps \subseteq T
  <2> HIDE DEF T
  <2> QED BY <1>2, <1>3, <1>4, UpTo
<1> QED BY <1>1, <1>2, <1>5

\* What the milestones of an equity lead to is what it crosses.
LEMMA MilestonesReserve ==
  ASSUME NEW c \in Capital, NEW top \in Nat, c.reserve <= c.base, c.sequence < MaxSettlements,
         top - c.excluded = c.active + c.reserve, Reached(c, top, MaxSteps * c.sequence)
  PROVE  LET s == AfterMilestones(c) IN
         /\ s \in Capital /\ Kin(c, s) /\ s.reserve <= s.base
         /\ Reached(s, top, MaxSteps * (c.sequence + 1))
<1>1. PICK step : /\ AfterMilestones(c) = step[MaxSteps] /\ step[0] = c
                  /\ \A i \in 0 .. MaxSteps : step[i] \in Capital
                  /\ \A i \in 1 .. MaxSteps : step[i] = Moved(step[i - 1])
  BY MilestonesChain
<1> DEFINE least == MaxSteps * c.sequence
           first == c.base - c.reserve
<1>2. /\ MaxSteps \in Nat /\ least \in Nat /\ MaxReserves \in Nat /\ first \in Nat
      /\ MaxSteps * (c.sequence + 1) = least + MaxSteps /\ least + MaxSteps <= MaxReserves
  <2>1. MaxSteps \in Nat /\ MaxSettlements \in Nat /\ c.sequence \in Nat /\ c.sequence + 1 <= MaxSettlements
    BY BoundsAssumption DEF Capital
  <2>2. least \in Nat /\ MaxReserves \in Nat /\ MaxSteps * (c.sequence + 1) <= MaxReserves
    BY <2>1, Products DEF MaxReserves
  <2>3. MaxSteps * (c.sequence + 1) = least + MaxSteps
    BY <2>1
  <2>4. first \in Nat
    BY DEF Capital
  <2> QED BY <2>1, <2>2, <2>3, <2>4
<1> HIDE DEF least
<1> DEFINE T == {i \in 0 .. MaxSteps : Kin(c, step[i]) /\ Reached(step[i], top, least + i)}
<1>3. 0 \in T
  <2>1. Kin(c, c)
    BY DEF Kin, Capital
  <2>2. least + 0 = least
    BY <1>2
  <2> QED BY <1>1, <1>2, <2>1, <2>2 DEF least
<1>4. ASSUME NEW i \in 1 .. MaxSteps, i - 1 \in T  PROVE i \in T
  <2> DEFINE a == step[i - 1]
             b == step[i]
  <2>1. /\ i \in 0 .. MaxSteps /\ i - 1 \in 0 .. MaxSteps /\ a \in Capital /\ b \in Capital /\ b = Moved(a)
        /\ Kin(c, a) /\ Reached(a, top, least + (i - 1))
    BY <1>1, <1>2, <1>4
  <2> HIDE DEF a, b
  <2>2. a.base - a.reserve = first
    BY <2>1 DEF Kin
  <2>3. PICK n \in 0 .. least + (i - 1) :
          a.base = Bases(first)[n] /\ \A j \in 0 .. n - 1 : Crosses(a, top, Bases(first)[j])
    BY <2>1, <2>2 DEF Reached
  <2>4. n \in 0 .. least + i
    BY <1>2
  <2>5. CASE ~Milestone(a)
    <3>1. b = a
      BY <2>1, <2>5 DEF Moved
    <3>2. Reached(b, top, least + i)
      BY <2>2, <2>3, <2>4, <3>1 DEF Reached
    <3> QED BY <2>1, <3>1, <3>2 DEF b
  <2>6. CASE Milestone(a)
    <3>1. b = Reserve(a) /\ Kin(a, b) /\ b.base = a.base + FloorBps(a.base, 500)
      BY <2>1, <2>6, MilestoneKeeps DEF Moved
    <3>2. Kin(c, b)
      BY <2>1, <3>1 DEF Kin, Capital
    <3>3. b.base - b.reserve = first /\ b.excluded = a.excluded /\ a.excluded = c.excluded
      BY <2>1, <2>2, <3>1 DEF Kin
    <3>4. n + 1 \in 1 .. MaxReserves /\ n + 1 \in 0 .. least + i /\ (n + 1) - 1 = n
      BY <1>2
    <3>5. b.base = Bases(first)[n + 1]
      BY <1>2, <2>3, <3>1, <3>4, BasesRise
    <3>6. Crosses(b, top, a.base)
      <4>1. a.active >= nextTrigger(a.base)
        BY <2>6 DEF Milestone
      <4>2. top - c.excluded - (a.base - first) = a.active
        <5>1. /\ a.active + a.reserve = c.active + c.reserve /\ top - c.excluded = c.active + c.reserve
              /\ a.base - a.reserve = first
          BY <2>1, <2>2 DEF Kin
        <5> HIDE DEF first
        <5> QED BY <1>2, <2>1, <5>1 DEF Capital
      <4> QED BY <3>3, <4>1, <4>2 DEF Crosses
    <3>7. ASSUME NEW j \in 0 .. (n + 1) - 1  PROVE Crosses(b, top, Bases(first)[j])
      <4>1. CASE j = n
        BY <2>3, <3>6, <4>1
      <4>2. CASE j # n
        <5>1. j \in 0 .. n - 1
          BY <1>2, <4>2
        <5> QED BY <2>2, <2>3, <3>3, <5>1 DEF Crosses
      <4> QED BY <4>1, <4>2
    <3>8. Reached(b, top, least + i)
      BY <3>3, <3>4, <3>5, <3>7 DEF Reached
    <3> QED BY <2>1, <3>2, <3>8 DEF b
  <2> QED BY <2>5, <2>6
<1>5. 0 .. MaxSteps \subseteq T
  <2> HIDE DEF T
  <2> QED BY <1>2, <1>3, <1>4, UpTo
<1> DEFINE s == AfterMilestones(c)
<1>6. s \in Capital /\ Kin(c, s) /\ Reached(s, top, least + MaxSteps)
  BY <1>1, <1>2, <1>5
<1> HIDE DEF s
<1>7. s.reserve <= s.base
  BY <1>6 DEF Kin, Capital
<1> QED BY <1>2, <1>6, <1>7 DEF s

\* A settlement reserves what its equity crosses beyond the highest before it.
LEMMA SettlementReserves ==
  ASSUME NEW c \in Capital, NEW e \in Nat, NEW t \in Nat, orders \in Books, Reserved(c),
         c.sequence < MaxSettlements, c.initialized => e >= c.reserve + c.excluded,
         ~Milestone(AfterMilestones(AtWork(c, e)))
  PROVE  Reserved(Settlement(c, e, t))
<1> DEFINE a == AtWork(c, e)
           s == AfterMilestones(a)
           d == Settlement(c, e, t)
<1>1. /\ c.base \in Nat /\ c.active \in Nat /\ c.reserve \in Nat /\ c.excluded \in Nat
      /\ c.sequence \in Nat /\ c.peak \in Nat /\ InitialLimit \in Nat /\ InitialLimit > 0
  BY CapitalAssumption DEF Capital
<1>2. a \in Capital /\ s \in Capital /\ d \in Capital
  BY AtWorkTyped, MilestonesTyped, SettlementTyped
<1>3. /\ d.base = s.base /\ d.reserve = s.reserve /\ d.excluded = s.excluded
      /\ d.initialized = s.initialized /\ d.sequence = s.sequence + 1 /\ d.peak = Max({s.peak, e})
  BY <1>2 DEF Settlement, Capital
<1>4. ~Milestone(s)
  OBVIOUS
<1>5. CASE ~c.initialized
  <2> DEFINE base == Min({InitialLimit, e})
             some == e > 0
             rest == e - base
  <2>1. base \in Nat /\ base <= e /\ c.peak = 0 /\ c.reserve = 0
    BY <1>1, <1>5, SmallerOfTwo DEF Reserved
  <2>2. a = [c EXCEPT !.initialized = some, !.base = base, !.active = base, !.excluded = rest]
    BY <1>5 DEF AtWork, FirstAtWork
  <2>3. /\ a.base = base /\ a.active = base /\ a.reserve = 0 /\ a.excluded = rest
        /\ a.initialized = some /\ a.sequence = c.sequence /\ a.peak = 0
    <3> HIDE DEF a, base, some, rest
    <3> QED BY <2>1, <2>2 DEF Capital
  <2>4. ~Milestone(a)
    <3> HIDE DEF a, base
    <3> QED BY <2>1, <2>3 DEF Milestone, nextTrigger, CeilBps, FloorBps
  <2>5. s = a
    BY <1>2, <2>4, NoMilestone
  <2>6. Max({0, e}) = e
    <3>1. Max({0, e}) \in Nat /\ Max({0, e}) >= e /\ Max({0, e}) \in {0, e}
      BY LargerOfTwo
    <3> QED BY <3>1
  <2>7. d.base = base /\ d.reserve = 0 /\ d.excluded = rest /\ d.initialized = some
        /\ d.sequence = c.sequence + 1 /\ d.peak = e
    <3> HIDE DEF a, base, some, rest, d, s
    <3> QED BY <1>3, <2>3, <2>5, <2>6
  <2>8. d.peak - d.excluded = d.base /\ (~d.initialized => d.peak = 0) /\ d.sequence <= MaxSettlements
    <3>1. MaxSettlements \in Nat
      BY BoundsAssumption
    <3>2. ~d.initialized => ~(e > 0)
      BY <2>7
    <3> HIDE DEF d, base
    <3>3. ~(e > 0) => e = 0
      OBVIOUS
    <3>4. e - (e - base) = base
      BY <2>1
    <3>5. d.peak - d.excluded = d.base
      BY <2>7, <3>4
    <3>6. d.sequence <= MaxSettlements
      BY <1>1, <2>7, <3>1
    <3> QED BY <2>7, <3>2, <3>3, <3>5, <3>6
  <2>9. Reserved(d)
    <3> HIDE DEF d
    <3> QED BY <1>2, <2>7, <2>8, NothingReserved
  <2> QED BY <2>9
<1>6. CASE c.initialized
  <2> DEFINE left == e - (c.reserve + c.excluded)
  <2>1. left \in Nat
    BY <1>1, <1>6
  <2>2. a = [c EXCEPT !.active = left]
    BY <1>6 DEF AtWork, LaterAtWork
  <2> HIDE DEF a, left
  <2>3. /\ a.active = left /\ a.base = c.base /\ a.reserve = c.reserve /\ a.excluded = c.excluded
        /\ a.initialized = c.initialized /\ a.sequence = c.sequence /\ a.peak = c.peak
    BY <2>2 DEF Capital
  <2>4. /\ c.reserve <= c.base /\ Reached(c, c.peak, MaxSteps * c.sequence)
        /\ Crosses(c, c.peak, c.base) => FloorBps(c.base, 500) < 1
    BY <1>6 DEF Reserved
  <2>5. e - c.excluded = left + c.reserve
    BY <1>1, <2>1 DEF left
  <2>6. MaxSteps \in Nat /\ MaxSettlements \in Nat /\ c.sequence + 1 <= MaxSettlements /\ c.sequence <= MaxSettlements
    BY <1>1, BoundsAssumption
  <2>7. /\ MaxSteps * c.sequence \in Nat /\ MaxSteps * (c.sequence + 1) \in Nat
        /\ MaxSteps * c.sequence <= MaxSteps * (c.sequence + 1)
    BY <1>1, <2>6, Products
  <2>8. c.base - (c.base - c.reserve) = c.reserve
    BY <1>1
  <2>9. CASE Milestone(a)
    <3>1. left >= nextTrigger(c.base) /\ FloorBps(c.base, 500) >= 1
      BY <2>3, <2>9 DEF Milestone
    <3>2. nextTrigger(c.base) \in Nat /\ FloorBps(c.base, 500) \in Nat
      BY <1>1 DEF nextTrigger, CeilBps, FloorBps
    <3>3. ~(c.peak - c.excluded - c.reserve >= nextTrigger(c.base))
      BY <2>4, <2>8, <3>1, <3>2 DEF Crosses
    <3>4. c.peak <= e
      BY <1>1, <2>1, <2>5, <3>1, <3>2, <3>3
    <3>5. Reached(a, e, MaxSteps * a.sequence)
      BY <1>1, <1>2, <2>3, <2>4, <2>6, <2>7, <3>4, ReachedBy
    <3>6. /\ s \in Capital /\ Kin(a, s) /\ s.reserve <= s.base
          /\ Reached(s, e, MaxSteps * (c.sequence + 1))
      <4>1. a.reserve <= a.base /\ a.sequence < MaxSettlements /\ e - a.excluded = a.active + a.reserve
        BY <2>3, <2>4, <2>5
      <4> QED BY <1>2, <2>3, <3>5, <4>1, MilestonesReserve
    <3> HIDE DEF s, d
    <3>7. /\ s.base - s.reserve = c.base - c.reserve /\ s.active + s.reserve = left + c.reserve
          /\ s.excluded = c.excluded /\ s.initialized = c.initialized /\ s.sequence = c.sequence /\ s.peak = c.peak
      BY <2>3, <3>6 DEF Kin
    <3>8. d.peak = e
      <4>1. Max({c.peak, e}) \in Nat /\ Max({c.peak, e}) >= e /\ Max({c.peak, e}) \in {c.peak, e}
        BY <1>1, LargerOfTwo
      <4> QED BY <1>1, <1>3, <3>4, <3>7, <4>1
    <3>9. d.base - d.reserve = s.base - s.reserve /\ d.excluded = s.excluded
      BY <1>3
    <3>10. Reached(d, d.peak, MaxSteps * d.sequence)
      BY <1>3, <3>6, <3>7, <3>8 DEF Reached, Crosses
    <3>11. ASSUME Crosses(d, d.peak, d.base)  PROVE FloorBps(d.base, 500) < 1
      <4>1. e - c.excluded - (s.base - (s.base - s.reserve)) >= nextTrigger(s.base)
        BY <1>3, <3>7, <3>8, <3>11 DEF Crosses
      <4>2. s.base \in Nat /\ s.reserve \in Nat /\ s.active \in Nat
        BY <1>2 DEF Capital
      <4>3. e - c.excluded - (s.base - (s.base - s.reserve)) = s.active
        BY <1>1, <2>1, <2>5, <3>7, <4>2
      <4>4. ~(FloorBps(s.base, 500) >= 1)
        BY <1>4, <4>1, <4>3 DEF Milestone
      <4>5. FloorBps(s.base, 500) \in Nat
        BY <4>2 DEF FloorBps
      <4> QED BY <1>3, <4>4, <4>5
    <3>12. d.sequence <= MaxSettlements /\ d.initialized /\ d.reserve <= d.base
      BY <1>3, <1>6, <2>6, <3>6, <3>7
    <3>13. Reserved(d)
      BY <3>10, <3>11, <3>12 DEF Reserved
    <3> QED BY <3>13 DEF d
  <2>10. CASE ~Milestone(a)
    <3>1. s = a
      BY <1>2, <2>10, NoMilestone
    <3> HIDE DEF s, d
    <3>2. /\ d.base = c.base /\ d.reserve = c.reserve /\ d.excluded = c.excluded /\ d.initialized = c.initialized
          /\ d.sequence = c.sequence + 1 /\ d.peak = Max({c.peak, e})
      BY <1>3, <2>3, <3>1
    <3>3. Max({c.peak, e}) \in Nat /\ Max({c.peak, e}) >= c.peak /\ Max({c.peak, e}) \in {c.peak, e}
      BY <1>1, LargerOfTwo
    <3>4. Reached(d, d.peak, MaxSteps * d.sequence)
      <4>1. d.peak \in Nat /\ c.peak <= d.peak
        BY <1>1, <3>2, <3>3
      <4> QED BY <1>1, <1>2, <2>4, <2>6, <2>7, <3>2, <4>1, ReachedBy
    <3>5. ASSUME Crosses(d, d.peak, d.base)  PROVE FloorBps(d.base, 500) < 1
      <4>1. CASE d.peak = c.peak
        BY <2>4, <3>2, <3>5, <4>1 DEF Crosses
      <4>2. CASE d.peak = e
        <5>1. e - c.excluded - (c.base - (c.base - c.reserve)) >= nextTrigger(c.base)
          BY <3>2, <3>5, <4>2 DEF Crosses
        <5>2. e - c.excluded - (c.base - (c.base - c.reserve)) = a.active
          BY <1>1, <2>1, <2>3, <2>5
        <5>3. ~(FloorBps(c.base, 500) >= 1)
          BY <2>3, <2>10, <5>1, <5>2 DEF Milestone
        <5>4. FloorBps(c.base, 500) \in Nat
          BY <1>1 DEF FloorBps
        <5> QED BY <3>2, <5>3, <5>4
      <4> QED BY <3>2, <3>3, <4>1, <4>2
    <3>6. d.sequence <= MaxSettlements /\ d.initialized /\ d.reserve <= d.base
      BY <1>6, <2>4, <2>6, <3>2
    <3>7. Reserved(d)
      BY <3>4, <3>5, <3>6 DEF Reserved
    <3> QED BY <3>7 DEF d
  <2> QED BY <2>9, <2>10
<1> QED BY <1>5, <1>6

\* What the invariant says of a capital is what ReservedOnce says of it.
LEMMA FromReserved ==
  ASSUME NEW c \in Capital, Reserved(c), c.initialized
  PROVE  LET first == c.base - c.reserve
             base == Bases(first)
             Crossed(n) == \A i \in 0 .. n - 1 :
                             c.peak - c.excluded - (base[i] - first) >= nextTrigger(base[i])
         IN  c.base = base[Max({n \in 0 .. MaxReserves : Crossed(n)})]
<1> DEFINE first == c.base - c.reserve
           base == Bases(first)
           Crossed(n) == \A i \in 0 .. n - 1 : c.peak - c.excluded - (base[i] - first) >= nextTrigger(base[i])
           All == {n \in 0 .. MaxReserves : Crossed(n)}
<1>1. /\ first \in Nat /\ c.sequence \in Nat /\ c.sequence <= MaxSettlements
      /\ Reached(c, c.peak, MaxSteps * c.sequence) /\ MaxReserves \in Nat
      /\ MaxSteps * c.sequence \in Nat /\ MaxSteps * c.sequence <= MaxReserves
  <2>1. first \in Nat /\ c.sequence \in Nat
    BY DEF Reserved, Capital
  <2>2. c.sequence <= MaxSettlements /\ Reached(c, c.peak, MaxSteps * c.sequence)
    BY DEF Reserved
  <2> QED BY <2>1, <2>2, BoundsAssumption, Products DEF MaxReserves
<1>2. PICK n \in 0 .. MaxSteps * c.sequence : c.base = base[n] /\ \A i \in 0 .. n - 1 : Crosses(c, c.peak, base[i])
  BY <1>1 DEF Reached
<1>3. n \in All
  BY <1>1, <1>2 DEF Crosses
<1>4. CASE ~Crosses(c, c.peak, base[n])
  <2>1. ASSUME NEW m \in All  PROVE m <= n
    <3> SUFFICES ASSUME m > n  PROVE FALSE
      BY <1>1
    <3>1. n \in 0 .. m - 1
      BY <1>1
    <3> QED BY <1>4, <3>1 DEF Crosses
  <2>2. Max(All) = n
    <3>1. All \subseteq Nat
      BY <1>1
    <3> HIDE DEF All
    <3>2. \E x \in All : \A y \in All : x >= y
      BY <1>1, <1>3, <2>1, <3>1
    <3>3. Max(All) \in All /\ \A y \in All : Max(All) >= y
      BY <3>2 DEF Max
    <3>4. Max(All) <= n /\ Max(All) >= n /\ Max(All) \in Nat /\ n \in Nat
      BY <1>1, <1>3, <2>1, <3>1, <3>3
    <3> QED BY <3>4
  <2> QED BY <1>2, <2>2
<1>5. CASE Crosses(c, c.peak, base[n])
  <2>1. FloorBps(base[n], 500) < 1 /\ n \in 0 .. MaxReserves
    BY <1>1, <1>2, <1>5 DEF Reserved
  <2>2. \A m \in n .. MaxReserves : base[m] = base[n]
    BY <1>1, <2>1, BasesStay
  <2>3. MaxReserves \in All
    <3>1. ASSUME NEW i \in 0 .. MaxReserves - 1  PROVE Crosses(c, c.peak, base[i])
      <4>1. CASE i < n
        <5>1. i \in 0 .. n - 1
          BY <1>1, <4>1
        <5> QED BY <1>2, <5>1
      <4>2. CASE i >= n
        <5>1. i \in n .. MaxReserves
          BY <1>1, <4>2
        <5>2. base[i] = base[n]
          BY <2>2, <5>1
        <5> HIDE DEF base
        <5> QED BY <1>5, <5>2
      <4> QED BY <1>1, <4>1, <4>2
    <3> QED BY <1>1, <3>1 DEF Crosses
  <2>4. Max(All) = MaxReserves
    <3>1. All \subseteq Nat /\ \A y \in All : y <= MaxReserves
      BY <1>1
    <3> HIDE DEF All
    <3>2. \E x \in All : \A y \in All : x >= y
      BY <1>1, <2>3, <3>1
    <3>3. Max(All) \in All /\ \A y \in All : Max(All) >= y
      BY <3>2 DEF Max
    <3>4. Max(All) <= MaxReserves /\ Max(All) >= MaxReserves /\ Max(All) \in Nat
      BY <1>1, <2>3, <3>1, <3>3
    <3> QED BY <1>1, <3>4
  <2>5. MaxReserves \in n .. MaxReserves
    BY <1>1
  <2> QED BY <1>2, <2>2, <2>4, <2>5
<1> QED BY <1>4, <1>5

LEMMA ReservedStays == IInv /\ CapitalOK /\ ReservedOK /\ [Next]_vars => ReservedOK'
<1> SUFFICES ASSUME IInv, CapitalOK, ReservedOK, [Next]_vars  PROVE ReservedOK'
  OBVIOUS
<1>1. ASSUME Capitals' \subseteq Capitals  PROVE ReservedOK'
  BY <1>1 DEF ReservedOK
<1>2. ASSUME NEW c, Reserved(c), NEW p \in Calls, Adopts(p, c)  PROVE ReservedOK'
  <2>1. capital' = c /\ credited' = credited /\ capitalFile' = capitalFile
    BY <1>2 DEF Adopts
  <2>2. \A b \in Capitals' : b = c \/ b \in Capitals
    BY <2>1 DEF Capitals
  <2> QED BY <1>2, <2>2 DEF ReservedOK
<1>3. ASSUME NEW p \in Calls, ApplyCapitalSettlement(p)  PROVE ReservedOK'
  <2>1. PICK e \in Equities, t \in capital.observedAt .. now + Ahead :
          /\ capital.initialized => e >= capital.reserve + capital.excluded
          /\ ~Milestone(AfterMilestones(AtWork(capital, e)))
          /\ Adopts(p, Settlement(capital, e, t))
    BY <1>3 DEF ApplyCapitalSettlement
  <2>2. capital.sequence < MaxSettlements /\ capital \in Capital /\ Reserved(capital)
    BY <1>3 DEF ApplyCapitalSettlement, CapitalOK, Capitals, ReservedOK
  <2>3. e \in Nat /\ t \in Nat /\ orders \in Books
    <3>1. capital.observedAt \in Nat /\ now \in Nat
      BY <2>2, BoundsAssumption DEF Capital, IInv, StoreOK
    <3> QED BY <3>1, CapitalAssumption, BoundsAssumption DEF IInv, StoreOK, Versions
  <2>4. Reserved(Settlement(capital, e, t))
    BY <2>1, <2>2, <2>3, SettlementReserves
  <2> QED BY <1>2, <2>1, <2>4
<1>4. ASSUME NEW p \in Calls, InitializeWallet(p)  PROVE ReservedOK'
  <2> DEFINE c == [NoCapital EXCEPT !.initialized = TRUE, !.base = InitialLimit, !.active = InitialLimit,
                                    !.effective = InitialLimit, !.peak = InitialLimit]
  <2>1. Adopts(p, c)
    BY <1>4 DEF InitializeWallet
  <2>2. /\ c \in Capital /\ c.reserve = 0 /\ c.sequence = 0 /\ c.initialized
        /\ c.peak = InitialLimit /\ c.excluded = 0 /\ c.base = InitialLimit
    BY CapitalAssumption DEF NoCapital, Capital
  <2>3. InitialLimit \in Nat /\ MaxSettlements \in Nat
    BY CapitalAssumption, BoundsAssumption
  <2> HIDE DEF c
  <2>4. c.peak - c.excluded = c.base /\ c.sequence <= MaxSettlements
    BY <2>2, <2>3
  <2>5. Reserved(c)
    BY <2>2, <2>4, NothingReserved
  <2> QED BY <1>2, <2>1, <2>5
<1>5. ASSUME NEW p \in Calls, CapitalSaved(p) \/ CapitalSaveFails(p)  PROVE ReservedOK'
  <2>1. Capitals' \subseteq Capitals
    BY <1>5 DEF CapitalSaved, CapitalSaveFails, Capitals, CapitalOnDisk, RolledBack
  <2> QED BY <1>1, <2>1
<1>6. ASSUME Restart  PROVE ReservedOK'
  <2>1. Capitals' \subseteq Capitals
    BY <1>6 DEF Restart, Capitals, CapitalOnDisk
  <2> QED BY <1>1, <2>1
<1>7. ASSUME UNCHANGED wallet  PROVE ReservedOK'
  <2>1. Capitals' = Capitals
    BY <1>7 DEF wallet, Capitals
  <2> QED BY <1>1, <2>1
<1>8. \/ \E p \in Calls : \/ ApplyCapitalSettlement(p) \/ InitializeWallet(p)
                          \/ CapitalSaved(p) \/ CapitalSaveFails(p)
      \/ Restart
      \/ UNCHANGED wallet
  BY DEF Next, PlaceOrder, ApplyPaperFill, CancelOrder, CancelAnswered, SaveNow, SaveFails, Tick,
         PlaceRepeated, CancelRepeated, AnswerFromMemory, Beginning, Others, vars
<1> QED BY <1>3, <1>4, <1>5, <1>6, <1>7, <1>8

\* Profit is reserved once (applySettlement): the base in force is the one that the
\* highest equity ever settled leads to, in memory, on disk and in a rollback.
THEOREM ProfitReservedOnce == Spec => []ReservedOnce
<1>1. Init => IInv /\ CapitalOK /\ ReservedOK
  <2> SUFFICES ASSUME Init  PROVE ReservedOK
    BY Starting, StartingCapital
  <2>1. Capitals = {NoCapital}
    BY DEF Init, Capitals
  <2>2. NoCapital \in Capital /\ NoCapital.reserve = 0 /\ NoCapital.sequence = 0 /\ NoCapital.peak = 0
        /\ NoCapital.excluded = 0 /\ NoCapital.base = 0
    BY DEF NoCapital, Capital
  <2>3. Reserved(NoCapital)
    BY <2>2, NothingReserved, BoundsAssumption
  <2> QED BY <2>1, <2>3 DEF ReservedOK
<1>2. (IInv /\ CapitalOK /\ ReservedOK) /\ [Next]_vars => (IInv /\ CapitalOK /\ ReservedOK)'
  BY Consecution, CapitalConsecution, ReservedStays
<1>3. CapitalOK /\ ReservedOK => ReservedOnce
  <2> SUFFICES ASSUME CapitalOK, ReservedOK, NEW c \in {capital, credited, capitalFile}, c.initialized
               PROVE LET first == c.base - c.reserve
                         base == Bases(first)
                         Crossed(n) == \A i \in 0 .. n - 1 :
                                         c.peak - c.excluded - (base[i] - first) >= nextTrigger(base[i])
                     IN  c.base = base[Max({n \in 0 .. MaxReserves : Crossed(n)})]
    BY DEF ReservedOnce
  <2>1. c \in Capital /\ Reserved(c)
    BY DEF CapitalOK, ReservedOK, Capitals
  <2> QED BY <2>1, FromReserved
<1> QED BY <1>1, <1>2, <1>3, PTL DEF Spec
=============================================================================
