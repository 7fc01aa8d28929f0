-------------------------- MODULE DiskLayout_proofs --------------------------
(* Theorems about DiskLayout, for any width of a DiskSize, any number of     *)
(* partitions and whatever a configuration may list.                         *)
EXTENDS DiskLayout, SequenceTheorems, TLAPS

-----------------------------------------------------------------------------
(* Arithmetic modulo the width of a DiskSize.                              *)

\* The sum or the difference of two integers is a DiskSize again.
LEMMA Wrapped ==
    ASSUME NEW a \in Int, NEW b \in Int
    PROVE  Plus(a, b) \in DiskSize /\ Minus(a, b) \in DiskSize
<1>1. \A x \in Int : x % Modulus \in 0 .. Modulus - 1
  BY LayoutAssumption
<1> QED
  BY <1>1 DEF Plus, Minus, DiskSize

\* Neither addition nor subtraction wraps around within the range.
LEMMA NotWrapped ==
    ASSUME NEW a \in DiskSize, NEW b \in DiskSize
    PROVE  /\ a + b < Modulus => Plus(a, b) = a + b
           /\ b <= a => Minus(a, b) = a - b
<1>1. \A x \in 0 .. Modulus - 1 : x % Modulus = x
  BY LayoutAssumption
<1>2. /\ a + b < Modulus => a + b \in 0 .. Modulus - 1
      /\ b <= a => a - b \in 0 .. Modulus - 1
  BY LayoutAssumption DEF DiskSize
<1> QED
  BY <1>1, <1>2 DEF Plus, Minus

\* Beyond the range, addition and subtraction wrap around once.
LEMMA WrappedOnce ==
    ASSUME NEW a \in DiskSize, NEW b \in DiskSize
    PROVE  /\ a + b >= Modulus => Plus(a, b) = a + b - Modulus
           /\ b > a => Minus(a, b) = a - b + Modulus
<1>1. \A x \in Modulus .. 2 * Modulus - 1 : x % Modulus = x - Modulus
  BY LayoutAssumption
<1>2. \A x \in -Modulus .. -1 : x % Modulus = x + Modulus
  BY LayoutAssumption
<1>3. /\ a + b >= Modulus => a + b \in Modulus .. 2 * Modulus - 1
      /\ b > a => a - b \in -Modulus .. -1
  BY LayoutAssumption DEF DiskSize
<1>4. a + b >= Modulus => (a + b) % Modulus = a + b - Modulus
  BY <1>1, <1>3, LayoutAssumption DEF DiskSize
<1>5. b > a => (a - b) % Modulus = a - b + Modulus
  BY <1>2, <1>3
<1> QED
  BY <1>4, <1>5 DEF Plus, Minus

\* The footer behind an end, the end before a footer, and a size of zero.
LEMMA FooterArithmetic ==
    ASSUME NEW e \in DiskSize, NEW s \in DiskSize
    PROVE  /\ e # Modulus - 1 => Plus(e, Alignment) = e + Alignment
           /\ Plus(e, Alignment) = 0 => e = Modulus - 1
           /\ Plus(Minus(e, Alignment), Alignment) = e
           /\ Minus(e, s) = 0 => e = s
<1>1. Modulus \in Nat /\ Modulus > 1 /\ Alignment \in DiskSize /\ Alignment = 1
      /\ e \in Int /\ s \in Int /\ 0 <= e /\ 0 <= s /\ e <= Modulus - 1 /\ s <= Modulus - 1
  BY LayoutAssumption DEF DiskSize, Alignment
<1>2. e # Modulus - 1 => Plus(e, Alignment) = e + Alignment
  BY <1>1, NotWrapped
<1>3. Plus(e, Alignment) = 0 => e = Modulus - 1
  BY <1>1, <1>2
<1>4. Minus(e, s) = 0 => e = s
  <2>1. CASE s <= e
    BY <1>1, <2>1, NotWrapped
  <2>2. CASE s > e
    BY <1>1, <2>2, WrappedOnce
  <2> QED
    BY <1>1, <2>1, <2>2
<1>5. Plus(Minus(e, Alignment), Alignment) = e
  <2>1. CASE e = 0
    <3>1. Minus(e, Alignment) = Modulus - 1
      BY <1>1, <2>1, WrappedOnce
    <3>2. Modulus - 1 \in DiskSize /\ Modulus - 1 + Alignment >= Modulus
      BY <1>1 DEF DiskSize
    <3> QED
      BY <1>1, <2>1, <3>1, <3>2, WrappedOnce
  <2>2. CASE e > 0
    <3>1. Minus(e, Alignment) = e - 1
      BY <1>1, <2>2, NotWrapped
    <3>2. e - 1 \in DiskSize /\ e - 1 + Alignment < Modulus
      BY <1>1, <2>2 DEF DiskSize
    <3> QED
      BY <1>1, <2>2, <3>1, <3>2, NotWrapped
  <2> QED
    BY <1>1, <2>1, <2>2
<1> QED
  BY <1>2, <1>3, <1>4, <1>5

-----------------------------------------------------------------------------
(***************************************************************************)
(* The inductive invariant: what each loop of Disk.IsValid has established *)
(* about the partitions behind its index, and what a disk that has once    *)
(* been accepted keeps for good.                                           *)
(***************************************************************************)

Filled(p) == p.end # Nil /\ p.size \in DiskSize /\ p.filled

\* A size of zero is one that was computed for a partition without extent.
ZeroSizeKnown(p) == p.size = 0 => p.end # Nil /\ p.start = p.end

Started(p) == p.start # Nil /\ (p.biosGrub => p.start = 1)

Nonempty(p) == p.start < p.end

\* The first m partitions lie one behind the other.
OrderedUpTo(m) ==
    /\ \A k \in 1 .. m - 1 : /\ Filled(partitions[k])
                             /\ partitions[k].end <= partitions[k + 1].start
    /\ (\A k \in 1 .. m - 1 : Nonempty(partitions[k])) =>
           \A j, k \in 1 .. m : j < k => partitions[j].end <= partitions[k].start

Count == Len(partitions)

LayoutDone ==
    /\ maxSize \in DiskSize
    /\ \A k \in 1 .. Count : /\ Started(partitions[k]) /\ Filled(partitions[k])
                             /\ ZeroSizeKnown(partitions[k])
    /\ OrderedUpTo(Count)
    /\ Count > 0 => /\ partitions[1].start >= Alignment
                    /\ Plus(partitions[Count].end, Alignment) <= maxSize
    /\ Count = 0 => maxSize # 0

LoopInv ==
    /\ Count <= MaxPartitions /\ i <= Count + 1
    /\ pc = "load" => i = 1 /\ validated = <<>>
    /\ pc \in {"partitions", "starts", "order", "size"} => maxSize # 0
    /\ pc = "partitions" => \A k \in 1 .. i - 1 : ZeroSizeKnown(partitions[k])
    /\ pc \in {"starts", "order", "size"} => \A k \in 1 .. Count : ZeroSizeKnown(partitions[k])
    /\ pc = "starts" => \A k \in 1 .. i - 1 : Started(partitions[k])
    /\ pc \in {"order", "size"} => \A k \in 1 .. Count : Started(partitions[k])
    /\ pc = "order" => (i <= Count \/ i = 1) /\ OrderedUpTo(i)
    /\ pc = "size" => OrderedUpTo(Count)

AcceptedInv ==
    /\ Accepted => validated # <<>>
    /\ validated # <<>> => LayoutDone

CreateInv ==
    /\ pc \notin {"create", "created", "failed"} => table = <<>>
    /\ pc = "create" => /\ Len(table) = i - 1
                        /\ \A j \in 1 .. i - 1 : table[j] = ExtentOf(partitions[j])

LayoutInv == TypeOK /\ LoopInv /\ AcceptedInv /\ RevalidationStable /\ CreateInv

-----------------------------------------------------------------------------
(* The helpers of Disk.IsValid.                                            *)

\* A value that was left out is no DiskSize.
LEMMA DiskSizeFacts ==
    /\ DiskSize \subseteq Nat /\ DiskSize \subseteq Int
    /\ Nil \in Int /\ Grow \in Int /\ Nil # Grow
    /\ Nil \notin DiskSize /\ Grow \notin DiskSize
    /\ 0 \in DiskSize /\ Alignment \in DiskSize /\ Alignment = 1
    /\ Modulus \in Nat /\ Modulus > 1
  BY LayoutAssumption DEF DiskSize, Nil, Grow, Alignment

\* partGetEnd computes a DiskSize whenever it finds an end.
LEMMA EndType ==
    ASSUME NEW p \in Partition, HasEnd(p)
    PROVE  partGetEnd(p) \in DiskSize
<1>1. p.start \in Int /\ (p.end # Nil => p.end \in DiskSize)
      /\ (p.size \notin {Nil, Grow} => p.size \in Int)
  BY DiskSizeFacts DEF Partition
<1>2. CASE p.end # Nil
  BY <1>1, <1>2 DEF partGetEnd
<1>3. CASE p.end = Nil
  BY <1>1, <1>3, Wrapped DEF partGetEnd, HasEnd
<1> QED
  BY <1>2, <1>3

\* partFillSizeAndEnd leaves the start alone and fills in the rest.
LEMMA FillProperties ==
    ASSUME NEW p \in Partition, NEW e \in DiskSize
    PROVE  LET q == partFillSizeAndEnd(p, e) IN
           /\ q \in Partition
           /\ Filled(q)
           /\ q.start = p.start /\ q.biosGrub = p.biosGrub
           /\ q.end = IF p.end = Nil THEN e ELSE p.end
           /\ q.size = IF p.size \in {Nil, Grow} THEN Minus(e, p.start) ELSE p.size
           /\ Filled(p) => q = p
<1> DEFINE q == partFillSizeAndEnd(p, e)
<1>1. p.start \in Int /\ e \in Int
  BY DiskSizeFacts DEF Partition
<1>2. Minus(e, p.start) \in DiskSize
  BY <1>1, Wrapped
<1>3. /\ q.start = p.start /\ q.biosGrub = p.biosGrub
      /\ q.end = IF p.end = Nil THEN e ELSE p.end
      /\ q.size = IF p.size \in {Nil, Grow} THEN Minus(e, p.start) ELSE p.size
      /\ q.filled = TRUE
  BY DEF partFillSizeAndEnd, Partition
<1>4. q \in Partition
  BY <1>2 DEF partFillSizeAndEnd, Partition
<1>5. Filled(q)
  BY <1>2, <1>3, DiskSizeFacts DEF Filled, Partition
<1>6. Filled(p) => q = p
  BY DiskSizeFacts DEF Filled, partFillSizeAndEnd, Partition
<1> QED
  BY <1>3, <1>4, <1>5, <1>6

\* A size of zero is filled in only where start and end coincide.
LEMMA FillZeroSize ==
    ASSUME NEW p \in Partition, NEW e \in DiskSize, p.start # Nil, ZeroSizeKnown(p),
           p.end = Nil \/ p.end = e
    PROVE  ZeroSizeKnown(partFillSizeAndEnd(p, e))
<1>1. p.start \in DiskSize
  BY DEF Partition
<1>2. Minus(e, p.start) = 0 => e = p.start
  BY <1>1, FooterArithmetic
<1>3. LET q == partFillSizeAndEnd(p, e) IN
           /\ q.start = p.start
           /\ q.end = e
           /\ q.size = IF p.size \in {Nil, Grow} THEN Minus(e, p.start) ELSE p.size
  BY FillProperties
<1> QED
  BY <1>1, <1>2, <1>3, DiskSizeFacts DEF ZeroSizeKnown

\* Replacing one partition of the list.
LEMMA Replaced ==
    ASSUME NEW S, NEW s \in Seq(S), NEW k \in 1 .. Len(s), NEW q \in S
    PROVE  LET t == [s EXCEPT ![k] = q] IN
           /\ t \in Seq(S) /\ Len(t) = Len(s)
           /\ \A j \in 1 .. Len(s) : t[j] = IF j = k THEN q ELSE s[j]
           /\ q = s[k] => t = s
  OBVIOUS

\* The entries of the list are partitions, its index is a number.
LEMMA Entries ==
    ASSUME TypeOK
    PROVE  /\ Count \in Nat /\ i \in Nat \ {0} /\ maxSize \in Int /\ MaxPartitions \in Nat
           /\ \A k \in 1 .. Count : partitions[k] \in Partition
  BY LayoutAssumption, DiskSizeFacts DEF TypeOK, Count

\* What is said of the layout depends on the layout only.
LEMMA SameLayout ==
    ASSUME UNCHANGED <<partitions, maxSize>>
    PROVE  /\ Count' = Count
           /\ LayoutDone' <=> LayoutDone
           /\ \A m : OrderedUpTo(m)' <=> OrderedUpTo(m)
           /\ \A k : FooterWraps(k)' <=> FooterWraps(k)
           /\ \A p : ExtentOf(p)' = ExtentOf(p)
<1>1. Count' = Count
  BY DEF Count
<1>2. \A m : OrderedUpTo(m)' <=> OrderedUpTo(m)
  BY DEF OrderedUpTo
<1>3. LayoutDone' <=> LayoutDone
  BY <1>1, <1>2 DEF LayoutDone
<1> QED
  BY <1>1, <1>2, <1>3 DEF FooterWraps, ExtentOf

\* Nothing has been accepted when the configuration is about to be read.
LEMMA LayoutInit == Init => LayoutInv
<1> SUFFICES ASSUME Init PROVE LayoutInv
  OBVIOUS
<1>1. /\ partitions = <<>> /\ i = 1 /\ pc = "load" /\ validated = <<>> /\ table = <<>>
      /\ maxSize \in DiskSize \cup {Nil}
  BY LayoutAssumption DEF Init
<1>2. TypeOK
  BY <1>1, LayoutAssumption DEF TypeOK
<1>3. LoopInv
  BY <1>1, LayoutAssumption DEF LoopInv, Count
<1> QED
  BY <1>1, <1>2, <1>3 DEF LayoutInv, AcceptedInv, RevalidationStable, CreateInv, Accepted

\* Reading one more entry of the list.
LEMMA LayoutLoad ==
    ASSUME LayoutInv, LoadPartition
    PROVE  LayoutInv'
<1> USE DEF LayoutInv
<1>1. /\ pc = "load" /\ i = 1 /\ validated = <<>> /\ table = <<>>
      /\ UNCHANGED <<maxSize, pc, i, validated, table>> /\ Count < MaxPartitions
  BY DEF LoadPartition, LoopInv, CreateInv, Count
<1>2. PICK p \in Written : partitions' = Append(partitions, p)
  BY DEF LoadPartition
<1>3. p \in Partition
  BY LayoutAssumption
<1>4. partitions' \in Seq(Partition) /\ Count' = Count + 1
  BY <1>2, <1>3, AppendProperties DEF TypeOK, Count
<1>5. TypeOK'
  BY <1>1, <1>4 DEF TypeOK
<1>6. LoopInv'
  BY <1>1, <1>4, Entries DEF LoopInv
<1> QED
  BY <1>1, <1>5, <1>6 DEF AcceptedInv, RevalidationStable, CreateInv, Accepted

\* Disk.IsValid begins, the first or the second time.
LEMMA LayoutIsValid ==
    ASSUME LayoutInv, IsValid
    PROVE  LayoutInv'
<1> USE DEF LayoutInv
<1>1. /\ pc \in {"load", "accepted"} /\ UNCHANGED <<partitions, maxSize, validated, table>>
      /\ i' = 1 /\ pc' = (IF maxSize = 0 THEN "rejected" ELSE "partitions")
  BY DEF IsValid
<1>2. TypeOK'
  BY <1>1, LayoutAssumption DEF TypeOK
<1>3. LoopInv'
  BY <1>1, Entries DEF LoopInv, Count
<1>4. AcceptedInv'
  BY <1>1, SameLayout DEF AcceptedInv, Accepted
<1>5. validated # <<>> /\ maxSize = 0 => FooterWraps(Count)
  <2> SUFFICES ASSUME validated # <<>>, maxSize = 0 PROVE FooterWraps(Count)
    OBVIOUS
  <2>0. LayoutDone /\ Count \in Nat /\ Count > 0
    BY Entries DEF AcceptedInv, LayoutDone
  <2>a. partitions[Count] \in Partition /\ partitions[Count].end # Nil
    BY <2>0, Entries DEF LayoutDone, Filled
  <2>1. /\ Count > 0 /\ partitions[Count].end \in DiskSize
        /\ Plus(partitions[Count].end, Alignment) <= 0
    BY <2>0, <2>a DEF LayoutDone, Partition
  <2>2. Plus(partitions[Count].end, Alignment) \in DiskSize
    BY <2>1, Wrapped, DiskSizeFacts
  <2>3. Plus(partitions[Count].end, Alignment) = 0
    BY <2>1, <2>2 DEF DiskSize
  <2> QED
    BY <2>1, <2>3, FooterArithmetic DEF FooterWraps
<1>6. RevalidationStable'
  BY <1>1, <1>5, SameLayout DEF RevalidationStable, Count
<1>7. CreateInv'
  BY <1>1 DEF CreateInv
<1> QED
  BY <1>2, <1>3, <1>4, <1>6, <1>7

\* The loop over Partition.IsValid.
LEMMA LayoutValidate ==
    ASSUME LayoutInv, ValidatePartition
    PROVE  LayoutInv'
<1> USE DEF LayoutInv
<1>1. pc = "partitions" /\ UNCHANGED <<partitions, maxSize, validated, table>>
  BY DEF ValidatePartition
<1>2. \/ i > Count /\ pc' = "starts" /\ i' = 1
      \/ i <= Count /\ PartitionIsValid(partitions[i]) /\ i' = i + 1 /\ pc' = pc
      \/ i <= Count /\ ~PartitionIsValid(partitions[i]) /\ pc' = "rejected" /\ i' = i
  BY Entries DEF ValidatePartition, Count
<1>3. TypeOK'
  BY <1>1, <1>2, Entries DEF TypeOK, LoopInv
<1>4. LoopInv'
  <2>1. PartitionIsValid(partitions[i]) => ZeroSizeKnown(partitions[i])
    BY DEF PartitionIsValid, ZeroSizeKnown
  <2> QED
    BY <1>1, <1>2, <2>1, Entries, SameLayout DEF LoopInv
<1>5. AcceptedInv'
  BY <1>1, <1>2, SameLayout DEF AcceptedInv, Accepted
<1>6. RevalidationStable'
  <2>1. CASE pc' # "rejected"
    BY <1>1, <2>1 DEF RevalidationStable
  <2>2. CASE validated # <<>> /\ i <= Count /\ ~PartitionIsValid(partitions[i])
    <3>1. i \in 1 .. Count
      BY <2>2, Entries
    <3>2. LET p == partitions[i] IN Started(p) /\ Filled(p) /\ ZeroSizeKnown(p) /\ p \in Partition
      BY <2>2, <3>1, Entries DEF AcceptedInv, LayoutDone
    <3>3. partitions[i].start \in Int /\ partitions[i].end \in Int
      BY <3>2, DiskSizeFacts DEF Partition
    <3>4. partitions[i].start >= partitions[i].end \/ partitions[i].size = 0
      BY <2>2, <3>2 DEF PartitionIsValid, Started, Filled
    <3>5. partitions[i].start >= partitions[i].end
      BY <3>2, <3>3, <3>4 DEF ZeroSizeKnown
    <3> QED
      BY <1>1, <3>1, <3>5, Entries DEF RevalidationStable, Count
  <2> QED
    BY <1>1, <1>2, <2>1, <2>2 DEF RevalidationStable
<1>7. CreateInv'
  BY <1>1, <1>2 DEF CreateInv
<1> QED
  BY <1>3, <1>4, <1>5, <1>6, <1>7

\* The start value that a partition is given.
LEMMA StartProperties ==
    ASSUME TypeOK, NEW k \in 1 .. Count, StartKnown(k)
    PROVE  LET q == [partitions[k] EXCEPT !.start = StartOf(k)] IN
           /\ StartOf(k) \in DiskSize
           /\ q \in Partition
           /\ q.start = StartOf(k) /\ q.end = partitions[k].end
           /\ q.size = partitions[k].size /\ q.biosGrub = partitions[k].biosGrub
           /\ partitions[k].start # Nil => q = partitions[k]
<1>1. partitions[k] \in Partition
  BY Entries
<1>2. StartOf(k) \in DiskSize
  <2>1. CASE partitions[k].start # Nil
    BY <1>1, <2>1 DEF StartOf, Partition
  <2>2. CASE partitions[k].start = Nil /\ k = 1
    BY <2>2, DiskSizeFacts DEF StartOf
  <2>3. CASE partitions[k].start = Nil /\ k # 1
    <3>1. k - 1 \in 1 .. Count /\ HasEnd(partitions[k - 1])
      BY <2>3, Entries DEF StartKnown
    <3> QED
      BY <2>3, <3>1, Entries, EndType DEF StartOf
  <2> QED
    BY <2>1, <2>2, <2>3
<1>3. [partitions[k] EXCEPT !.start = StartOf(k)] \in Partition
  BY <1>1, <1>2 DEF Partition
<1>4. partitions[k].start # Nil => [partitions[k] EXCEPT !.start = StartOf(k)] = partitions[k]
  BY <1>1 DEF StartOf, Partition
<1> QED
  BY <1>1, <1>2, <1>3, <1>4 DEF Partition

\* The loop that fills in the start values.
LEMMA LayoutFillStart ==
    ASSUME LayoutInv, FillStart
    PROVE  LayoutInv'
<1> USE DEF LayoutInv
<1>1. /\ pc = "starts" /\ UNCHANGED <<maxSize, validated, table>> /\ maxSize # 0
      /\ \A k \in 1 .. Count : ZeroSizeKnown(partitions[k])
      /\ \A k \in 1 .. i - 1 : Started(partitions[k])
  BY DEF FillStart, LoopInv
<1>2. CASE i > Count /\ pc' = "order" /\ i' = 1 /\ partitions' = partitions
  <2>1. TypeOK'
    BY <1>1, <1>2, Entries DEF TypeOK
  <2>2. OrderedUpTo(1)
    BY DEF OrderedUpTo
  <2>3. LoopInv'
    BY <1>1, <1>2, <2>2, Entries, SameLayout DEF LoopInv
  <2> QED
    BY <1>1, <1>2, <2>1, <2>3, SameLayout DEF AcceptedInv, RevalidationStable, CreateInv, Accepted
<1>3. CASE i <= Count /\ ~StartKnown(i) /\ pc' = "rejected" /\ UNCHANGED <<partitions, i>>
  <2>1. validated = <<>>
    BY <1>3, Entries DEF AcceptedInv, LayoutDone, Started, StartKnown
  <2>2. TypeOK' /\ LoopInv'
    BY <1>1, <1>3, SameLayout DEF TypeOK, LoopInv
  <2> QED
    BY <1>1, <1>3, <2>1, <2>2 DEF AcceptedInv, RevalidationStable, CreateInv, Accepted
<1>4. CASE /\ i <= Count /\ StartKnown(i)
           /\ partitions' = [partitions EXCEPT ![i].start = StartOf(i)]
           /\ IF partitions[i].biosGrub /\ StartOf(i) # 1
              THEN pc' = "rejected" /\ i' = i
              ELSE i' = i + 1 /\ pc' = pc
  <2> DEFINE q == [partitions[i] EXCEPT !.start = StartOf(i)]
  <2>0. i \in 1 .. Count
    BY <1>4, Entries
  <2>1. /\ q \in Partition /\ StartOf(i) \in DiskSize
        /\ q.start = StartOf(i) /\ q.end = partitions[i].end
        /\ q.size = partitions[i].size /\ q.biosGrub = partitions[i].biosGrub
        /\ partitions[i].start # Nil => q = partitions[i]
    BY <1>4, <2>0, StartProperties
  <2>2. partitions' = [partitions EXCEPT ![i] = q]
    BY <1>4
  <2> HIDE DEF q
  <2>3. /\ partitions' \in Seq(Partition) /\ Count' = Count
        /\ \A j \in 1 .. Count : partitions'[j] = IF j = i THEN q ELSE partitions[j]
        /\ q = partitions[i] => partitions' = partitions
    BY <2>0, <2>1, <2>2, Replaced DEF TypeOK, Count
  <2>4. ZeroSizeKnown(q)
    BY <1>1, <2>0, <2>1, DiskSizeFacts, Entries DEF ZeroSizeKnown, Partition
  <2>5. \A k \in 1 .. Count : ZeroSizeKnown(partitions'[k])
    BY <1>1, <2>3, <2>4
  <2>6. pc' # "rejected" => Started(q)
    BY <1>4, <2>1, DiskSizeFacts DEF Started
  <2>7. pc' # "rejected" => \A k \in 1 .. i : Started(partitions'[k])
    BY <1>1, <2>0, <2>3, <2>6, Entries
  <2>8. TypeOK'
    BY <1>1, <1>4, <2>0, <2>3, Entries DEF TypeOK, LoopInv
  <2>9. LoopInv'
    <3>1. CASE pc' = "rejected" /\ i' = i
      BY <1>1, <2>0, <2>3, <3>1, Entries DEF LoopInv
    <3>2. CASE pc' = "starts" /\ i' = i + 1
      <4>1. \A k \in 1 .. i' - 1 : Started(partitions'[k])
        BY <2>0, <2>7, <3>2, Entries
      <4> QED
        BY <1>1, <2>0, <2>3, <2>5, <3>2, <4>1, Entries DEF LoopInv
    <3> QED
      BY <1>1, <1>4, <3>1, <3>2
  <2>10. validated # <<>> => partitions' = partitions /\ pc' # "rejected"
    <3> SUFFICES ASSUME validated # <<>> PROVE partitions' = partitions /\ pc' # "rejected"
      OBVIOUS
    <3>1. Started(partitions[i])
      BY <2>0 DEF AcceptedInv, LayoutDone
    <3>2. StartOf(i) = partitions[i].start
      BY <3>1 DEF StartOf, Started
    <3> QED
      BY <1>1, <1>4, <2>1, <2>3, <3>1, <3>2 DEF Started
  <2>11. AcceptedInv' /\ RevalidationStable'
    BY <1>1, <1>4, <2>10, SameLayout DEF AcceptedInv, RevalidationStable, Accepted
  <2>12. CreateInv'
    BY <1>1, <1>4 DEF CreateInv
  <2> QED
    BY <2>8, <2>9, <2>11, <2>12
<1> QED
  BY <1>2, <1>3, <1>4, Entries DEF FillStart, Count

\* One more pair of neighbours is in order: the first i + 1 partitions are.
LEMMA OrderExtends ==
    ASSUME LayoutInv, pc = "order", NEW q \in Partition, i < Count, OrderedUpTo(i),
           partitions' \in Seq(Partition),
           \A j \in 1 .. Count : partitions'[j] = IF j = i THEN q ELSE partitions[j],
           Filled(q), q.start = partitions[i].start, q.end <= partitions[i + 1].start,
           NEW m \in Int, m = i + 1
    PROVE  OrderedUpTo(m)'
<1> USE DEF LayoutInv
<1>0. /\ Count \in Nat /\ i \in 1 .. Count /\ i + 1 \in 1 .. Count
      /\ m - 1 = i
  BY Entries
<1>1. \A k \in 1 .. i - 1 : /\ Filled(partitions[k])
                            /\ partitions[k].end <= partitions[k + 1].start
  BY DEF OrderedUpTo
<1>2. \A k \in 1 .. Count : partitions[k].start \in Int /\ partitions[k].end \in Int
  BY Entries, DiskSizeFacts DEF Partition
<1>3. q.start \in Int /\ q.end \in Int
  BY DiskSizeFacts DEF Partition
<1>4. \A k \in 1 .. Count : partitions'[k].start = partitions[k].start
  BY <1>0
<1>5. \A k \in 1 .. i - 1 : partitions'[k] = partitions[k] /\ k \in 1 .. Count /\ k + 1 \in 1 .. Count
  BY <1>0
<1>6. \A k \in 1 .. i : Filled(partitions'[k]) /\ partitions'[k].end <= partitions'[k + 1].start
  <2> SUFFICES ASSUME NEW k \in 1 .. i
               PROVE  Filled(partitions'[k]) /\ partitions'[k].end <= partitions'[k + 1].start
    OBVIOUS
  <2>1. CASE k = i
    BY <1>0, <1>4, <2>1
  <2>2. CASE k \in 1 .. i - 1
    BY <1>1, <1>4, <1>5, <2>2
  <2> QED
    BY <1>0, <2>1, <2>2
<1>7. ASSUME \A k \in 1 .. i : Nonempty(partitions'[k]),
             NEW j \in 1 .. i + 1, NEW k \in 1 .. i + 1, j < k
      PROVE  partitions'[j].end <= partitions'[k].start
  <2>1. \A a, b \in 1 .. i : a < b => partitions[a].end <= partitions[b].start
    BY <1>0, <1>5, <1>7 DEF OrderedUpTo
  <2>2. CASE k \in 1 .. i
    <3>1. j \in 1 .. i - 1
      BY <1>0, <1>7, <2>2
    <3> QED
      <4>1. partitions'[j] = partitions[j] /\ partitions'[k].start = partitions[k].start
        BY <1>0, <1>4, <1>5, <2>2, <3>1
      <4>2. j \in 1 .. i /\ k \in 1 .. i /\ j < k
        BY <1>0, <1>7, <2>2, <3>1
      <4> QED
        BY <2>1, <4>1, <4>2
  <2>3. CASE k = i + 1 /\ j = i
    BY <1>0, <1>6, <2>3
  <2>4. CASE k = i + 1 /\ j \in 1 .. i - 1
    <3>1. /\ partitions'[j].end <= partitions[i].start /\ partitions'[j].end \in Int
          /\ partitions[i].start < q.end
      BY <1>0, <1>2, <1>5, <1>7, <2>1, <2>4 DEF Nonempty
    <3>2. q.end <= partitions'[k].start /\ partitions'[k].start \in Int
      BY <1>0, <1>2, <1>4, <2>4
    <3> QED
      BY <1>0, <1>2, <1>3, <3>1, <3>2
  <2> QED
    BY <1>0, <1>7, <2>2, <2>3, <2>4
<1> QED
  BY <1>0, <1>6, <1>7 DEF OrderedUpTo

\* The loop that compares neighbours and fills in ends and sizes.
LEMMA LayoutConfirmOrder ==
    ASSUME LayoutInv, ConfirmOrder
    PROVE  LayoutInv'
<1> USE DEF LayoutInv
<1>1. /\ pc = "order" /\ UNCHANGED <<maxSize, validated, table>> /\ maxSize # 0
      /\ \A k \in 1 .. Count : ZeroSizeKnown(partitions[k]) /\ Started(partitions[k])
      /\ i <= Count \/ i = 1
      /\ OrderedUpTo(i)
  BY DEF ConfirmOrder, LoopInv
<1>2. CASE i >= Count /\ pc' = "size" /\ UNCHANGED <<partitions, i>>
  <2>1. TypeOK'
    BY <1>1, <1>2 DEF TypeOK
  <2>2. OrderedUpTo(Count)
    <3>1. CASE i = Count
      BY <1>1, <3>1
    <3>2. CASE Count = 0
      BY <3>2 DEF OrderedUpTo
    <3> QED
      BY <1>1, <1>2, <3>1, <3>2, Entries
  <2>3. LoopInv'
    BY <1>1, <1>2, <2>2, SameLayout DEF LoopInv
  <2> QED
    BY <1>1, <1>2, <2>1, <2>3, SameLayout DEF AcceptedInv, RevalidationStable, CreateInv, Accepted
<1>3. CASE /\ i < Count /\ ~(HasEnd(partitions[i]) /\ InOrder(partitions[i], partitions[i + 1]))
           /\ pc' = "rejected" /\ UNCHANGED <<partitions, i>>
  <2>1. validated = <<>>
    <3> SUFFICES ASSUME validated # <<>> PROVE FALSE
      OBVIOUS
    <3>1. i \in 1 .. Count /\ i \in 1 .. Count - 1 /\ LayoutDone
      BY <1>3, Entries DEF AcceptedInv
    <3>2. partitions[i].end # Nil /\ partitions[i].end <= partitions[i + 1].start
      BY <3>1 DEF LayoutDone, Filled, OrderedUpTo
    <3> QED
      BY <1>3, <3>2 DEF HasEnd, InOrder, partGetEnd
  <2>2. TypeOK' /\ LoopInv'
    BY <1>1, <1>3, SameLayout DEF TypeOK, LoopInv
  <2> QED
    BY <1>1, <1>3, <2>1, <2>2 DEF AcceptedInv, RevalidationStable, CreateInv, Accepted
<1>4. CASE /\ i < Count /\ HasEnd(partitions[i]) /\ InOrder(partitions[i], partitions[i + 1])
           /\ partitions' = [partitions EXCEPT ![i] =
                                partFillSizeAndEnd(partitions[i], partGetEnd(partitions[i]))]
           /\ i' = i + 1 /\ pc' = pc
  <2> DEFINE p == partitions[i]
             e == partGetEnd(p)
             q == partFillSizeAndEnd(p, e)
  <2>0. i \in 1 .. Count /\ i + 1 \in 1 .. Count /\ p \in Partition /\ i + 1 \in Int
    BY <1>4, Entries
  <2>1. e \in DiskSize /\ (p.end = Nil \/ p.end = e)
    BY <1>4, <2>0, EndType DEF partGetEnd
  <2>2. /\ q \in Partition /\ Filled(q) /\ q.start = p.start /\ q.biosGrub = p.biosGrub
        /\ q.end = e /\ (Filled(p) => q = p)
    BY <2>0, <2>1, FillProperties
  <2>3. Started(q) /\ ZeroSizeKnown(q)
    BY <1>1, <2>0, <2>1, <2>2, FillZeroSize DEF Started
  <2>4. q.end <= partitions[i + 1].start
    BY <1>4, <2>2 DEF InOrder
  <2>5. partitions' = [partitions EXCEPT ![i] = q]
    BY <1>4
  <2> HIDE DEF q
  <2>6. /\ partitions' \in Seq(Partition) /\ Count' = Count
        /\ \A j \in 1 .. Count : partitions'[j] = IF j = i THEN q ELSE partitions[j]
        /\ q = partitions[i] => partitions' = partitions
    BY <2>0, <2>2, <2>5, Replaced DEF TypeOK, Count
  <2>7. \A k \in 1 .. Count : ZeroSizeKnown(partitions'[k]) /\ Started(partitions'[k])
    BY <1>1, <2>3, <2>6
  <2>8. \A m \in Int : m = i + 1 => OrderedUpTo(m)'
    BY <1>1, <1>4, <2>2, <2>4, <2>6, OrderExtends
  <2>9. OrderedUpTo(i)'
    BY <1>4, <2>0, <2>8 DEF OrderedUpTo
  <2>10. TypeOK'
    BY <1>1, <1>4, <2>0, <2>6, Entries DEF TypeOK, LoopInv
  <2>11. LoopInv'
    BY <1>1, <1>4, <2>0, <2>6, <2>7, <2>9, Entries DEF LoopInv
  <2>12. validated # <<>> => partitions' = partitions
    BY <2>0, <2>2, <2>6 DEF AcceptedInv, LayoutDone
  <2>13. AcceptedInv' /\ RevalidationStable'
    BY <1>1, <1>4, <2>12, SameLayout DEF AcceptedInv, RevalidationStable, Accepted
  <2>14. CreateInv'
    BY <1>1, <1>4 DEF CreateInv
  <2> QED
    BY <2>10, <2>11, <2>13, <2>14
<1> QED
  BY <1>2, <1>3, <1>4, Entries DEF ConfirmOrder, Count

\* The size of the disk is known and the last partition fits on it.
LEMMA LayoutSizeFits ==
    ASSUME LayoutInv, pc = "size", Count > 0, SizeFits,
           partitions' = [partitions EXCEPT ![Count] =
                            partFillSizeAndEnd(partitions[Count], LastEnd(partitions[Count]))],
           maxSize' = IF maxSize = Nil
                      THEN Plus(partGetEnd(partitions[Count]), Alignment)
                      ELSE maxSize
    PROVE  /\ partitions' \in Seq(Partition) /\ Count' = Count
           /\ LayoutDone'
           /\ validated # <<>> => UNCHANGED <<partitions, maxSize>>
<1> USE DEF LayoutInv
<1> DEFINE p == partitions[Count]
           e == LastEnd(p)
           q == partFillSizeAndEnd(p, e)
<1>0. Count \in Nat /\ Count \in 1 .. Count /\ p \in Partition
  BY Entries
<1>1. /\ \A k \in 1 .. Count : ZeroSizeKnown(partitions[k]) /\ Started(partitions[k])
      /\ OrderedUpTo(Count) /\ maxSize # 0
  BY DEF LoopInv
<1>2. /\ partitions[1].start >= Alignment
      /\ maxSize = Nil => HasEnd(p)
      /\ maxSize # Nil => RequiredSize(p) <= maxSize
  BY DEF SizeFits, Count
<1>3. maxSize # Nil => maxSize \in DiskSize
  BY DEF TypeOK
<1>4. e \in DiskSize /\ (p.end = Nil \/ p.end = e)
  <2>1. CASE HasEnd(p)
    BY <1>0, <2>1, EndType DEF LastEnd, partGetEnd
  <2>2. CASE ~HasEnd(p)
    BY <1>2, <1>3, <2>2, Wrapped, DiskSizeFacts DEF LastEnd, HasEnd
  <2> QED
    BY <2>1, <2>2
<1>5. maxSize' \in DiskSize /\ Plus(e, Alignment) <= maxSize'
  <2>0. Plus(e, Alignment) \in DiskSize
    BY <1>4, Wrapped, DiskSizeFacts
  <2>1. CASE maxSize = Nil
    <3>1. maxSize' = Plus(e, Alignment)
      BY <1>2, <2>1 DEF LastEnd
    <3> QED
      BY <2>0, <3>1 DEF DiskSize
  <2>2. CASE maxSize # Nil /\ HasEnd(p)
    BY <1>2, <1>3, <2>2 DEF LastEnd, RequiredSize
  <2>3. CASE maxSize # Nil /\ ~HasEnd(p)
    <3>1. Plus(e, Alignment) = maxSize
      BY <1>3, <2>3, FooterArithmetic DEF LastEnd
    <3> QED
      BY <1>3, <2>3, <3>1 DEF DiskSize
  <2> QED
    BY <2>1, <2>2, <2>3
<1>6. /\ q \in Partition /\ Filled(q) /\ q.start = p.start /\ q.biosGrub = p.biosGrub
      /\ q.end = e /\ (Filled(p) => q = p)
  BY <1>0, <1>4, FillProperties
<1>7. Started(q) /\ ZeroSizeKnown(q)
  BY <1>0, <1>1, <1>4, <1>6, FillZeroSize DEF Started
<1>8. partitions' = [partitions EXCEPT ![Count] = q]
  OBVIOUS
<1> HIDE DEF q
<1>9. /\ partitions' \in Seq(Partition) /\ Count' = Count
      /\ \A j \in 1 .. Count : partitions'[j] = IF j = Count THEN q ELSE partitions[j]
      /\ q = p => partitions' = partitions
  BY <1>0, <1>6, <1>8, Replaced DEF TypeOK, Count
<1>10. /\ \A k \in 1 .. Count - 1 : partitions'[k] = partitions[k]
       /\ \A k \in 1 .. Count : partitions'[k].start = partitions[k].start
  BY <1>0, <1>6, <1>9
<1>11. \A m : m = Count => OrderedUpTo(m)'
  <2>1. \A k \in 1 .. Count - 1 : /\ Filled(partitions'[k])
                                  /\ partitions'[k].end <= partitions'[k + 1].start
    BY <1>0, <1>1, <1>10 DEF OrderedUpTo
  <2>2. (\A k \in 1 .. Count - 1 : Nonempty(partitions'[k])) =>
           \A j, k \in 1 .. Count : j < k => partitions'[j].end <= partitions'[k].start
    <3> SUFFICES ASSUME \A k \in 1 .. Count - 1 : Nonempty(partitions'[k]),
                        NEW j \in 1 .. Count, NEW k \in 1 .. Count, j < k
                 PROVE  partitions'[j].end <= partitions'[k].start
      OBVIOUS
    <3>1. \A l \in 1 .. Count - 1 : Nonempty(partitions[l])
      BY <1>10
    <3>2. partitions[j].end <= partitions[k].start
      BY <1>1, <3>1 DEF OrderedUpTo
    <3>3. j \in 1 .. Count - 1
      BY <1>0
    <3> QED
      BY <1>10, <3>2, <3>3
  <2> QED
    BY <2>1, <2>2 DEF OrderedUpTo
<1>12. OrderedUpTo(Count)'
  BY <1>9, <1>11 DEF OrderedUpTo
<1>13. \A k \in 1 .. Count : /\ Started(partitions'[k]) /\ Filled(partitions'[k])
                             /\ ZeroSizeKnown(partitions'[k])
  <2> SUFFICES ASSUME NEW k \in 1 .. Count
               PROVE  /\ Started(partitions'[k]) /\ Filled(partitions'[k])
                      /\ ZeroSizeKnown(partitions'[k])
    OBVIOUS
  <2>1. CASE k = Count
    BY <1>6, <1>7, <1>9, <2>1
  <2>2. CASE k \in 1 .. Count - 1
    BY <1>1, <1>9, <1>10, <2>2 DEF OrderedUpTo
  <2> QED
    BY <1>0, <2>1, <2>2
<1>14. partitions'[1].start >= Alignment /\ Plus(partitions'[Count].end, Alignment) <= maxSize'
  BY <1>0, <1>2, <1>5, <1>6, <1>9, <1>10
<1>15. LayoutDone'
  BY <1>5, <1>9, <1>12, <1>13, <1>14 DEF LayoutDone
<1>16. validated # <<>> => UNCHANGED <<partitions, maxSize>>
  <2>1. validated # <<>> => Filled(p) /\ maxSize # Nil
    BY <1>0, DiskSizeFacts DEF AcceptedInv, LayoutDone
  <2> QED
    BY <1>6, <1>9, <2>1
<1> QED
  BY <1>9, <1>15, <1>16

\* The last check of Disk.IsValid, and its return.
LEMMA LayoutVerifyMaxSize ==
    ASSUME LayoutInv, VerifyMaxSize
    PROVE  LayoutInv'
<1> USE DEF LayoutInv
<1>1. /\ pc = "size" /\ UNCHANGED <<i, table>> /\ table = <<>> /\ maxSize # 0
      /\ validated' = IF pc' = "accepted" /\ validated = <<>>
                      THEN <<[parts |-> partitions', size |-> maxSize']>>
                      ELSE validated
  BY DEF VerifyMaxSize, CreateInv, LoopInv
<1>2. /\ partitions' \in Seq(Partition) /\ Count' = Count
      /\ maxSize' \in DiskSize \cup {Nil}
      /\ pc' \in {"accepted", "rejected"}
      /\ pc' = "accepted" => LayoutDone'
      /\ pc' = "rejected" => validated = <<>>
      /\ validated # <<>> => UNCHANGED <<partitions, maxSize>>
  <2>1. CASE partitions = <<>>
    <3>1. /\ UNCHANGED <<partitions, maxSize>> /\ Count = 0
          /\ pc' = IF maxSize = Nil THEN "rejected" ELSE "accepted"
      BY <2>1 DEF VerifyMaxSize, Count
    <3>2. OrderedUpTo(Count)
      BY <3>1 DEF OrderedUpTo
    <3>3. maxSize # Nil => LayoutDone
      BY <1>1, <3>1, <3>2 DEF LayoutDone, TypeOK
    <3>4. maxSize = Nil => validated = <<>>
      BY DiskSizeFacts DEF AcceptedInv, LayoutDone
    <3> QED
      BY <3>1, <3>3, <3>4, SameLayout DEF TypeOK
  <2>2. CASE partitions # <<>> /\ ~SizeFits
    <3>1. UNCHANGED <<partitions, maxSize>> /\ pc' = "rejected"
      BY <2>2 DEF VerifyMaxSize
    <3>2. Count \in Nat /\ Count > 0 /\ Count \in 1 .. Count
      BY <2>2, Entries, EmptySeq DEF Count, TypeOK
    <3>3. validated = <<>>
      <4> SUFFICES ASSUME validated # <<>> PROVE SizeFits
        BY <2>2
      <4>1. /\ Filled(partitions[Count]) /\ partitions[1].start >= Alignment
            /\ Plus(partitions[Count].end, Alignment) <= maxSize /\ maxSize # Nil
        BY <3>2, DiskSizeFacts DEF AcceptedInv, LayoutDone
      <4> QED
        BY <4>1 DEF SizeFits, RequiredSize, HasEnd, partGetEnd, Filled, Count
    <3> QED
      BY <3>1, <3>3, SameLayout DEF TypeOK
  <2>3. CASE partitions # <<>> /\ SizeFits
    <3>1. Count > 0
      BY <2>3, Entries, EmptySeq DEF Count, TypeOK
    <3>2. /\ pc' = "accepted"
          /\ partitions' = [partitions EXCEPT ![Count] =
                              partFillSizeAndEnd(partitions[Count], LastEnd(partitions[Count]))]
          /\ maxSize' = IF maxSize = Nil
                        THEN Plus(partGetEnd(partitions[Count]), Alignment)
                        ELSE maxSize
      BY <2>3 DEF VerifyMaxSize, Count
    <3>3. /\ partitions' \in Seq(Partition) /\ Count' = Count
          /\ LayoutDone'
          /\ validated # <<>> => UNCHANGED <<partitions, maxSize>>
      BY <1>1, <2>3, <3>1, <3>2, LayoutSizeFits
    <3> QED
      BY <3>2, <3>3 DEF LayoutDone
  <2> QED
    BY <2>1, <2>2, <2>3
<1>3. TypeOK'
  BY <1>1, <1>2 DEF TypeOK
<1>4. LoopInv'
  BY <1>1, <1>2 DEF LoopInv
<1>5. AcceptedInv'
  BY <1>1, <1>2, SameLayout DEF AcceptedInv, Accepted
<1>6. RevalidationStable'
  <2>1. CASE validated = <<>> /\ pc' = "accepted"
    <3>1. /\ validated'[1].parts = partitions'
          /\ validated'[1].size = maxSize'
      BY <1>1, <2>1
    <3> QED
      BY <2>1, <3>1 DEF RevalidationStable
  <2>2. CASE validated = <<>> /\ pc' = "rejected"
    BY <1>1, <2>2 DEF RevalidationStable
  <2>3. CASE validated # <<>>
    BY <1>1, <1>2, <2>3 DEF RevalidationStable
  <2> QED
    BY <1>2, <2>1, <2>2, <2>3
<1>7. CreateInv'
  BY <1>1, <1>2 DEF CreateInv
<1> QED
  BY <1>3, <1>4, <1>5, <1>6, <1>7

\* CreatePartitions changes nothing of the layout, and follows it.
LEMMA LayoutCreate ==
    ASSUME LayoutInv,
           \/ CreatePartitions \/ createSinglePartition \/ createSinglePartitionFails
           \/ PartitionsCreated \/ UNCHANGED vars
    PROVE  LayoutInv'
<1> USE DEF LayoutInv
<1>1. UNCHANGED <<partitions, maxSize, validated>>
  BY DEF CreatePartitions, createSinglePartition, createSinglePartitionFails,
         PartitionsCreated, vars
<1>2. CASE CreatePartitions
  <2>1. pc = "accepted" /\ pc' = "create" /\ i' = 1 /\ table' = table /\ table = <<>>
    BY <1>2 DEF CreatePartitions, CreateInv
  <2>2. TypeOK' /\ LoopInv'
    BY <1>1, <2>1, Entries, SameLayout DEF TypeOK, LoopInv
  <2>3. CreateInv'
    BY <2>1 DEF CreateInv
  <2> QED
    BY <1>1, <2>1, <2>2, <2>3, SameLayout DEF AcceptedInv, Accepted, RevalidationStable
<1>3. CASE createSinglePartition
  <2>1. /\ pc = "create" /\ pc' = pc /\ i <= Count /\ i' = i + 1
        /\ table' = Append(table, ExtentOf(partitions[i]))
    BY <1>3 DEF createSinglePartition, Count
  <2>2. i \in 1 .. Count /\ partitions[i] \in Partition
    BY <2>1, Entries
  <2>3. ExtentOf(partitions[i]) \in Int \X Int
    <3>1. partitions[i].start \in Int /\ partitions[i].end \in Int
      BY <2>2, DiskSizeFacts DEF Partition
    <3>2. maxSize - Alignment \in Int
      BY Entries, DiskSizeFacts
    <3> QED
      BY <3>1, <3>2 DEF ExtentOf
  <2>4. /\ table' \in Seq(Int \X Int) /\ Len(table') = i
        /\ \A j \in 1 .. i - 1 : table'[j] = table[j]
        /\ table'[i] = ExtentOf(partitions[i])
    BY <2>1, <2>3, Entries, AppendProperties DEF TypeOK, CreateInv
  <2>5. TypeOK' /\ LoopInv'
    BY <1>1, <2>1, <2>2, <2>4, Entries, SameLayout DEF TypeOK, LoopInv
  <2>6. \A j \in 1 .. i : table'[j] = ExtentOf(partitions[j])
    BY <2>1, <2>2, <2>4, Entries DEF CreateInv
  <2>7. CreateInv'
    BY <1>1, <2>1, <2>2, <2>4, <2>6, Entries, SameLayout DEF CreateInv
  <2> QED
    BY <1>1, <2>1, <2>5, <2>7, SameLayout DEF AcceptedInv, Accepted, RevalidationStable
<1>4. CASE createSinglePartitionFails \/ PartitionsCreated
  <2>1. pc = "create" /\ pc' \in {"failed", "created"} /\ UNCHANGED <<i, table>>
    BY <1>4 DEF createSinglePartitionFails, PartitionsCreated
  <2> QED
    BY <1>1, <2>1, SameLayout
       DEF TypeOK, LoopInv, CreateInv, AcceptedInv, Accepted, RevalidationStable
<1>5. CASE UNCHANGED vars
  <2>1. UNCHANGED <<partitions, maxSize, pc, i, validated, table>>
    BY <1>5 DEF vars
  <2> QED
    BY <2>1, SameLayout
       DEF TypeOK, LoopInv, CreateInv, AcceptedInv, Accepted, RevalidationStable
<1> QED
  BY <1>2, <1>3, <1>4, <1>5

\* Every step keeps the invariant.
LEMMA LayoutNext == LayoutInv /\ [Next]_vars => LayoutInv'
  BY LayoutLoad, LayoutIsValid, LayoutValidate, LayoutFillStart, LayoutConfirmOrder,
     LayoutVerifyMaxSize, LayoutCreate DEF Next, Done

-----------------------------------------------------------------------------
(* The theorems.                                                           *)

\* The invariant holds in every reachable state.
THEOREM LayoutAlways == Spec => []LayoutInv
  BY LayoutInit, LayoutNext, PTL DEF Spec

\* Whatever the configuration says, every value that Disk.IsValid computes is
\* a DiskSize, and its loops stay within the list.
THEOREM LayoutTypeCorrect == Spec => []TypeOK
<1>1. LayoutInv => TypeOK
  BY DEF LayoutInv
<1> QED
  BY <1>1, LayoutAlways, PTL

\* Disk.IsValid accepts a list of partitions only when it is complete, in order
\* and within the disk.
THEOREM AcceptedInOrder == Spec => []AcceptedLayoutOrdered
<1>1. LayoutInv => AcceptedLayoutOrdered
  <2> SUFFICES ASSUME LayoutInv, Accepted
               PROVE  /\ maxSize # Nil
                      /\ \A k \in 1 .. Count :
                            /\ Nil \notin {partitions[k].start, partitions[k].end}
                            /\ partitions[k].size \in DiskSize
                      /\ \A k \in 1 .. Count - 1 : partitions[k].end <= partitions[k + 1].start
                      /\ Count > 0 => /\ partitions[1].start >= Alignment
                                      /\ \/ partitions[Count].end + Alignment <= maxSize
                                         \/ FooterWraps(Count)
    BY DEF AcceptedLayoutOrdered, Count
  <2>1. LayoutDone /\ TypeOK
    BY DEF LayoutInv, AcceptedInv
  <2>2. Count > 0 => \/ partitions[Count].end + Alignment <= maxSize
                     \/ FooterWraps(Count)
    <3> SUFFICES ASSUME Count > 0, ~FooterWraps(Count)
                 PROVE  partitions[Count].end + Alignment <= maxSize
      OBVIOUS
    <3>1. Count \in 1 .. Count /\ partitions[Count] \in Partition
      BY <2>1, Entries
    <3>2. partitions[Count].end \in DiskSize /\ partitions[Count].end # Modulus - 1
      BY <2>1, <3>1 DEF LayoutDone, Filled, Partition, FooterWraps
    <3> QED
      BY <2>1, <3>2, FooterArithmetic DEF LayoutDone
  <2> QED
    BY <2>1, <2>2, DiskSizeFacts DEF LayoutDone, Started, Filled, OrderedUpTo
<1> QED
  BY <1>1, LayoutAlways, PTL

\* Validating an accepted disk again changes nothing, and rejects it only for
\* one of the two values that the first validation computed itself.
THEOREM SecondValidationStable == Spec => []RevalidationStable
<1>1. LayoutInv => RevalidationStable
  BY DEF LayoutInv
<1> QED
  BY <1>1, LayoutAlways, PTL

\* No partition of an accepted layout is refused for lying over another one or
\* over the GPT footer.
THEOREM AcceptedIsCreatable == Spec => []SfdiskNeverRefuses
<1>1. LayoutInv => SfdiskNeverRefuses
  <2> SUFFICES ASSUME LayoutInv, pc = "create", i <= Count,
                      \A k \in 1 .. Count : Nonempty(partitions[k]), ~FooterWraps(Count)
               PROVE  Fits(partitions[i])
    BY DEF SfdiskNeverRefuses, Count, Nonempty
  <2>0. LayoutDone /\ TypeOK /\ OrderedUpTo(Count)
    BY DEF LayoutInv, AcceptedInv, Accepted, LayoutDone
  <2>1. Count \in Nat /\ i \in 1 .. Count /\ Count \in 1 .. Count /\ Count > 0
    BY <2>0, Entries
  <2>2. \A k \in 1 .. Count : /\ partitions[k].start \in DiskSize /\ partitions[k].end \in DiskSize
                              /\ partitions[k].start \in Nat /\ partitions[k].end \in Nat
                              /\ partitions[k].start < partitions[k].end
    BY <2>0, Entries, DiskSizeFacts DEF LayoutDone, Started, Filled, Partition, Nonempty
  <2>3. \A k \in 1 .. Count : partitions[k].end # 0
    BY <2>2
  <2>4. \A j, k \in 1 .. Count : j < k => partitions[j].end <= partitions[k].start
    BY <2>0, <2>1 DEF OrderedUpTo
  <2>5. \A k \in 1 .. Count : ExtentOf(partitions[k]) = <<partitions[k].start, partitions[k].end>>
    BY <2>3 DEF ExtentOf
  <2>6. partitions[Count].end + 1 <= maxSize /\ maxSize \in Nat
    <3>1. partitions[Count].end # Modulus - 1
      BY <2>1 DEF FooterWraps
    <3>2. Plus(partitions[Count].end, Alignment) = partitions[Count].end + 1
      BY <2>1, <2>2, <3>1, FooterArithmetic, DiskSizeFacts
    <3> QED
      BY <2>0, <2>1, <3>2, DiskSizeFacts DEF LayoutDone
  <2>7. partitions[i].end <= partitions[Count].end
    <3>1. CASE i = Count
      BY <2>1, <2>2, <3>1
    <3>2. CASE i < Count
      BY <2>1, <2>2, <2>4, <3>2
    <3> QED
      BY <2>1, <3>1, <3>2
  <2>8. partitions[i].end <= maxSize - Alignment
    BY <2>1, <2>2, <2>6, <2>7, DiskSizeFacts
  <2>9. \A j \in 1 .. Len(table) : ~Overlaps(ExtentOf(partitions[i]), table[j])
    <3> SUFFICES ASSUME NEW j \in 1 .. Len(table)
                 PROVE  ~Overlaps(ExtentOf(partitions[i]), table[j])
      OBVIOUS
    <3>1. j \in 1 .. Count /\ j < i /\ table[j] = ExtentOf(partitions[j])
      BY <2>1 DEF LayoutInv, CreateInv
    <3>2. partitions[j].end <= partitions[i].start
      BY <2>1, <2>4, <3>1
    <3> QED
      BY <2>1, <2>2, <2>5, <3>1, <3>2 DEF Overlaps
  <2> QED
    BY <2>1, <2>2, <2>3, <2>5, <2>8, <2>9 DEF Fits, Creatable
<1> QED
  BY <1>1, LayoutAlways, PTL

=============================================================================
