----------------------------- MODULE DiskLayout -----------------------------
(***************************************************************************)
(* The partition layout of a disk, from the configuration file to the      *)
(* partition table: Disk.IsValid (imagecustomizerapi/disk.go) checks the    *)
(* list of partitions and fills in the values the user left out, then       *)
(* CreatePartitions (imagegen/diskutils/diskutils.go) creates them one at a *)
(* time with sfdisk.                                                        *)
(*                                                                          *)
(* All sizes are in MiB: parseDiskSize accepts nothing else, and the GPT    *)
(* header and footer are rounded up to one MiB each.  DiskSize is an        *)
(* unsigned integer of fixed width, so its arithmetic is modulo Modulus.    *)
(***************************************************************************)
EXTENDS Integers, Sequences

CONSTANTS
    MaxPartitions,  \* bound on the number of partitions in a configuration
    Written,        \* the partitions a configuration may list
    DiskSizes,      \* the values a configuration may give to maxSize
    Modulus         \* 2^64 / 2^20 in the program

Nil == -1   \* a value that the configuration leaves out
Grow == -2  \* PartitionSizeTypeGrow

DiskSize == 0 .. Modulus - 1

\* DefaultPartitionAlignment, and the rounded-up GPT header and footer.
Alignment == 1

Partition == [start: DiskSize \cup {Nil}, end: DiskSize \cup {Nil},
              size: DiskSize \cup {Nil, Grow}, biosGrub: BOOLEAN,
              filled: BOOLEAN]

\* UnmarshalYAML leaves the unexported field `filled` unset.
ASSUME LayoutAssumption ==
    /\ MaxPartitions \in Nat
    /\ Modulus \in Nat /\ Modulus > 1
    /\ Written \subseteq {p \in Partition : ~p.filled}
    /\ DiskSizes \subseteq DiskSize

VARIABLES
    partitions,  \* Disk.Partitions
    maxSize,     \* Disk.MaxSize
    pc,          \* the loop or check that is running, or its outcome
    i,           \* the index of that loop
    validated,   \* the disk as IsValid first accepted it, or <<>>
    table        \* the partitions on the disk: <<first, past the last>>

vars == <<partitions, maxSize, pc, i, validated, table>>

Plus(a, b) == (a + b) % Modulus

\* As if DiskSize were a signed type.
MinusSigned(a, b) == a - b

Minus(a, b) == (a - b) % Modulus

Init ==
    /\ partitions = <<>>
    /\ maxSize \in DiskSizes \cup {Nil}
    /\ pc = "load"
    /\ i = 1
    /\ validated = <<>>
    /\ table = <<>>

-----------------------------------------------------------------------------
(* Reading the configuration.                                              *)

\* Partition.IsValid.  A value of zero or less is zero for an unsigned type.
PartitionIsValid(p) ==
    /\ ~(~p.filled /\ p.end # Nil /\ p.size # Nil)
    /\ ~(p.end # Nil /\ p.start # Nil /\ p.start >= p.end)
    /\ p.size # 0

\* One more entry of the list.  Nothing after an entry that Partition.IsValid
\* rejects is ever looked at, so such an entry is the last one loaded.
LoadPartition ==
    /\ pc = "load"
    /\ Len(partitions) < MaxPartitions
    /\ \A j \in 1 .. Len(partitions) : PartitionIsValid(partitions[j])
    /\ \E p \in Written : partitions' = Append(partitions, p)
    /\ UNCHANGED <<maxSize, pc, i, validated, table>>

\* The list is complete: IsValid starts and checks MaxSize.
IsValid ==
    /\ pc \in {"load", "accepted"}
    /\ pc' = IF maxSize = 0 THEN "rejected" ELSE "partitions"
    /\ i' = 1
    /\ UNCHANGED <<partitions, maxSize, validated, table>>

ValidatePartition ==
    /\ pc = "partitions"
    /\ IF i > Len(partitions)
       THEN pc' = "starts" /\ i' = 1
       ELSE IF PartitionIsValid(partitions[i])
            THEN i' = i + 1 /\ UNCHANGED pc
            ELSE pc' = "rejected" /\ UNCHANGED i
    /\ UNCHANGED <<partitions, maxSize, validated, table>>

-----------------------------------------------------------------------------
(* Disk.IsValid: the start values, the order and the size of the disk.      *)

HasEnd(p) == p.end # Nil \/ p.size \notin {Nil, Grow}

partGetEnd(p) == IF p.end # Nil THEN p.end ELSE Plus(p.start, p.size)

\* As if `filled` were never set.
partFillSizeAndEndUnmarked(p, end) ==
    [p EXCEPT !.end = IF @ = Nil THEN end ELSE @,
              !.size = IF @ \in {Nil, Grow} THEN Minus(end, p.start) ELSE @]

partFillSizeAndEnd(p, end) ==
    [p EXCEPT !.end = IF @ = Nil THEN end ELSE @,
              !.size = IF @ \in {Nil, Grow} THEN Minus(end, p.start) ELSE @,
              !.filled = TRUE]

\* The start value a partition gets: its own, 1 MiB for the first one, the end
\* of the previous one (already filled in) for the others.
StartOf(k) ==
    IF partitions[k].start # Nil THEN partitions[k].start
    ELSE IF k = 1 THEN Alignment ELSE partGetEnd(partitions[k - 1])

StartKnown(k) ==
    partitions[k].start # Nil \/ k = 1 \/ HasEnd(partitions[k - 1])

FillStart ==
    /\ pc = "starts"
    /\ IF i > Len(partitions)
       THEN /\ pc' = "order" /\ i' = 1
            /\ UNCHANGED partitions
       ELSE IF ~StartKnown(i)
       THEN /\ pc' = "rejected"
            /\ UNCHANGED <<partitions, i>>
       ELSE /\ partitions' = [partitions EXCEPT ![i].start = StartOf(i)]
            /\ IF partitions[i].biosGrub /\ StartOf(i) # 1
               THEN pc' = "rejected" /\ UNCHANGED i
               ELSE i' = i + 1 /\ UNCHANGED pc
    /\ UNCHANGED <<maxSize, validated, table>>

\* As if only the start values were compared.
InOrderAnyway(a, b) == a.start <= b.start

\* Two neighbours are in order when the first ends where, or before, the
\* second starts.
InOrder(a, b) == partGetEnd(a) <= b.start

ConfirmOrder ==
    /\ pc = "order"
    /\ IF i >= Len(partitions)
       THEN /\ pc' = "size"
            /\ UNCHANGED <<partitions, i>>
       ELSE IF HasEnd(partitions[i]) /\ InOrder(partitions[i], partitions[i + 1])
       THEN /\ partitions' = [partitions EXCEPT ![i] =
                                partFillSizeAndEnd(@, partGetEnd(@))]
            /\ i' = i + 1
            /\ UNCHANGED pc
       ELSE /\ pc' = "rejected"
            /\ UNCHANGED <<partitions, i>>
    /\ UNCHANGED <<maxSize, validated, table>>

\* As if the GPT footer were forgotten.
RequiredSizeNoFooter(last) ==
    IF HasEnd(last) THEN partGetEnd(last) ELSE Plus(last.start, Alignment)

\* What the layout needs, GPT footer included; a last partition that grows
\* needs one unit of alignment.
RequiredSize(last) ==
    Plus(IF HasEnd(last) THEN partGetEnd(last) ELSE Plus(last.start, Alignment),
         Alignment)

\* The end of the last partition, once the size of the disk is known.
LastEnd(last) ==
    IF HasEnd(last) THEN partGetEnd(last) ELSE Minus(maxSize, Alignment)

SizeFits ==
    LET last == partitions[Len(partitions)] IN
    /\ partitions[1].start >= Alignment
    /\ IF maxSize = Nil THEN HasEnd(last) ELSE RequiredSize(last) <= maxSize

\* The last part of IsValid, and its successful return.
VerifyMaxSize ==
    /\ pc = "size"
    /\ IF partitions = <<>>
       THEN /\ pc' = IF maxSize = Nil THEN "rejected" ELSE "accepted"
            /\ UNCHANGED <<partitions, maxSize>>
       ELSE IF ~SizeFits
       THEN /\ pc' = "rejected"
            /\ UNCHANGED <<partitions, maxSize>>
       ELSE LET n == Len(partitions) IN
            /\ pc' = "accepted"
            /\ partitions' = [partitions EXCEPT ![n] =
                                partFillSizeAndEnd(@, LastEnd(@))]
            /\ maxSize' = IF maxSize = Nil
                          THEN Plus(partGetEnd(partitions[n]), Alignment)
                          ELSE maxSize
    /\ validated' = IF pc' = "accepted" /\ validated = <<>>
                    THEN <<[parts |-> partitions', size |-> maxSize']>>
                    ELSE validated
    /\ UNCHANGED <<i, table>>

-----------------------------------------------------------------------------
(* CreatePartitions.  sfdisk --append refuses a partition that overlaps     *)
(* another or the footer; without a size it takes all the space that is     *)
(* left up to the next partition.                                           *)

CreatePartitions ==
    /\ pc = "accepted"
    /\ pc' = "create"
    /\ i' = 1
    /\ UNCHANGED <<partitions, maxSize, validated, table>>

Overlaps(a, b) == a[1] < b[2] /\ b[1] < a[2]

\* The guard of createSinglePartition; an end of 0 means "no end".
Creatable(p) == ~(p.end # 0 /\ p.start >= p.end)

\* The sectors handed to sfdisk: an end of 0 leaves the size out.
ExtentOf(p) == <<p.start, IF p.end = 0 THEN maxSize - Alignment ELSE p.end>>

\* createSinglePartition and sfdisk accept the partition.
Fits(p) ==
    LET extent == ExtentOf(p) IN
    /\ Creatable(p)
    /\ extent[1] < extent[2]
    /\ extent[2] <= maxSize - Alignment
    /\ \A j \in 1 .. Len(table) : ~Overlaps(extent, table[j])

createSinglePartition ==
    /\ pc = "create"
    /\ i <= Len(partitions)
    /\ Fits(partitions[i])
    /\ table' = Append(table, ExtentOf(partitions[i]))
    /\ i' = i + 1
    /\ UNCHANGED <<partitions, maxSize, pc, validated>>

\* The guard, sfdisk, the wait for the device node or mkfs fails.
createSinglePartitionFails ==
    /\ pc = "create"
    /\ i <= Len(partitions)
    /\ pc' = "failed"
    /\ UNCHANGED <<partitions, maxSize, i, validated, table>>

PartitionsCreated ==
    /\ pc = "create"
    /\ i > Len(partitions)
    /\ pc' = "created"
    /\ UNCHANGED <<partitions, maxSize, i, validated, table>>

Done ==
    /\ pc \in {"rejected", "created", "failed"}
    /\ UNCHANGED vars

Next ==
    \/ LoadPartition \/ IsValid \/ ValidatePartition
    \/ FillStart \/ ConfirmOrder \/ VerifyMaxSize
    \/ CreatePartitions \/ createSinglePartition
    \/ createSinglePartitionFails \/ PartitionsCreated
    \/ Done

Spec == Init /\ [][Next]_vars

-----------------------------------------------------------------------------
(* Properties.                                                             *)

Accepted == pc \in {"accepted", "create", "created", "failed"}

\* Partition k ends at the largest value of a DiskSize.
FooterWraps(k) == k > 0 /\ partitions[k].end = Modulus - 1

\* Type correctness: every value that Disk.IsValid computes is a DiskSize.
TypeOK ==
    /\ partitions \in Seq(Partition)
    /\ maxSize \in DiskSize \cup {Nil}
    /\ pc \in {"load", "partitions", "starts", "order", "size", "accepted",
               "rejected", "create", "created", "failed"}
    /\ i \in 1 .. MaxPartitions + 1
    /\ table \in Seq(Int \X Int)

\* When Disk.IsValid returns without an error, every partition has its start,
\* its end and its size (diskConfigToImager dereferences the pointers), each
\* one ends where or before the next one starts, the first one leaves the GPT
\* header free and the last one the footer, unless it ends at the last value of
\* a DiskSize, to which the footer cannot be added without wrapping around.
AcceptedLayoutOrdered ==
    Accepted =>
        LET n == Len(partitions) IN
        /\ maxSize # Nil
        /\ \A k \in 1 .. n : /\ Nil \notin {partitions[k].start, partitions[k].end}
                             /\ partitions[k].size \in DiskSize
        /\ \A k \in 1 .. n - 1 : partitions[k].end <= partitions[k + 1].start
        /\ n > 0 => /\ partitions[1].start >= Alignment
                    /\ \/ partitions[n].end + Alignment <= maxSize
                       \/ FooterWraps(n)

\* Calling Disk.IsValid on a disk that it has already filled in changes
\* nothing, and it may only be rejected the second time when a start value it
\* filled in itself lies at or behind the end of that partition, or when the
\* disk size it filled in itself has wrapped around to zero.
RevalidationStable ==
    validated # <<>> =>
        /\ partitions = validated[1].parts
        /\ maxSize = validated[1].size
        /\ pc = "rejected" =>
               \/ \E k \in 1 .. Len(partitions) :
                      partitions[k].start >= partitions[k].end
               \/ maxSize = 0 /\ FooterWraps(Len(partitions))

\* Validation is strong enough: when every partition of an accepted layout
\* starts before it ends and the footer behind the last one is within the range
\* of a DiskSize, CreatePartitions meets none that lies over an earlier one or
\* over the footer, so neither createSinglePartition nor sfdisk has a reason to
\* refuse one, after the disk has been wiped.
SfdiskNeverRefuses ==
    /\ pc = "create"
    /\ i <= Len(partitions)
    /\ \A k \in 1 .. Len(partitions) : partitions[k].start < partitions[k].end
    /\ ~FooterWraps(Len(partitions))
    => Fits(partitions[i])

\* What Partition.IsValid says of a partition, "size can't be 0 or negative",
\* holds of every partition of a disk that Disk.IsValid accepts.
AcceptedSizesPositive ==
    Accepted => \A k \in 1 .. Len(partitions) :
                    partitions[k].start < partitions[k].end
=============================================================================
