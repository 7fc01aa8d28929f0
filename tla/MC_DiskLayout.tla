--------------------------- MODULE MC_DiskLayout ---------------------------
(***************************************************************************)
(* Three partitions that end within the first 5 MiB, on disks of 4 or 5 MiB *)
(* or of no given size, and a width in which both a subtraction and the     *)
(* addition of the footer can wrap around.                                  *)
(***************************************************************************)
EXTENDS DiskLayout

MCEntry(start, end, size, biosGrub) ==
    [start |-> start, end |-> end, size |-> size, biosGrub |-> biosGrub,
     filled |-> FALSE]

MCStarts == {Nil, 0, 1, 2, 3}

MCWritten ==
    {MCEntry(s, e, Nil, FALSE) : s \in MCStarts, e \in {0, 2, 3, 5}}
    \cup {MCEntry(s, Nil, z, FALSE) : s \in MCStarts, z \in {Nil, Grow, 0, 1, 2, 4}}
    \cup {MCEntry(s, Nil, 1, TRUE) : s \in {Nil, 1, 2}}
    \cup {MCEntry(Nil, 3, 2, FALSE)}

MCDiskSizes == {0, 4, 5}
=============================================================================
