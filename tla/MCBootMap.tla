----------------------------- MODULE MCBootMap -----------------------------
(* Memory maps over nine pages: cut into up to four parts, each an entry or a *)
(* hole.  The first megabyte is three pages; the IOMMU's block is the last one.  *)
EXTENDS BootMap, FiniteSetsExt

Types == {"USABLE", "RESERVED", "ACPI_NVS", "hole"}
Cuts(n) == {SetToSortSeq(c, <) : c \in kSubset(n + 1, 0 .. 9)}

Parts(c, types) ==
    [k \in DOMAIN types |-> [base |-> c[k], length |-> c[k + 1] - c[k], type |-> types[k]]]
Map(c, types) == SelectSeq(Parts(c, types), LAMBDA e : e.type # "hole")

TwoUsable(types) ==
    \E k \in 1 .. Len(types) - 1 : types[k] = "USABLE" /\ types[k + 1] = "USABLE"

MCFirmwares ==
    UNION {{Map(c, types) : c \in Cuts(n), types \in {t \in [1 .. n -> Types] : ~TwoUsable(t)}}
           : n \in 2 .. 4} \ {<<>>}
MCIommu == {8}
=============================================================================
