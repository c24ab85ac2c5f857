-------------------------------- MODULE Acpi --------------------------------
(***************************************************************************)
(* What the kernel finds in the firmware's tables.  The search for a table   *)
(* (src/kernel/src/iodev/acpi/tables/tables.c), and the walk over the        *)
(* records of the MADT that src/kernel/src/iodev/apic/initialize.c has in    *)
(* three places.  A machine is a record with these fields:                  *)
(*   xsdt     whether there is a table of 64 bit pointers                   *)
(*   tables   the signatures of its tables, in order                        *)
(*   madt     the MADT's records;  behind, what lies in memory behind them  *)
(***************************************************************************)
EXTENDS Integers, Sequences, FiniteSets, SequencesExt

NULL == 0   \* a table is its place in the list, from 1 on

(* The RSDT's entries are 4 bytes long and counted as if they were 8: the    *)
(* kernel sees the first half of them.                                     *)
acpi_entries(m) == IF m.xsdt THEN Len(m.tables) ELSE Len(m.tables) \div 2

acpi_get_table(m, signature, index) ==
    LET Named(n) == {i \in 1 .. n : m.tables[i] = signature}
        found    == {i \in Named(acpi_entries(m)) : Cardinality(Named(i - 1)) = index}
    IN  IF found = {} THEN NULL ELSE CHOOSE i \in found : TRUE

(* Each walk steps on before it looks: the first record is never looked at,  *)
(* and what lies behind the last one is.                                   *)
madt_examined(m) == IF m.madt = <<>> THEN <<>> ELSE Append(Tail(m.madt), m.behind)

Of(records, type) == SelectSeq(records, LAMBDA r : r.type = type)

(* A MADT of which nothing is missed, and nothing is taken for a record that *)
(* is none.                                                                *)
SeenWhole(m) == \A type \in {"ioapic", "iso", "nmi"} :
                   Of(madt_examined(m), type) = Of(m.madt, type)

(* The last override of an IRQ counts. *)
LineOf(isos, irq) ==
    LET mine == SelectSeq(isos, LAMBDA r : r.irq = irq)
    IN  IF mine = <<>> THEN irq ELSE Last(mine).gsi

(* The line an interrupt really comes on, and the one the kernel finds. *)
TrueLine(m, irq)  == LineOf(Of(m.madt, "iso"), irq)
FoundLine(m, irq) == LineOf(Of(madt_examined(m), "iso"), irq)

(* The local APIC's pins that raise NMIs on the boot processor, which is 0.  *)
NmiPins(records) == {r.lint : r \in {x \in Range(Of(records, "nmi")) : x.cpu \in {0, 255}}}
=============================================================================
