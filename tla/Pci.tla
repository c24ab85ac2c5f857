-------------------------------- MODULE Pci --------------------------------
(***************************************************************************)
(* The list of PCI functions, src/kernel/src/iodev/pci/: pci_conf_load_cache *)
(* visits every bus, device and function that the MCFG names, the accesses   *)
(* to configuration space look an address up in the list, and find_device    *)
(* looks a class up.                                                       *)
(*                                                                         *)
(* The load runs with interrupts enabled, and the serial console's commands  *)
(* read the list in an interrupt: what they find is an operator here, what   *)
(* becomes of the machine is in Boot.  A segment of a machine is a record    *)
(* [start, end, functions]; a function is [bus, device, function, class].    *)
(***************************************************************************)
EXTENDS Integers, Sequences, FiniteSets

CONSTANTS
    DEVICES,     \* of a bus; 32 in the code
    FUNCTIONS    \* of a device; 8 in the code

PciAssumption == DEVICES \in Nat \ {0} /\ FUNCTIONS \in Nat \ {0}
ASSUME PciAssumption

VARIABLES
    segments,        \* what the MCFG says, and what is on the buses
    at,              \* where the load is: [seg, bus, device, function]
    loading,         \* "no", "look", "fill"
    entries,         \* pci_function_cache_entries
    cache,           \* pci_function_cache, as far as it is filled in
    cached           \* whether a load has ended

pci_vars == <<segments, at, loading, entries, cache, cached>>

PciInit ==
    /\ at = [seg |-> 0, bus |-> 0, device |-> 0, function |-> 0]
    /\ loading = "no"
    /\ entries = 0 /\ cache = <<>> /\ cached = FALSE

-----------------------------------------------------------------------------
Present(p) == {f \in segments[p.seg + 1].functions :
                 f.bus = p.bus /\ f.device = p.device /\ f.function = p.function}

\* Mutant: the last bus is visited too.
bus_follows_last(p) == p.bus + 1 <= segments[p.seg + 1].end

(* The loop over the buses ends before end_bus. *)
bus_follows(p) == p.bus + 1 < segments[p.seg + 1].end

(* Where the loops go on: from function, device, bus and segment.            *)
FirstBus(seg) ==
    LET left == {s \in seg + 1 .. Len(segments) : segments[s].start < segments[s].end}
    IN  IF left = {} THEN {}
        ELSE LET s == CHOOSE s \in left : \A t \in left : s <= t
             IN  {[seg |-> s - 1, bus |-> segments[s].start, device |-> 0, function |-> 0]}

NextBus(p) ==
    IF bus_follows(p) THEN {[p EXCEPT !.bus = @ + 1, !.device = 0, !.function = 0]}
    ELSE FirstBus(p.seg + 1)

NextDevice(p) ==
    IF p.device + 1 < DEVICES THEN {[p EXCEPT !.device = @ + 1, !.function = 0]}
    ELSE NextBus(p)

NextFunction(p) ==
    IF p.function + 1 < FUNCTIONS THEN {[p EXCEPT !.function = @ + 1]} ELSE NextDevice(p)

(* The load goes on at a place, or has ended.                                *)
load_at(places) ==
    IF places = {} THEN loading' = "no" /\ cached' = TRUE /\ UNCHANGED at
    ELSE at' \in places /\ loading' = "look" /\ UNCHANGED cached

(* No MCFG: nothing is loaded, and it does not count as loaded.              *)
load_cache_begins(found) ==
    /\ loading = "no"
    /\ IF found THEN load_at(FirstBus(0)) ELSE UNCHANGED <<at, loading, cached>>
    /\ UNCHANGED <<segments, entries, cache>>

(* A bus or a device whose first function is absent is passed by.            *)
load_cache_skips ==
    /\ loading = "look"
    /\ Present(at) = {}
    /\ load_at(IF at.function > 0 THEN NextFunction(at)
               ELSE IF at.device > 0 THEN NextDevice(at) ELSE NextBus(at))
    /\ UNCHANGED <<segments, entries, cache>>

(* The function is counted before there is room for it. *)
load_cache_counts ==
    /\ loading = "look"
    /\ Present(at) # {}
    /\ entries' = entries + 1
    /\ loading' = "fill"
    /\ UNCHANGED <<segments, at, cache, cached>>

load_cache_fills ==
    /\ loading = "fill"
    /\ cache' = Append(cache, at)
    /\ load_at(NextFunction(at))
    /\ UNCHANGED <<segments, entries>>

pci_conf_load_cache == load_cache_skips \/ load_cache_counts \/ load_cache_fills

-----------------------------------------------------------------------------
ClassOf(p) == {f.class : f \in Present(p)}

(* The first function of that class, or nothing. *)
find_device(class) ==
    LET found == {i \in DOMAIN cache : class \in ClassOf(cache[i])}
    IN  {cache[i] : i \in {j \in found : \A k \in found : j <= k}}

(* A write goes to every entry with that address, a read to the first.       *)
(* Nothing in the kernel calls them yet.                                    *)
pci_conf_write_targets(p) == {i \in DOMAIN cache : cache[i] = p}
pci_conf_read_target(p) ==
    {i \in pci_conf_write_targets(p) : \A k \in pci_conf_write_targets(p) : i <= k}

-----------------------------------------------------------------------------
(* What a load should find: the functions that are there, on the buses       *)
(* before the last of each segment.  Devices begin with their function 0,    *)
(* and a bus whose device 0 is absent is taken for empty.                   *)
OnTheBuses ==
    {p \in UNION {{[seg |-> s - 1, bus |-> f.bus, device |-> f.device, function |-> f.function] :
                     f \in segments[s].functions} : s \in DOMAIN segments} :
       /\ p.bus >= segments[p.seg + 1].start /\ p.bus < segments[p.seg + 1].end
       /\ Present([p EXCEPT !.function = 0]) # {}
       /\ Present([p EXCEPT !.device = 0, !.function = 0]) # {}}

(* When a load has ended, every function is in the list once, so that an     *)
(* access to configuration space reads where it wrote; and while it runs     *)
(* nothing is in it that is not there.                                     *)
CacheIsTheBus ==
    /\ \A i, j \in DOMAIN cache : i # j => cache[i] # cache[j]
    /\ {cache[i] : i \in DOMAIN cache} \subseteq OnTheBuses
    /\ entries \in {Len(cache), Len(cache) + 1}
    /\ cached => /\ {cache[i] : i \in DOMAIN cache} = OnTheBuses
                 /\ entries = Len(cache)
                 /\ \A p \in OnTheBuses : pci_conf_read_target(p) = pci_conf_write_targets(p)
=============================================================================
