----------------------------- MODULE Interrupts -----------------------------
(***************************************************************************)
(* How the kernel wires interrupts at boot: the vectors of the IDT           *)
(* (src/kernel/src/cpu/interrupts/idt.c), the old controllers that must be   *)
(* silenced (iodev/8259/pic.c), the local APIC and the I/O APIC              *)
(* (iodev/apic/), the serial port's and the keyboard's lines, and the timer, *)
(* which is measured against ticks of the PIT (iodev/timer/).                *)
(*                                                                         *)
(* Interrupts are enabled from limine.s:21 on.  An interrupt to a vector     *)
(* with no handler ends in the exception handler, which never returns.       *)
(*                                                                         *)
(* Polarity and trigger mode are left out: every line is an edge.  So is     *)
(* what the timer measures; what counts here is that the wait ends.          *)
(***************************************************************************)
EXTENDS Acpi

CONSTANTS
    Lines,                    \* of the I/O APIC; IRQs have the same numbers
    IDT_MAX_DESCRIPTORS,
    IDT_CPU_EXCEPTION_COUNT,
    DEADLINE                  \* interrupts of the PIT the timer is measured by

PIT_IRQ_LINE      == 0
PS2_KBD_IRQ_LINE  == 1
SERIAL_COM1_IRQ   == 4
NONE              == -1       \* of gsi_map, vectors in flight

InterruptsAssumption ==
    /\ Lines \subseteq Nat /\ {PIT_IRQ_LINE, PS2_KBD_IRQ_LINE, SERIAL_COM1_IRQ} \subseteq Lines
    /\ IDT_CPU_EXCEPTION_COUNT \in Nat \ {0} /\ IDT_MAX_DESCRIPTORS \in Nat
    /\ IDT_CPU_EXCEPTION_COUNT + 3 <= IDT_MAX_DESCRIPTORS
    /\ DEADLINE \in Nat
ASSUME InterruptsAssumption

VARIABLES
    machine,           \* what the firmware says and what is plugged in
    pc,                \* where the boot is
    died_in,           \* ghost: where it was when the machine stopped
    vectors,           \* the vectors allocated
    routine_handlers,  \* their handlers
    ioapics,           \* ids of the controllers registered, in order
    redirects,         \* the redirection table of the I/O APIC with id 0
    gsi_map,           \* the line of each IRQ
    lvt,               \* the pins of the local APIC set up for NMIs
    ticks,             \* the PIT's, since the wait began
    message            \* a vector on its way from the I/O APIC, or NONE

interrupts_vars == <<machine, pc, died_in, vectors, routine_handlers, ioapics, redirects,
                     gsi_map, lvt, ticks, message>>
tables == <<vectors, routine_handlers, ioapics, redirects, gsi_map, lvt, ticks, message>>

Vector == 0 .. IDT_MAX_DESCRIPTORS - 1

InterruptsInit ==
    /\ pc = "pic" /\ died_in = "nowhere"
    /\ vectors = 0 .. IDT_CPU_EXCEPTION_COUNT - 1     \* idt_assemble
    /\ routine_handlers = [v \in Vector |-> "none"]
    /\ ioapics = <<>>
    /\ redirects = [l \in Lines |-> [vector |-> 0, masked |-> TRUE]]
    /\ gsi_map = [i \in Lines |-> 0]
    /\ lvt = {}
    /\ ticks = 0 /\ message = NONE

Dies == pc' = "dead" /\ died_in' = pc /\ UNCHANGED <<machine, tables>>
GoTo(next) == pc' = next /\ UNCHANGED <<machine, died_in>>

-----------------------------------------------------------------------------
(* The PIC.  Its initialization forgets the masks until they are written     *)
(* back: an old line that rises in between finds no handler.                *)
pic_remap_offsets ==
    /\ pc = "pic"
    /\ GoTo("pic_masks") /\ UNCHANGED tables

OldLineRises == pc = "pic_masks" /\ Dies

pic_disable ==
    /\ pc = "pic_masks"
    /\ GoTo("local_apic") /\ UNCHANGED tables

-----------------------------------------------------------------------------
(* The APICs.  A MADT that was not found is read nevertheless.               *)
configure_local_apic ==
    /\ pc = "local_apic"
    /\ IF acpi_get_table(machine, "APIC", 0) = NULL
       THEN Dies
       ELSE /\ lvt' = NmiPins(madt_examined(machine))
            /\ GoTo("io_apic")
            /\ UNCHANGED <<vectors, routine_handlers, ioapics, redirects, gsi_map, ticks, message>>

\* Mutant: only the first controller is looked at.
Reachable_first(ids) == ids # <<>> /\ ids[1] = 0

(* Every register access looks for the controller with id 0, and the second  *)
(* node's next is never set: a search that passes it goes astray.           *)
Reachable(ids) == \E i \in DOMAIN ids : ids[i] = 0

\* Mutant: an override of an IRQ is entered at its line.
gsi_map_swapped(isos) ==
    [irq \in Lines |->
        LET mine == SelectSeq(isos, LAMBDA r : r.gsi = irq)
        IN  IF mine = <<>> THEN irq ELSE Last(mine).irq]

initialize_gsi_map(isos) == [irq \in Lines |-> LineOf(isos, irq)]

configure_io_apic ==
    LET isos  == Of(madt_examined(machine), "iso")
        found == Of(madt_examined(machine), "ioapic")
        ids   == [i \in DOMAIN found |-> found[i].id]
    IN  /\ pc = "io_apic"
        /\ \/ Len(found) > 2 /\ Dies
           \/ isos # <<>> /\ ~Reachable(ids) /\ Dies
           \/ /\ isos = <<>> \/ Reachable(ids)
              /\ ioapics' = ids
              /\ gsi_map' = initialize_gsi_map(isos)
              /\ redirects' = [l \in Lines |->
                    IF \E i \in DOMAIN isos : isos[i].gsi = l
                    THEN [vector |-> 0, masked |-> TRUE] ELSE redirects[l]]
              /\ GoTo("serial")
              /\ UNCHANGED <<vectors, routine_handlers, lvt, ticks, message>>

-----------------------------------------------------------------------------
(* Vectors and lines.                                                       *)

(* The lowest one that is not in use; with none left it is 0, the exception  *)
(* for a division by zero.                                                 *)
idt_allocate_vector ==
    IF Vector \subseteq vectors THEN 0
    ELSE CHOOSE v \in Vector \ vectors : \A w \in Vector \ vectors : v <= w

Install(handler) ==
    /\ vectors' = vectors \cup {idt_allocate_vector}
    /\ routine_handlers' = [routine_handlers EXCEPT ![idt_allocate_vector] = handler]

apic_io_redirect_irq(line, vector) == [redirects EXCEPT ![line] = [vector |-> vector, masked |-> TRUE]]
apic_io_unmask_irq(line) == [redirects EXCEPT ![line].masked = FALSE]

(* A vector, its handler, and the line of the IRQ redirected to it, masked.  *)
wire_line(irq, handler, next) ==
    IF ~Reachable(ioapics) THEN Dies
    ELSE /\ Install(handler)
         /\ redirects' = apic_io_redirect_irq(gsi_map[irq], idt_allocate_vector)
         /\ GoTo(next)
         /\ UNCHANGED <<ioapics, gsi_map, lvt, ticks, message>>

unmask(irq, next) ==
    /\ redirects' = apic_io_unmask_irq(gsi_map[irq])
    /\ GoTo(next)
    /\ UNCHANGED <<vectors, routine_handlers, ioapics, gsi_map, lvt, ticks, message>>

(* A device raises its line, and the interrupt gets through.                 *)
Heard(irq) == ~redirects[TrueLine(machine, irq)].masked
Handler(irq) == routine_handlers[redirects[TrueLine(machine, irq)].vector]

-----------------------------------------------------------------------------
(* The serial port.  What follows in serial_console_enable is in Console.    *)
serial_select_input_port ==
    /\ pc = "serial"
    /\ IF machine.com THEN wire_line(SERIAL_COM1_IRQ, "serial", "serial_unmask")
       ELSE GoTo("timer") /\ UNCHANGED tables

(* Line 0 is taken for none.                                                *)
serial_set_input_masked ==
    /\ pc = "serial_unmask"
    /\ IF gsi_map[SERIAL_COM1_IRQ] # 0 THEN unmask(SERIAL_COM1_IRQ, "timer")
       ELSE GoTo("timer") /\ UNCHANGED tables

-----------------------------------------------------------------------------
(* The timer.  Its vector is allocated first, then that of the PIT.          *)
local_timer_calibrate ==
    /\ pc = "timer"
    /\ Install("timer")
    /\ GoTo("pit")
    /\ UNCHANGED <<ioapics, redirects, gsi_map, lvt, ticks, message>>

pit_enable == pc = "pit" /\ wire_line(PIT_IRQ_LINE, "pit", "pit_unmask")

pit_unmask == pc = "pit_unmask" /\ unmask(PIT_IRQ_LINE, "deadline")

(* The PIT's line rises for ever.  A message takes its time.                 *)
PitRises ==
    /\ Heard(PIT_IRQ_LINE) /\ message = NONE
    /\ message' = redirects[TrueLine(machine, PIT_IRQ_LINE)].vector
    /\ UNCHANGED <<machine, pc, died_in, vectors, routine_handlers, ioapics, redirects, gsi_map,
                   lvt, ticks>>

\* Mutant: the handler counts nothing.
pit_builtin_handler_idle == ticks' = ticks

(* watching is set while the boot waits. *)
pit_builtin_handler == ticks' = IF pc = "deadline" /\ ticks < DEADLINE THEN ticks + 1 ELSE ticks

Delivered ==
    /\ message # NONE
    /\ pc \notin {"dead", "hung"}
    /\ IF routine_handlers[message] = "none" THEN Dies
       ELSE /\ pit_builtin_handler
            /\ message' = NONE
            /\ UNCHANGED <<machine, pc, died_in, vectors, routine_handlers, ioapics, redirects,
                           gsi_map, lvt>>

pit_deadline_wait ==
    /\ pc = "deadline" /\ ticks >= DEADLINE
    /\ GoTo("pit_off") /\ UNCHANGED tables

pit_disable ==
    /\ pc = "pit_off"
    /\ redirects' = apic_io_redirect_irq(gsi_map[PIT_IRQ_LINE], 0)
    /\ GoTo("pit_free")
    /\ UNCHANGED <<vectors, routine_handlers, ioapics, gsi_map, lvt, ticks, message>>

(* A message may be under way when its vector goes. *)
idt_free_vector ==
    /\ pc = "pit_free"
    /\ \E v \in Vector :
         /\ routine_handlers[v] = "pit"
         /\ vectors' = vectors \ {v}
         /\ routine_handlers' = [routine_handlers EXCEPT ![v] = "none"]
    /\ GoTo("timer_runs")
    /\ UNCHANGED <<ioapics, redirects, gsi_map, lvt, ticks, message>>

(* The timer is armed; by now a message of the PIT has arrived.              *)
local_timer_set_frequency ==
    /\ pc = "timer_runs" /\ message = NONE
    /\ GoTo("pci") /\ UNCHANGED tables

TimerSteps ==
    local_timer_calibrate \/ pit_enable \/ pit_unmask \/ pit_deadline_wait
    \/ pit_disable \/ idt_free_vector \/ local_timer_set_frequency

InterruptSteps ==
    pic_remap_offsets \/ pic_disable \/ configure_local_apic \/ configure_io_apic
    \/ serial_select_input_port \/ serial_set_input_masked \/ TimerSteps
=============================================================================
