-------------------------------- MODULE Boot --------------------------------
(***************************************************************************)
(* The kernel's way up, src/kernel/src/boot/limine/limine.s, from            *)
(* apic_initialize on: interrupts are wired one after the other (module      *)
(* Interrupts) while those that are wired already arrive, the PCI functions  *)
(* are listed (Pci), the shell is loaded, and the keyboard is enabled        *)
(* (Ps2Kbd).  The serial console runs its commands in its interrupt, from    *)
(* the moment its line is unmasked; of these the list of PCI functions and   *)
(* the two disk commands (Ahci) read what the boot is still making.         *)
(*                                                                         *)
(* The whole of a handler is one step, for it runs with interrupts disabled. *)
(* What install_syscalls, elf_load_program and task_create_new do is in the  *)
(* modules Dispatch, Elf and Paging; here it is one step that takes time.   *)
(***************************************************************************)
EXTENDS Interrupts, Pci, Ahci, Ps2Kbd

CONSTANT Machines

(* Each device is on a line of the I/O APIC; the lines the kernel finds for   *)
(* them, right or wrong, are different ones; and a function on a bus has one  *)
(* of the addresses there are.                                             *)
BootAssumption ==
    \A m \in Machines :
        /\ m.com \in BOOLEAN
        /\ \A i, j \in {PIT_IRQ_LINE, PS2_KBD_IRQ_LINE, SERIAL_COM1_IRQ} :
             /\ {TrueLine(m, i), FoundLine(m, i)} \subseteq Lines
             /\ i # j => FoundLine(m, i) # FoundLine(m, j)
        /\ m.segments \in Seq([start : Nat, end : Nat,
                               functions : SUBSET [bus : Nat, device : 0 .. DEVICES - 1,
                                                   function : 0 .. FUNCTIONS - 1, class : STRING]])
ASSUME BootAssumption

VARIABLE hears    \* whether the keyboard can raise its line

boot_vars == <<interrupts_vars, pci_vars, ahci_vars, kbd_vars, hears>>

BootInit ==
    /\ machine \in Machines
    /\ segments = machine.segments
    /\ drives = machine.drives
    /\ InterruptsInit /\ PciInit /\ AhciInit /\ KbdInit
    /\ hears = FALSE

Works == pc \notin {"dead", "hung"}

\* The kernel has the processor, and interrupts get through.
Runs == Works /\ disktest = "no"

-----------------------------------------------------------------------------
Wires == InterruptSteps /\ UNCHANGED <<pci_vars, ahci_vars, kbd_vars, hears>>

pci_load_begins ==
    /\ pc = "pci"
    /\ load_cache_begins(acpi_get_table(machine, "MCFG", 0) # NULL)
    /\ GoTo("pci_load")
    /\ UNCHANGED <<tables, ahci_vars, kbd_vars, hears>>

pci_loads ==
    /\ pc = "pci_load"
    /\ pci_conf_load_cache
    /\ UNCHANGED <<interrupts_vars, ahci_vars, kbd_vars, hears>>

pci_load_ends ==
    /\ pc = "pci_load" /\ loading = "no"
    /\ GoTo("shell")
    /\ UNCHANGED <<tables, pci_vars, ahci_vars, kbd_vars, hears>>

load_shell ==
    /\ pc = "shell"
    /\ GoTo("kbd")
    /\ UNCHANGED <<tables, pci_vars, ahci_vars, kbd_vars, hears>>

ps2_kbd_wire ==
    /\ pc = "kbd"
    /\ wire_line(PS2_KBD_IRQ_LINE, "kbd", "kbd_unmask")
    /\ UNCHANGED <<pci_vars, ahci_vars, kbd_vars, hears>>

(* A byte that waits in the controller has raised the line already, and no   *)
(* other comes until it is read.                                           *)
ps2_kbd_unmask ==
    /\ pc = "kbd_unmask"
    /\ unmask(PS2_KBD_IRQ_LINE, "kbd_clear")
    /\ \/ machine.keyboard /\ hears' \in BOOLEAN /\ MidCode
       \/ ~machine.keyboard /\ UNCHANGED <<hears, kbd_vars>>
    /\ UNCHANGED <<pci_vars, ahci_vars>>

ps2_kbd_init_ends ==
    /\ pc = "kbd_clear"
    /\ ps2_kbd_clear_scan_buffer
    /\ GoTo("up")
    /\ UNCHANGED <<tables, pci_vars, ahci_vars, hears>>

BootSteps ==
    Wires \/ pci_load_begins \/ pci_loads \/ pci_load_ends \/ load_shell
    \/ ps2_kbd_wire \/ ps2_kbd_unmask \/ ps2_kbd_init_ends

-----------------------------------------------------------------------------
(* Interrupts while the boot goes on, and afterwards.                        *)
OldLine == OldLineRises /\ UNCHANGED <<pci_vars, ahci_vars, kbd_vars, hears>>
Tick    == Works /\ PitRises /\ UNCHANGED <<pci_vars, ahci_vars, kbd_vars, hears>>
Ticked  == Runs /\ Delivered /\ UNCHANGED <<pci_vars, ahci_vars, kbd_vars, hears>>

KeyboardSends ==
    /\ Runs /\ hears
    /\ Heard(PS2_KBD_IRQ_LINE) /\ Handler(PS2_KBD_IRQ_LINE) = "kbd"
    /\ Key \/ kbd_ps2_irq_handler
    /\ UNCHANGED <<interrupts_vars, pci_vars, ahci_vars, hears>>

Listens == Runs /\ machine.com /\ Heard(SERIAL_COM1_IRQ) /\ Handler(SERIAL_COM1_IRQ) = "serial"

Stops(how) ==
    /\ pc' = how /\ died_in' = pc
    /\ UNCHANGED <<machine, tables, pci_vars, kbd_vars, hears>>

(* __uartsh_pci_dump of an entry that is counted and not there.              *)
pci_command ==
    /\ Listens
    /\ entries > Len(cache)
    /\ Stops("dead") /\ UNCHANGED ahci_vars

(* __uartsh_disk_dump and __uartsh_disk_info load the driver the first time.  *)
(* find_device returns NULL when there is no controller, and its base is     *)
(* read nevertheless.                                                      *)
disk_command_dies ==
    /\ Listens /\ ~checked
    /\ find_device("ahci") = {}
    /\ Stops("dead") /\ UNCHANGED ahci_vars

disk_command_hangs ==
    /\ Listens /\ machine.abar
    /\ find_device("ahci") # {}
    /\ console_hangs
    /\ console_loads(TRUE)
    /\ Stops("hung")

disk_command ==
    /\ Listens
    /\ find_device("ahci") # {}
    /\ ~machine.abar \/ ~console_hangs
    /\ console_loads(machine.abar)
    /\ UNCHANGED <<interrupts_vars, pci_vars, kbd_vars, hears>>

(* disktest when the driver is loaded.  Nothing else runs until it returns.  *)
disktest_command == Listens /\ disktest_begins /\ UNCHANGED <<interrupts_vars, pci_vars, kbd_vars, hears>>

DiskTests == Works /\ DisktestSteps /\ UNCHANGED <<interrupts_vars, pci_vars, kbd_vars, hears>>

(* The kernel calls the driver, on some machines.                            *)
kernel_disk ==
    /\ pc = "up" /\ Runs /\ machine.kernel_reads
    /\ find_device("ahci") # {}
    /\ kernel_loads(machine.abar) \/ restart_port \/ read_begins
    /\ UNCHANGED <<interrupts_vars, pci_vars, kbd_vars, hears>>

DriverSteps == Runs /\ AhciSteps /\ UNCHANGED <<interrupts_vars, pci_vars, kbd_vars, hears>>
Engine(p)   == driver # "unused" /\ EngineFollows(p) /\ UNCHANGED <<interrupts_vars, pci_vars, kbd_vars, hears>>
Drive(p)    == driver # "unused" /\ DriveAnswers(p) /\ UNCHANGED <<interrupts_vars, pci_vars, kbd_vars, hears>>

Commands == pci_command \/ disk_command_dies \/ disk_command_hangs \/ disk_command \/ disktest_command

BootNext ==
    \/ BootSteps \/ OldLine \/ Tick \/ Ticked \/ KeyboardSends \/ Commands
    \/ kernel_disk \/ DriverSteps \/ DiskTests
    \/ \E p \in Ports : Engine(p) \/ Drive(p)

(* The boot has the processor but for interrupts, the PIT ticks, and a       *)
(* message arrives; of the disks, that an engine follows its bits and that a  *)
(* drive answers.  disktest goes on, and the driver does between two of them: *)
(* who wants another has to type it.                                        *)
BootSpec ==
    /\ BootInit /\ [][BootNext]_boot_vars
    /\ WF_boot_vars(BootSteps) /\ WF_boot_vars(Tick) /\ WF_boot_vars(Ticked)
    /\ SF_boot_vars(DriverSteps) /\ WF_boot_vars(DiskTests)
    /\ \A p \in Ports : WF_boot_vars(Engine(p)) /\ WF_boot_vars(Drive(p))

-----------------------------------------------------------------------------
Devices == (IF machine.com THEN {SERIAL_COM1_IRQ} ELSE {})
           \cup (IF pc = "up" THEN {PS2_KBD_IRQ_LINE} ELSE {})
Opened(irq)    == irq = SERIAL_COM1_IRQ => FoundLine(machine, irq) # 0
HandlerOf(irq) == IF irq = SERIAL_COM1_IRQ THEN "serial" ELSE "kbd"

OpenLinesHandled ==
    \A l \in Lines : redirects[l].masked \/ routine_handlers[redirects[l].vector] # "none"

DevicesWired ==
    /\ \A irq \in Devices :
         Heard(irq) /\ Handler(irq) = HandlerOf(irq) <=>
            Opened(irq) /\ FoundLine(machine, irq) = TrueLine(machine, irq)
    /\ {l \in Lines : ~redirects[l].masked} =
         {FoundLine(machine, irq) : irq \in {i \in Devices : Opened(i)}}
    /\ \A v \in Vector : routine_handlers[v] # "none" => v \in vectors \ 0 .. IDT_CPU_EXCEPTION_COUNT - 1
    /\ \E v \in Vector : routine_handlers[v] = "timer"
    /\ SeenWhole(machine) => lvt = NmiPins(machine.madt)

(* Whenever a line is unmasked there is a handler behind its vector.  When    *)
(* the boot is over a device is heard, by the handler that is its own, just   *)
(* if the line the kernel found for it is the one the firmware says it is    *)
(* on, as it always is if the MADT was seen whole, and if it is not COM1 on  *)
(* line 0; no line is open but those found; and if the MADT was seen whole    *)
(* the NMIs are on the pins they belong on.                                 *)
LinesWired ==
    /\ OpenLinesHandled
    /\ pc = "up" => DevicesWired

(* A machine as the kernel expects it. *)
Sound ==
    /\ acpi_get_table(machine, "APIC", 0) # NULL /\ SeenWhole(machine)
    /\ \E i \in DOMAIN Of(machine.madt, "ioapic") : Of(machine.madt, "ioapic")[i].id = 0
    /\ Len(Of(machine.madt, "ioapic")) <= 2
    /\ \E p \in OnTheBuses : "ahci" \in ClassOf(p)
    /\ \A p \in Ports : drives[p] = "none"

(* Such a machine stops only when an old line rises while the PIC is set up,  *)
(* when a tick is under way while the PIT's vector is freed, or by a command  *)
(* that reads the list of PCI functions before it is loaded.                *)
StopsOnlyInWindows ==
    ~Works /\ Sound => \/ died_in \in {"pic_masks", "timer_runs"}
                       \/ machine.com /\ ~cached

(* The boot ends if the MADT is seen whole: the PIT is heard, and the wait   *)
(* for its ticks is over some time.                                        *)
BootEnds == SeenWhole(machine) => <>(pc \in {"up", "dead", "hung"})
=============================================================================
