------------------------------- MODULE MCBoot -------------------------------
(* Machines that differ in what the kernel asks of them, and the codes of    *)
(* ps2_translate_keycode, all of them.                                      *)
EXTENDS Boot

TablePlain ==
    {\h01, \h03, \h04, \h05, \h06, \h07, \h09, \h0A, \h0B, \h0C, \h0D, \h0E, \h11, \h12,
     \h14, \h15, \h16, \h1A, \h1B, \h1C, \h1D, \h1E, \h21, \h22, \h23, \h24, \h25, \h26,
     \h29, \h2A, \h2B, \h2C, \h2D, \h2E, \h31, \h32, \h33, \h34, \h35, \h36, \h3A, \h3B,
     \h3C, \h3D, \h3E, \h41, \h42, \h43, \h44, \h45, \h46, \h49, \h4A, \h4B, \h4C, \h4D,
     \h4E, \h52, \h54, \h55, \h58, \h59, \h5A, \h5B, \h5D, \h66, \h69, \h6B, \h6C, \h70,
     \h71, \h72, \h73, \h74, \h75, \h76, \h77, \h78, \h79, \h7A, \h7B, \h7C, \h7D, \h7E,
     \h83}

TableExtended ==
    {\h10, \h11, \h14, \h15, \h18, \h1F, \h20, \h21, \h23, \h27, \h28, \h2B, \h2F, \h30,
     \h32, \h34, \h37, \h38, \h3A, \h3B, \h3F, \h40, \h48, \h4A, \h4D, \h50, \h5A, \h5E,
     \h69, \h6B, \h6C, \h70, \h71, \h72, \h74, \h75, \h7A, \h7D}

Cpu           == [type |-> "other"]
IoApic(n)     == [type |-> "ioapic", id |-> n]
Iso(i, l)     == [type |-> "iso", irq |-> i, gsi |-> l]
Nmi(c, l)     == [type |-> "nmi", cpu |-> c, lint |-> l]
Fn(b, d, f, c) == [bus |-> b, device |-> d, function |-> f, class |-> c]

(* Two buses that are visited and the last, which is not; a function behind  *)
(* an absent one, a device without its function 0, and a bus without device  *)
(* 0.                                                                      *)
Bridge == Fn(0, 0, 0, "bridge")
Disk   == Fn(0, 1, 1, "ahci")
Few    == <<[start |-> 0, end |-> 2, functions |->
              {Bridge, Fn(0, 1, 0, "bridge"), Disk, Fn(1, 0, 0, "bridge"), Fn(1, 1, 1, "lan"),
               Fn(2, 0, 0, "lan")}],
            [start |-> 3, end |-> 5, functions |->
              {Fn(3, 1, 0, "lan"), Fn(4, 0, 0, "lan"), Fn(4, 1, 0, "lan")}]>>

NoDrives == [p \in Ports |-> "none"]

PC == [xsdt |-> TRUE, tables |-> <<"FACP", "APIC", "MCFG">>,
       madt |-> <<Cpu, IoApic(0), Iso(PIT_IRQ_LINE, 2), Nmi(255, 1), Nmi(1, 0)>>, behind |-> Cpu,
       segments |-> Few, drives |-> NoDrives, abar |-> TRUE,
       com |-> TRUE, keyboard |-> TRUE, kernel_reads |-> FALSE]

Quiet == [PC EXCEPT !.com = FALSE, !.keyboard = FALSE]

MCMachines ==
    {PC,
     [PC EXCEPT !.com = FALSE],
     [Quiet EXCEPT !.madt = <<Cpu, IoApic(0)>>],
     \* of three tables the RSDT shows one
     [PC EXCEPT !.xsdt = FALSE],
     [PC EXCEPT !.xsdt = FALSE, !.keyboard = FALSE, !.tables = <<"APIC", "FACP", "MCFG">>],
     \* records in front of the walk and behind it
     [PC EXCEPT !.madt = <<Iso(PIT_IRQ_LINE, 2), Cpu, IoApic(0)>>],
     [PC EXCEPT !.madt = <<Iso(SERIAL_COM1_IRQ, 3), IoApic(0), Iso(PIT_IRQ_LINE, 2)>>],
     [PC EXCEPT !.behind = Iso(PS2_KBD_IRQ_LINE, 3), !.keyboard = FALSE],
     \* other I/O APICs, and overrides of the devices
     [Quiet EXCEPT !.madt = <<Cpu, IoApic(2), Iso(PIT_IRQ_LINE, 2)>>],
     [Quiet EXCEPT !.madt = <<Cpu, IoApic(2)>>],
     [Quiet EXCEPT !.madt = <<Cpu, IoApic(1), IoApic(0), Iso(PS2_KBD_IRQ_LINE, 3), Nmi(0, 0)>>],
     [Quiet EXCEPT !.madt = <<Cpu, IoApic(0), IoApic(1), IoApic(2)>>],
     [PC EXCEPT !.keyboard = FALSE,
                !.madt = <<Cpu, IoApic(0), Iso(SERIAL_COM1_IRQ, 3), Iso(PIT_IRQ_LINE, 2)>>],
     [PC EXCEPT !.keyboard = FALSE,
                !.madt = <<Cpu, IoApic(0), Iso(SERIAL_COM1_IRQ, 0), Iso(PIT_IRQ_LINE, 2)>>],
     \* no controller, one without registers, drives
     [PC EXCEPT !.keyboard = FALSE, !.segments = <<[start |-> 0, end |-> 1, functions |-> {Bridge}]>>],
     [PC EXCEPT !.keyboard = FALSE, !.abar = FALSE],
     [PC EXCEPT !.keyboard = FALSE, !.drives = [NoDrives EXCEPT ![1] = "SATA"]],
     [PC EXCEPT !.keyboard = FALSE, !.drives = [NoDrives EXCEPT ![0] = "SEMB"]],
     [PC EXCEPT !.keyboard = FALSE, !.kernel_reads = TRUE, !.abar = FALSE],
     [PC EXCEPT !.keyboard = FALSE, !.kernel_reads = TRUE, !.drives = [p \in Ports |-> "SATA"]],
     [Quiet EXCEPT !.kernel_reads = TRUE, !.drives = [p \in Ports |-> IF p = 0 THEN "SATA" ELSE "SATAPI"]]}

MCLines == 0 .. 4
MCPorts == 0 .. 1
=============================================================================
