----------------------------- MODULE BootProofs -----------------------------
(***************************************************************************)
(* The way up, for every set of machines, buses, ports, lines and vectors:   *)
(* the AHCI driver's ports, the interrupt lines, the list of PCI functions,   *)
(* where the machine stops, and the keyboard's codes.  Each has a part with   *)
(* an argument of its own.                                                 *)
(***************************************************************************)
EXTENDS Boot, TLAPS, WellFoundedInduction, SequenceTheorems

-----------------------------------------------------------------------------
(***************************************************************************)
(* EngineIdleWhileSet of the AHCI driver is not about one step: that a       *)
(* command meets an engine that runs with the driver's list rests on where   *)
(* the driver has been before.  DriverInv says what is known of every port   *)
(* at each place the driver can be.                                         *)
(***************************************************************************)
PortRegisters ==
    [st : BOOLEAN, cr : BOOLEAN, fre : BOOLEAN, fr : BOOLEAN, list : {"firmware", "driver"},
     issued : BOOLEAN, tfes : BOOLEAN, stuck : BOOLEAN, busy : BOOLEAN]

DriverPlaces == {"unused", "probe", "ready", "stop", "start", "busy_wait", "answer"}

DriverTypeOK ==
    /\ hba \in [Ports -> PortRegisters]
    /\ todo \subseteq drive_ports
    /\ drive_ports \subseteq Ports
    /\ tests \subseteq drive_ports
    /\ driver \in DriverPlaces

(* A port whose configuration is over has the driver's list, and its engine  *)
(* was told to run, unless the driver is restarting it just now.            *)
Configured ==
    \A p \in drive_ports \ todo :
        /\ hba[p].list = "driver"
        /\ hba[p].st \/ (driver \in {"stop", "start"} /\ port = p)

DriverInv ==
    /\ DriverTypeOK
    /\ ~checked => driver = "unused" /\ drive_ports = {}
    /\ driver \in {"unused", "probe"} => drive_ports = todo
    /\ driver \in {"stop", "start", "busy_wait", "answer"} => port \in drive_ports
    /\ driver \in {"busy_wait", "answer"} => todo = {}
    /\ driver = "start" => hba[port].list = "driver"
    /\ Configured

Others == <<interrupts_vars, pci_vars, kbd_vars, hears>>

-----------------------------------------------------------------------------
(* At the start nothing is registered. *)
LEMMA DriverInitInv == BootInit => DriverInv
  <1> SUFFICES ASSUME BootInit PROVE DriverInv
    OBVIOUS
  <1>1. PICK running \in [Ports -> BOOLEAN], spins \in [Ports -> BOOLEAN] :
           hba = [p \in Ports |-> PortAtStart(running[p], spins[p])]
    BY DEF BootInit, AhciInit
  <1>2. hba \in [Ports -> PortRegisters]
    BY <1>1 DEF PortAtStart, PortRegisters
  <1>3. todo = {} /\ drive_ports = {} /\ tests = {} /\ driver = "unused"
    BY DEF BootInit, AhciInit
  <1> QED
    BY <1>2, <1>3 DEF DriverInv, DriverTypeOK, Configured, DriverPlaces

(* What leaves the driver alone leaves the invariant alone. *)
LEMMA DriverIdle == DriverInv /\ UNCHANGED ahci_vars => DriverInv'
  BY DEF DriverInv, DriverTypeOK, Configured, ahci_vars

(* What a stop does to the registers, of a port or of none. *)
LEMMA StopRegisters ==
    ASSUME hba \in [Ports -> PortRegisters], NEW p
    PROVE  /\ ahci_drive_command_stop(p) \in [Ports -> PortRegisters]
           /\ \A q \in Ports : /\ ahci_drive_command_stop(p)[q].list = hba[q].list
                               /\ ahci_drive_command_stop(p)[q].issued = hba[q].issued
                               /\ q # p => ahci_drive_command_stop(p)[q] = hba[q]
  <1>1. ASSUME NEW r \in PortRegisters
        PROVE  /\ [[r EXCEPT !.st = FALSE] EXCEPT !.fre = FALSE] \in PortRegisters
               /\ [[r EXCEPT !.st = FALSE] EXCEPT !.fre = FALSE].list = r.list
               /\ [[r EXCEPT !.st = FALSE] EXCEPT !.fre = FALSE].issued = r.issued
    BY DEF PortRegisters
  <1>2. \A q \in Ports : hba[q] \in PortRegisters
    OBVIOUS
  <1>3. ahci_drive_command_stop(p) =
          [q \in Ports |-> IF q = p THEN [[hba[q] EXCEPT !.st = FALSE] EXCEPT !.fre = FALSE] ELSE hba[q]]
    BY DEF ahci_drive_command_stop
  <1> QED BY <1>1, <1>2, <1>3

(* The console's commands load the driver only before the kernel has. *)
LEMMA ConsoleInv == ASSUME DriverInv, NEW abar, console_loads(abar) PROVE DriverInv'
  <1>1. CASE checked
    BY <1>1, DriverIdle DEF console_loads
  <1>2. CASE ~checked
    <2>1. /\ driver = "unused" /\ driver' = driver /\ port' = port /\ checked'
          /\ drive_ports = {} /\ tests = {} /\ tests' = {}
      BY <1>2 DEF console_loads, load_gives_up, command_vars, DriverInv, DriverTypeOK
    <2>2. CASE ~abar
      BY <1>2, <2>1, <2>2 DEF console_loads, load_gives_up, DriverInv, DriverTypeOK, Configured
    <2>3. CASE abar
      <3>1. todo' = drive_ports' /\ drive_ports' \subseteq Ports
        BY <1>2, <2>3 DEF console_loads, ahci_controller_probe_ports
      <3>2. hba' = hba \/ \E p : hba' = ahci_drive_command_stop(p)
        BY <1>2, <2>3 DEF console_loads
      <3>3. hba' \in [Ports -> PortRegisters]
        BY <3>2, StopRegisters DEF DriverInv, DriverTypeOK
      <3> QED
        BY <2>1, <3>1, <3>3 DEF DriverInv, DriverTypeOK, Configured
    <2> QED BY <2>2, <2>3
  <1> QED BY <1>1, <1>2

(* So does the kernel's own load, and its probe registers ports that are     *)
(* still to be configured.                                                 *)
LEMMA KernelLoadInv == ASSUME DriverInv, NEW abar, kernel_loads(abar) PROVE DriverInv'
  <1>1. /\ driver = "unused" /\ driver' \in {"probe", "ready"} /\ checked' /\ drive_ports = todo
        /\ UNCHANGED <<drive_ports, todo, port, hba, tests>>
    BY DEF kernel_loads, command_vars, DriverInv
  <1> QED
    BY <1>1 DEF DriverInv, DriverTypeOK, Configured, DriverPlaces

LEMMA ProbeInv == DriverInv /\ (ahci_controller_register_port \/ probe_ends) => DriverInv'
  <1> SUFFICES ASSUME DriverInv, ahci_controller_register_port \/ probe_ends PROVE DriverInv'
    OBVIOUS
  <1>1. /\ driver = "probe" /\ driver' \in {"probe", "ready"} /\ drive_ports = todo /\ checked
        /\ UNCHANGED <<checked, port, hba, tests>>
    BY DEF ahci_controller_register_port, probe_ends, command_vars, DriverInv
  <1>2. drive_ports' = todo' /\ drive_ports \subseteq drive_ports' /\ drive_ports' \subseteq Ports
    BY <1>1 DEF ahci_controller_register_port, probe_ends, ahci_controller_probe_ports, Lowest,
                DriverInv, DriverTypeOK
  <1> QED
    BY <1>1, <1>2 DEF DriverInv, DriverTypeOK, Configured, DriverPlaces

(* Stop: the port it is at may lose ST, no other. *)
LEMMA StopBeginsInv == ASSUME DriverInv, NEW p \in drive_ports, stop_begins(p) PROVE DriverInv'
  <1>1. p \in Ports /\ hba[p] \in PortRegisters
    BY DEF DriverInv, DriverTypeOK
  <1>2. hba' = [hba EXCEPT ![p] = [hba[p] EXCEPT !.st = FALSE, !.fre = FALSE]]
    BY <1>1 DEF stop_begins, ahci_drive_command_stop, DriverInv, DriverTypeOK
  <1>3. hba' \in [Ports -> PortRegisters]
    BY <1>1, <1>2 DEF DriverInv, DriverTypeOK, PortRegisters
  <1>4. \A q \in Ports : hba'[q].list = hba[q].list /\ (q # p => hba'[q].st = hba[q].st)
    BY <1>1, <1>2 DEF DriverInv, DriverTypeOK, PortRegisters
  <1>5. driver = "ready" /\ driver' = "stop" /\ port' = p
        /\ UNCHANGED <<checked, drive_ports, todo, tests>>
    BY DEF stop_begins, command_vars
  <1> QED
    BY <1>3, <1>4, <1>5 DEF DriverInv, DriverTypeOK, Configured, DriverPlaces

(* Behind the stop a port in configuration gets the driver's list. *)
LEMMA StopEndsInv == DriverInv /\ stop_ends => DriverInv'
  <1> SUFFICES ASSUME DriverInv, stop_ends PROVE DriverInv'
    OBVIOUS
  <1>1. driver = "stop" /\ driver' = "start" /\ UNCHANGED <<checked, drive_ports, todo, port, tests>>
    BY DEF stop_ends, command_vars
  <1>2. port \in Ports /\ hba[port] \in PortRegisters
    BY <1>1 DEF DriverInv, DriverTypeOK
  <1>3. hba' = IF port \in todo THEN [hba EXCEPT ![port] = [hba[port] EXCEPT !.list = "driver"]] ELSE hba
    BY <1>2 DEF stop_ends, Set, DriverInv, DriverTypeOK
  <1>4. hba' \in [Ports -> PortRegisters]
    BY <1>2, <1>3 DEF DriverInv, DriverTypeOK, PortRegisters
  <1>5. \A q \in Ports : hba'[q].st = hba[q].st /\ (hba[q].list = "driver" => hba'[q].list = "driver")
    BY <1>2, <1>3 DEF DriverInv, DriverTypeOK, PortRegisters
  <1>6. hba'[port].list = "driver"
    <2>1. CASE port \in todo
      BY <1>2, <1>3, <2>1 DEF DriverInv, DriverTypeOK, PortRegisters
    <2>2. CASE port \notin todo
      BY <1>1, <1>3, <2>2 DEF DriverInv, Configured
    <2> QED BY <2>1, <2>2
  <1> QED
    BY <1>1, <1>4, <1>5, <1>6 DEF DriverInv, DriverTypeOK, Configured, DriverPlaces

(* The start tells the engine of the port to run. *)
LEMMA StartInv == DriverInv /\ ahci_drive_command_start => DriverInv'
  <1> SUFFICES ASSUME DriverInv, ahci_drive_command_start PROVE DriverInv'
    OBVIOUS
  <1>1. /\ driver = "start" /\ driver' = "ready" /\ todo' = todo \ {port}
        /\ UNCHANGED <<checked, drive_ports, port, tests>>
    BY DEF ahci_drive_command_start, command_vars
  <1>2. port \in Ports /\ hba[port] \in PortRegisters
    BY <1>1 DEF DriverInv, DriverTypeOK
  <1>3. hba' = [hba EXCEPT ![port] = [hba[port] EXCEPT !.fre = TRUE, !.st = TRUE]]
    BY <1>2 DEF ahci_drive_command_start, engine_on, DriverInv, DriverTypeOK
  <1>4. hba' \in [Ports -> PortRegisters]
    BY <1>2, <1>3 DEF DriverInv, DriverTypeOK, PortRegisters
  <1>5. \A q \in Ports : hba'[q].list = hba[q].list /\ (hba'[q].st <=> hba[q].st \/ q = port)
    BY <1>2, <1>3 DEF DriverInv, DriverTypeOK, PortRegisters
  <1> QED
    BY <1>1, <1>4, <1>5 DEF DriverInv, DriverTypeOK, Configured, DriverPlaces

(* A read leaves lists and ST alone. *)
LEMMA ReadInv ==
    DriverInv /\ (read_begins \/ read_gives_up \/ read_issues \/ read_fails \/ read_succeeds)
      => DriverInv'
  <1> SUFFICES ASSUME DriverInv,
                      read_begins \/ read_gives_up \/ read_issues \/ read_fails \/ read_succeeds
               PROVE DriverInv'
    OBVIOUS
  <1>1. CASE read_begins
    <2>1. PICK p \in drive_ports : port' = p /\ hba' = Set(p, "tfes", FALSE)
      BY <1>1 DEF read_begins, clear_status, SataPorts
    <2>2. p \in Ports /\ hba[p] \in PortRegisters
      BY <2>1 DEF DriverInv, DriverTypeOK
    <2>3. hba' = [hba EXCEPT ![p] = [hba[p] EXCEPT !.tfes = FALSE]]
      BY <2>1, <2>2 DEF Set, DriverInv, DriverTypeOK
    <2>4. /\ hba' \in [Ports -> PortRegisters]
          /\ \A q \in Ports : hba'[q].list = hba[q].list /\ hba'[q].st = hba[q].st
      BY <2>2, <2>3 DEF DriverInv, DriverTypeOK, PortRegisters
    <2>5. driver = "ready" /\ todo = {} /\ driver' = "busy_wait"
          /\ UNCHANGED <<checked, drive_ports, todo, tests>>
      BY <1>1 DEF read_begins, command_vars
    <2> QED
      BY <2>1, <2>4, <2>5 DEF DriverInv, DriverTypeOK, Configured, DriverPlaces
  <1>2. CASE read_issues
    <2>1. driver = "busy_wait" /\ driver' = "answer" /\ UNCHANGED <<checked, drive_ports, todo, port, tests>>
      BY <1>2 DEF read_issues, ReadGoesTo, command_vars
    <2>2. port \in Ports /\ hba[port] \in PortRegisters
      BY <2>1 DEF DriverInv, DriverTypeOK
    <2>3. hba' = [hba EXCEPT ![port] = [hba[port] EXCEPT !.issued = TRUE]]
      BY <1>2, <2>2 DEF read_issues, issue_command, Set, DriverInv, DriverTypeOK
    <2>4. /\ hba' \in [Ports -> PortRegisters]
          /\ \A q \in Ports : hba'[q].list = hba[q].list /\ hba'[q].st = hba[q].st
      BY <2>2, <2>3 DEF DriverInv, DriverTypeOK, PortRegisters
    <2> QED
      BY <2>1, <2>4 DEF DriverInv, DriverTypeOK, Configured, DriverPlaces
  <1>3. CASE read_gives_up \/ read_fails \/ read_succeeds
    <2>1. /\ driver \in {"busy_wait", "answer"} /\ driver' = "ready"
          /\ UNCHANGED <<checked, drive_ports, todo, port, hba, tests>>
      BY <1>3 DEF read_gives_up, read_fails, read_succeeds, ReadGoesTo, command_vars
    <2> QED
      BY <2>1 DEF DriverInv, DriverTypeOK, Configured, DriverPlaces
  <1> QED BY <1>1, <1>2, <1>3

(* Neither does disktest change them, *)
LEMMA DisktestInv == DriverInv /\ (disktest_begins \/ DisktestSteps) => DriverInv'
  <1> SUFFICES ASSUME DriverInv, disktest_begins \/ DisktestSteps PROVE DriverInv'
    OBVIOUS
  <1>1. UNCHANGED <<checked, drive_ports, todo, driver, port>>
    BY DEF disktest_begins, DisktestSteps, test_begins, test_gives_up, test_issues, test_fails, test_succeeds,
           NextTest, TestGoesTo
  <1>2. tests' \subseteq drive_ports
    BY DEF disktest_begins, DisktestSteps, test_begins, test_gives_up, test_issues, test_fails, test_succeeds,
           NextTest, TestGoesTo, SataPorts, DriverInv, DriverTypeOK
  <1>3. \/ hba' = hba
        \/ \E p \in tests : hba' = Set(p, "tfes", FALSE) \/ hba' = Set(p, "issued", TRUE)
    BY DEF disktest_begins, DisktestSteps, test_begins, test_gives_up, test_issues, test_fails, test_succeeds,
           clear_status, issue_command, Lowest
  <1>4. /\ hba' \in [Ports -> PortRegisters]
        /\ \A q \in Ports : hba'[q].list = hba[q].list /\ hba'[q].st = hba[q].st
    <2>1. CASE hba' = hba
      BY <2>1 DEF DriverInv, DriverTypeOK
    <2>2. ASSUME NEW p \in tests, hba' = Set(p, "tfes", FALSE) \/ hba' = Set(p, "issued", TRUE)
          PROVE  /\ hba' \in [Ports -> PortRegisters]
                 /\ \A q \in Ports : hba'[q].list = hba[q].list /\ hba'[q].st = hba[q].st
      <3>1. p \in Ports /\ hba[p] \in PortRegisters
        BY DEF DriverInv, DriverTypeOK
      <3>2. \/ hba' = [hba EXCEPT ![p] = [hba[p] EXCEPT !.tfes = FALSE]]
            \/ hba' = [hba EXCEPT ![p] = [hba[p] EXCEPT !.issued = TRUE]]
        BY <2>2, <3>1 DEF Set, DriverInv, DriverTypeOK
      <3>3. /\ [hba[p] EXCEPT !.tfes = FALSE] \in PortRegisters
            /\ [hba[p] EXCEPT !.issued = TRUE] \in PortRegisters
        BY <3>1 DEF PortRegisters
      <3>4. /\ [hba[p] EXCEPT !.tfes = FALSE].list = hba[p].list
            /\ [hba[p] EXCEPT !.tfes = FALSE].st = hba[p].st
            /\ [hba[p] EXCEPT !.issued = TRUE].list = hba[p].list
            /\ [hba[p] EXCEPT !.issued = TRUE].st = hba[p].st
        BY <3>1 DEF PortRegisters
      <3> QED
        BY <3>1, <3>2, <3>3, <3>4 DEF DriverInv, DriverTypeOK
    <2> QED BY <1>3, <2>1, <2>2
  <1> QED
    BY <1>1, <1>2, <1>4 DEF DriverInv, DriverTypeOK, Configured

(* nor the controller or a drive. *)
LEMMA ControllerInv ==
    ASSUME DriverInv, NEW p \in Ports, EngineFollows(p) \/ DriveAnswers(p)
    PROVE  DriverInv'
  <1>1. hba[p] \in PortRegisters
    BY DEF DriverInv, DriverTypeOK
  <1>2. UNCHANGED <<checked, drive_ports, todo, driver, port, tests>>
    BY DEF EngineFollows, DriveAnswers, Rest, command_vars
  <1>3. \E r \in PortRegisters : r.list = hba[p].list /\ r.st = hba[p].st
                                 /\ hba' = [hba EXCEPT ![p] = r]
    <2>1. CASE EngineFollows(p)
      <3>1. CASE hba' = [hba EXCEPT ![p].cr = hba[p].st, ![p].stuck = FALSE,
                                    ![p].issued = @ /\ hba[p].st]
        <4> DEFINE r == [hba[p] EXCEPT !.cr = hba[p].st, !.stuck = FALSE,
                                       !.issued = hba[p].issued /\ hba[p].st]
        <4>1. r \in PortRegisters /\ r.list = hba[p].list /\ r.st = hba[p].st
          BY <1>1 DEF PortRegisters
        <4>2. hba' = [hba EXCEPT ![p] = r]
          BY <3>1 DEF DriverInv, DriverTypeOK
        <4> QED BY <4>1, <4>2
      <3>2. CASE hba' = Set(p, "fr", hba[p].fre)
        <4> DEFINE r == [hba[p] EXCEPT !.fr = hba[p].fre]
        <4>1. r \in PortRegisters /\ r.list = hba[p].list /\ r.st = hba[p].st
          BY <1>1 DEF PortRegisters
        <4>2. hba' = [hba EXCEPT ![p] = r]
          BY <3>2 DEF Set, DriverInv, DriverTypeOK
        <4> QED BY <4>1, <4>2
      <3> QED BY <2>1, <3>1, <3>2 DEF EngineFollows
    <2>2. CASE DriveAnswers(p)
      <3>1. CASE hba' = Set(p, "busy", FALSE)
        <4> DEFINE r == [hba[p] EXCEPT !.busy = FALSE]
        <4>1. r \in PortRegisters /\ r.list = hba[p].list /\ r.st = hba[p].st
          BY <1>1 DEF PortRegisters
        <4>2. hba' = [hba EXCEPT ![p] = r]
          BY <3>1 DEF Set, DriverInv, DriverTypeOK
        <4> QED BY <4>1, <4>2
      <3>4. CASE hba' = Set(p, "busy", TRUE)
        <4> DEFINE r == [hba[p] EXCEPT !.busy = TRUE]
        <4>1. r \in PortRegisters /\ r.list = hba[p].list /\ r.st = hba[p].st
          BY <1>1 DEF PortRegisters
        <4>2. hba' = [hba EXCEPT ![p] = r]
          BY <3>4 DEF Set, DriverInv, DriverTypeOK
        <4> QED BY <4>1, <4>2
      <3>2. CASE hba' = [hba EXCEPT ![p].issued = FALSE, ![p].busy = FALSE]
        <4> DEFINE r == [hba[p] EXCEPT !.issued = FALSE, !.busy = FALSE]
        <4>1. r \in PortRegisters /\ r.list = hba[p].list /\ r.st = hba[p].st
          BY <1>1 DEF PortRegisters
        <4>2. hba' = [hba EXCEPT ![p] = r]
          BY <3>2 DEF DriverInv, DriverTypeOK
        <4> QED BY <4>1, <4>2
      <3>3. CASE hba' = [hba EXCEPT ![p].tfes = TRUE, ![p].stuck = TRUE, ![p].busy = FALSE]
        <4> DEFINE r == [hba[p] EXCEPT !.tfes = TRUE, !.stuck = TRUE, !.busy = FALSE]
        <4>1. r \in PortRegisters /\ r.list = hba[p].list /\ r.st = hba[p].st
          BY <1>1 DEF PortRegisters
        <4>2. hba' = [hba EXCEPT ![p] = r]
          BY <3>3 DEF DriverInv, DriverTypeOK
        <4> QED BY <4>1, <4>2
      <3> QED BY <2>2, <3>1, <3>2, <3>3, <3>4 DEF DriveAnswers
    <2> QED BY <2>1, <2>2
  <1>4. PICK r \in PortRegisters : r.list = hba[p].list /\ r.st = hba[p].st
                                  /\ hba' = [hba EXCEPT ![p] = r]
    BY <1>3
  <1>5. /\ hba' \in [Ports -> PortRegisters]
        /\ \A q \in Ports : hba'[q].list = hba[q].list /\ hba'[q].st = hba[q].st
    BY <1>4 DEF DriverInv, DriverTypeOK
  <1> QED
    BY <1>2, <1>5 DEF DriverInv, DriverTypeOK, Configured

-----------------------------------------------------------------------------
(* The steps of the boot in which the driver does something. *)
DriverStep ==
    \/ \E abar : console_loads(abar) \/ kernel_loads(abar)
    \/ ahci_controller_register_port \/ probe_ends \/ disktest_begins \/ DisktestSteps
    \/ \E p \in drive_ports : stop_begins(p)
    \/ stop_ends \/ ahci_drive_command_start
    \/ read_begins \/ read_gives_up \/ read_issues \/ read_fails \/ read_succeeds
    \/ \E p \in Ports : EngineFollows(p) \/ DriveAnswers(p)

LEMMA DriverStepInv == DriverInv /\ DriverStep => DriverInv'
  BY ConsoleInv, KernelLoadInv, ProbeInv, StopBeginsInv, StopEndsInv, StartInv, ReadInv, DisktestInv,
     ControllerInv
     DEF DriverStep

(* No other step of the boot touches the driver's state. *)
LEMMA DriverMoves == DriverInv /\ [BootNext]_boot_vars => DriverStep \/ UNCHANGED ahci_vars
  <1> SUFFICES ASSUME DriverInv, BootNext PROVE DriverStep \/ UNCHANGED ahci_vars
    BY DEF boot_vars
  <1>1. CASE BootSteps
    BY <1>1 DEF BootSteps, Wires, pci_load_begins, pci_loads, pci_load_ends, load_shell,
                ps2_kbd_wire, ps2_kbd_unmask, ps2_kbd_init_ends
  <1>2. CASE OldLine \/ Tick \/ Ticked \/ KeyboardSends
    BY <1>2 DEF OldLine, Tick, Ticked, KeyboardSends
  <1>3. CASE Commands
    BY <1>3 DEF Commands, pci_command, disk_command_dies, disk_command_hangs, disk_command,
                disktest_command, DriverStep
  <1>4. CASE kernel_disk
    BY <1>4 DEF kernel_disk, restart_port, DriverStep
  <1>5. CASE DriverSteps
    BY <1>5 DEF DriverSteps, AhciSteps, configure_port, Lowest, DriverStep, DriverInv, DriverTypeOK
  <1>6. CASE \E p \in Ports : Engine(p) \/ Drive(p)
    BY <1>6 DEF Engine, Drive, DriverStep
  <1>7. CASE DiskTests
    BY <1>7 DEF DiskTests, DriverStep
  <1> QED BY <1>1, <1>2, <1>3, <1>4, <1>5, <1>6, <1>7 DEF BootNext

(* What EngineIdleWhileSet says of a step. *)
SetsIdleEngines ==
    \A p \in Ports :
        /\ hba'[p].list # hba[p].list => ~hba[p].cr /\ ~hba[p].fr
        /\ hba'[p].issued /\ ~hba[p].issued => (hba[p].st /\ hba[p].list = "driver") \/ Untimely(p)

(* A step that changes neither lists nor commands. *)
KeepsLists == \A p \in Ports : hba'[p].list = hba[p].list /\ (hba'[p].issued => hba[p].issued)

LEMMA DriverStepIdle == DriverInv /\ DriverStep => SetsIdleEngines
  <1> SUFFICES ASSUME DriverInv, DriverStep PROVE SetsIdleEngines
    OBVIOUS
  <1>0. \A p \in Ports : hba[p] \in PortRegisters
    BY DEF DriverInv, DriverTypeOK
  <1>1. KeepsLists => SetsIdleEngines
    BY DEF KeepsLists, SetsIdleEngines
  <1>2. ASSUME NEW abar, console_loads(abar) PROVE KeepsLists
    <2>1. hba' = hba \/ \E p : hba' = ahci_drive_command_stop(p)
      BY <1>2 DEF console_loads, load_gives_up, ahci_vars
    <2> QED BY <2>1, StopRegisters DEF KeepsLists, DriverInv, DriverTypeOK
  <1>3. ASSUME NEW abar, kernel_loads(abar) PROVE KeepsLists
    BY <1>3 DEF kernel_loads, KeepsLists
  <1>4. ASSUME NEW p \in drive_ports, stop_begins(p) PROVE KeepsLists
    BY <1>4, StopRegisters DEF stop_begins, KeepsLists, DriverInv, DriverTypeOK
  <1>5. CASE stop_ends
    <2>1. ~hba[port].fr /\ ~hba[port].cr
      BY <1>5 DEF stop_ends, engine_off
    <2>2. \A q \in Ports : /\ hba'[q].issued = hba[q].issued
                           /\ q # port => hba'[q].list = hba[q].list
      BY <1>0, <1>5 DEF stop_ends, Set, DriverInv, DriverTypeOK, PortRegisters
    <2> QED BY <2>1, <2>2 DEF SetsIdleEngines
  <1>6. CASE ahci_drive_command_start
    BY <1>0, <1>1, <1>6 DEF ahci_drive_command_start, engine_on, KeepsLists, DriverInv,
                            DriverTypeOK, PortRegisters
  <1>7. CASE read_begins
    <2>1. PICK p \in drive_ports : hba' = Set(p, "tfes", FALSE)
      BY <1>7 DEF read_begins, clear_status, SataPorts
    <2> QED
      BY <1>0, <1>1, <2>1 DEF Set, KeepsLists, DriverInv, DriverTypeOK, PortRegisters
  <1>8. CASE read_issues
    <2>1. driver = "busy_wait" /\ port \in drive_ports \ todo
      BY <1>8 DEF read_issues, DriverInv
    <2>2. hba[port].st /\ hba[port].list = "driver"
      BY <2>1 DEF DriverInv, Configured
    <2>3. \A q \in Ports : /\ hba'[q].list = hba[q].list
                           /\ q # port => hba'[q].issued = hba[q].issued
      BY <1>0, <1>8 DEF read_issues, issue_command, Set, DriverInv, DriverTypeOK, PortRegisters
    <2> QED BY <2>2, <2>3 DEF SetsIdleEngines
  <1>9. CASE read_gives_up \/ read_fails \/ read_succeeds
    BY <1>1, <1>9 DEF read_gives_up, read_fails, read_succeeds, KeepsLists
  <1>10. ASSUME NEW p \in Ports, EngineFollows(p) PROVE KeepsLists
    BY <1>0, <1>10 DEF EngineFollows, Set, KeepsLists, DriverInv, DriverTypeOK, PortRegisters
  <1>11. ASSUME NEW p \in Ports, DriveAnswers(p) PROVE KeepsLists
    BY <1>0, <1>11 DEF DriveAnswers, Set, KeepsLists, DriverInv, DriverTypeOK, PortRegisters
  <1>12. CASE ahci_controller_register_port \/ probe_ends \/ disktest_begins
    BY <1>1, <1>12 DEF ahci_controller_register_port, probe_ends, disktest_begins, KeepsLists
  <1>13. ASSUME NEW p \in tests, test_issues(p) PROVE SetsIdleEngines
    <2>1. p \in drive_ports /\ p \in Ports /\ disktest # "no"
      BY <1>13 DEF test_issues, DriverInv, DriverTypeOK
    <2>2. (hba[p].st /\ hba[p].list = "driver") \/ Untimely(p)
      BY <2>1 DEF DriverInv, Configured, Untimely
    <2>3. \A q \in Ports : /\ hba'[q].list = hba[q].list
                           /\ q # p => hba'[q].issued = hba[q].issued
      BY <1>0, <1>13, <2>1 DEF test_issues, issue_command, Set, DriverInv, DriverTypeOK, PortRegisters
    <2> QED BY <2>2, <2>3 DEF SetsIdleEngines
  <1>14. ASSUME NEW p \in tests, test_begins(p) PROVE KeepsLists
    <2>1. p \in Ports /\ hba' = Set(p, "tfes", FALSE)
      BY <1>14 DEF test_begins, clear_status, DriverInv, DriverTypeOK
    <2> QED
      BY <1>0, <2>1 DEF Set, KeepsLists, DriverInv, DriverTypeOK, PortRegisters
  <1>15. CASE DisktestSteps
    <2>1. PICK p \in tests : test_begins(p) \/ test_gives_up(p) \/ test_issues(p) \/ test_fails(p)
                              \/ test_succeeds(p)
      BY <1>15 DEF DisktestSteps, Lowest
    <2>2. CASE test_gives_up(p) \/ test_fails(p) \/ test_succeeds(p)
      BY <1>1, <2>2 DEF test_gives_up, test_fails, test_succeeds, KeepsLists
    <2> QED BY <1>1, <1>13, <1>14, <2>1, <2>2
  <1> QED
    BY <1>1, <1>2, <1>3, <1>4, <1>5, <1>6, <1>7, <1>8, <1>9, <1>10, <1>11, <1>12, <1>15 DEF DriverStep

-----------------------------------------------------------------------------
(* Wherever the driver is, what it knows of its ports holds: at every boot,  *)
(* with the console's commands and the drives' answers at any moment.        *)
THEOREM DriverKnowsItsPorts == BootSpec => []DriverInv
  <1>1. BootInit => DriverInv
    BY DriverInitInv
  <1>2. DriverInv /\ [BootNext]_boot_vars => DriverInv'
    BY DriverMoves, DriverStepInv, DriverIdle
  <1> QED BY <1>1, <1>2, PTL DEF BootSpec

(* ahci.c sets a port's memory behind the stop and issues behind the start:  *)
(* the memory never changes under an engine of which a half still runs, and   *)
(* no command but one of disktest, while the kernel is at that very port,     *)
(* meets an engine that was not started with the driver's list.             *)
THEOREM EnginesIdleWhileSet == BootSpec => EngineIdleWhileSet
  <1>1. DriverInv /\ [BootNext]_boot_vars => [SetsIdleEngines]_ahci_vars
    BY DriverMoves, DriverStepIdle
  <1> QED
    BY <1>1, DriverKnowsItsPorts, PTL DEF BootSpec, EngineIdleWhileSet, SetsIdleEngines

-----------------------------------------------------------------------------
(***************************************************************************)
(* Every device gets the line and the handler that are its own: LinesWired,  *)
(* for every set of machines that BootAssumption allows, every number of     *)
(* lines, and every IDT with three vectors behind the exceptions.           *)
(*                                                                         *)
(* The argument.  At each place of the boot it is known which vectors are    *)
(* taken and what their handlers are (Wired), on any machine.  A line that   *)
(* is open leads to one of them (Open); the PIT's, which is freed again, is  *)
(* led to by the PIT's line alone, and that is masked by then.  Of each line *)
(* it is known too whether it is open (Found); COM1's is not if it is line 0. *)
(***************************************************************************)
Irqs == {PIT_IRQ_LINE, PS2_KBD_IRQ_LINE, SERIAL_COM1_IRQ}
Base == IDT_CPU_EXCEPTION_COUNT

(* The vectors, in the order they are allocated: the serial port's, if there *)
(* is one, the timer's, the PIT's, and in its place the keyboard's.          *)
SerialVector == Base
TimerVector  == IF machine.com THEN Base + 1 ELSE Base
NextVector   == TimerVector + 1

(* The places of the boot, by what is installed. *)
EarlyPlaces  == {"pic", "pic_masks", "local_apic", "io_apic"}
PitPlaces    == {"pit_unmask", "deadline", "pit_off", "pit_free"}
LatePlaces   == {"timer_runs", "pci", "pci_load", "shell", "kbd"}
KbdPlaces    == {"kbd_unmask", "kbd_clear", "up"}
TimerPlaces  == {"pit"} \cup PitPlaces \cup LatePlaces \cup KbdPlaces
SerialPlaces == {"serial_unmask", "timer"} \cup TimerPlaces
Places       == EarlyPlaces \cup {"serial"} \cup SerialPlaces

VectorsAt(p) ==
    IF p \in EarlyPlaces \cup {"serial"} THEN 0 .. Base - 1
    ELSE IF p = "serial_unmask" THEN 0 .. Base
    ELSE IF p = "timer" THEN 0 .. TimerVector - 1
    ELSE IF p \in {"pit"} \cup LatePlaces THEN 0 .. TimerVector
    ELSE 0 .. NextVector

HandlersAt(p) ==
    [v \in Vector |->
        IF v = SerialVector /\ machine.com /\ p \in SerialPlaces THEN "serial"
        ELSE IF v = TimerVector /\ p \in TimerPlaces THEN "timer"
        ELSE IF v = NextVector /\ p \in PitPlaces THEN "pit"
        ELSE IF v = NextVector /\ p \in KbdPlaces THEN "kbd"
        ELSE "none"]

Redirect == [vector : Vector, masked : BOOLEAN]

Wired ==
    /\ vectors = VectorsAt(pc)
    /\ routine_handlers = HandlersAt(pc)
    /\ pc = "serial_unmask" => machine.com

SerialOpen == /\ machine.com /\ pc \in SerialPlaces \ {"serial_unmask"}
              /\ FoundLine(machine, SERIAL_COM1_IRQ) # 0
PitOpen    == pc \in {"deadline", "pit_off"}
KbdOpen    == pc \in {"kbd_clear", "up"}

(* Where the lines that are open, or about to be, lead. *)
Open ==
    /\ \A l \in Lines : ~redirects[l].masked =>
         \/ SerialOpen /\ redirects[l].vector = SerialVector
         \/ PitOpen /\ redirects[l].vector = NextVector /\ l = gsi_map[PIT_IRQ_LINE]
         \/ KbdOpen /\ redirects[l].vector = NextVector
    /\ pc = "serial_unmask" /\ gsi_map[SERIAL_COM1_IRQ] \in Lines =>
         redirects[gsi_map[SERIAL_COM1_IRQ]].vector = SerialVector
    /\ pc = "pit_unmask" /\ gsi_map[PIT_IRQ_LINE] \in Lines =>
         redirects[gsi_map[PIT_IRQ_LINE]].vector = NextVector
    /\ pc = "kbd_unmask" /\ gsi_map[PS2_KBD_IRQ_LINE] \in Lines =>
         redirects[gsi_map[PS2_KBD_IRQ_LINE]].vector = NextVector

OpenLines ==
    {l \in Lines : \/ SerialOpen /\ l = FoundLine(machine, SERIAL_COM1_IRQ)
                   \/ PitOpen /\ l = FoundLine(machine, PIT_IRQ_LINE)
                   \/ KbdOpen /\ l = FoundLine(machine, PS2_KBD_IRQ_LINE)}

(* What is known of each line, from what the walks over the MADT found; and   *)
(* of the pins, if they saw it whole.                                      *)
Found ==
    /\ pc \notin {"pic", "pic_masks", "local_apic"} /\ SeenWhole(machine) => lvt = NmiPins(machine.madt)
    /\ pc \notin EarlyPlaces => \A irq \in Irqs : gsi_map[irq] = FoundLine(machine, irq)
    /\ \A l \in Lines : ~redirects[l].masked <=> l \in OpenLines
    /\ machine.com /\ pc \in SerialPlaces =>
         redirects[FoundLine(machine, SERIAL_COM1_IRQ)].vector = SerialVector
    /\ pc \in KbdPlaces => redirects[FoundLine(machine, PS2_KBD_IRQ_LINE)].vector = NextVector

LinesInv ==
    /\ machine \in Machines
    /\ pc \in Places \cup {"dead", "hung"}
    /\ redirects \in [Lines -> Redirect]
    /\ OpenLinesHandled
    /\ pc \in Places => Wired /\ Open /\ Found

-----------------------------------------------------------------------------
(* The vectors are there. *)
LEMMA VectorFacts ==
    ASSUME machine \in Machines
    PROVE  /\ Base \in Nat /\ machine.com \in BOOLEAN
           /\ TimerVector \in Nat /\ NextVector = TimerVector + 1
           /\ {0, SerialVector, TimerVector, NextVector} \subseteq Vector
           /\ TimerVector >= Base
           /\ machine.com => TimerVector # SerialVector
           /\ ~machine.com => TimerVector = SerialVector
           /\ NextVector # SerialVector /\ NextVector # TimerVector
  BY InterruptsAssumption, BootAssumption
     DEF InterruptsAssumption, BootAssumption, Base, TimerVector, NextVector, SerialVector, Vector

(* The lowest vector that is not in use, when those in use are the first n.  *)
LEMMA AllocatesNext ==
    ASSUME NEW n \in Nat, n < IDT_MAX_DESCRIPTORS, vectors = 0 .. n - 1
    PROVE  idt_allocate_vector = n
  <1>1. IDT_MAX_DESCRIPTORS \in Nat
    BY InterruptsAssumption DEF InterruptsAssumption
  <1>2. n \in Vector \ vectors /\ \A w \in Vector \ vectors : n <= w
    BY <1>1 DEF Vector
  <1>3. \A v \in Vector \ vectors : (\A w \in Vector \ vectors : v <= w) => v = n
    BY <1>1, <1>2 DEF Vector
  <1>4. ~(Vector \subseteq vectors)
    BY <1>2
  <1> QED
    BY <1>2, <1>3, <1>4 DEF idt_allocate_vector

(* The machine's lines. *)
LEMMA LineFacts ==
    ASSUME machine \in Machines
    PROVE  /\ Irqs \subseteq Lines
           /\ \A i \in Irqs : {TrueLine(machine, i), FoundLine(machine, i)} \subseteq Lines
           /\ \A i, j \in Irqs : i # j => FoundLine(machine, i) # FoundLine(machine, j)
  BY InterruptsAssumption, BootAssumption DEF InterruptsAssumption, BootAssumption, Irqs

(* A MADT that was seen whole gives the lines that are the machine's.        *)
LEMMA SeenIsTrue ==
    ASSUME SeenWhole(machine), NEW irq PROVE FoundLine(machine, irq) = TrueLine(machine, irq)
  BY DEF SeenWhole, FoundLine, TrueLine

LEMMA LinesInitInv == BootInit => LinesInv
  <1> SUFFICES ASSUME BootInit PROVE LinesInv
    OBVIOUS
  <1>1. /\ pc = "pic" /\ vectors = 0 .. Base - 1 /\ machine \in Machines
        /\ routine_handlers = [v \in Vector |-> "none"]
        /\ redirects = [l \in Lines |-> [vector |-> 0, masked |-> TRUE]]
    BY DEF BootInit, InterruptsInit, Base
  <1>2. 0 \in Vector
    BY <1>1, VectorFacts
  <1>3. Wired
    BY <1>1 DEF Wired, VectorsAt, HandlersAt, EarlyPlaces, SerialPlaces, TimerPlaces, PitPlaces, LatePlaces, KbdPlaces
  <1>4. Open /\ Found /\ OpenLinesHandled
    BY <1>1 DEF Open, Found, OpenLinesHandled, OpenLines, SerialOpen, PitOpen, KbdOpen, EarlyPlaces, SerialPlaces,
                TimerPlaces, PitPlaces, LatePlaces, KbdPlaces
  <1> QED
    BY <1>1, <1>2, <1>3, <1>4 DEF LinesInv, Redirect, Places, EarlyPlaces

(* What is installed is a handler, so an open line has one. *)
LEMMA OpenLinesLead ==
    ASSUME machine \in Machines, pc \in Places, Wired, Open PROVE OpenLinesHandled
  <1>1. CASE SerialOpen
    BY <1>1, VectorFacts DEF OpenLinesHandled, Wired, Open, HandlersAt, SerialOpen, PitOpen, KbdOpen,
       SerialPlaces, TimerPlaces, PitPlaces, LatePlaces, KbdPlaces
  <1>2. CASE ~SerialOpen
    BY <1>2, VectorFacts DEF OpenLinesHandled, Wired, Open, HandlersAt, PitOpen, KbdOpen,
       PitPlaces, LatePlaces, KbdPlaces
  <1> QED
    BY <1>1, <1>2

(* Nothing of it changes. *)
LEMMA LinesIdle == LinesInv /\ UNCHANGED interrupts_vars => LinesInv'
  BY DEF LinesInv, interrupts_vars, OpenLinesHandled, Wired, Open, Found, SeenWhole, OpenLines, HandlersAt,
         VectorsAt, SerialOpen, PitOpen, KbdOpen, FoundLine, TimerVector, NextVector, SerialVector

(* The machine stops, or takes a step that the tables do not tell apart from  *)
(* the last one.                                                           *)
LEMMA StopsInv ==
    LinesInv /\ pc' \in {"dead", "hung"} /\ UNCHANGED <<machine, tables>> => LinesInv'
  BY DEF LinesInv, tables, OpenLinesHandled, Places, EarlyPlaces, SerialPlaces, TimerPlaces, PitPlaces,
         LatePlaces, KbdPlaces

Moves ==
    {<<"pic", "pic_masks">>, <<"pic_masks", "local_apic">>, <<"deadline", "pit_off">>,
     <<"timer_runs", "pci">>, <<"pci", "pci_load">>, <<"pci_load", "shell">>, <<"shell", "kbd">>,
     <<"kbd_clear", "up">>}

LEMMA MovesInv ==
    ASSUME LinesInv, <<pc, pc'>> \in Moves, UNCHANGED <<machine, tables>>
    PROVE  LinesInv'
  <1> USE DEF Places, EarlyPlaces, SerialPlaces, TimerPlaces, PitPlaces, LatePlaces, KbdPlaces
  <1>1. /\ pc \in Places /\ pc' \in Places
        /\ machine' = machine /\ vectors' = vectors /\ routine_handlers' = routine_handlers
        /\ redirects' = redirects /\ gsi_map' = gsi_map /\ lvt' = lvt
    BY DEF Moves, tables
  <1>2. Wired'
    BY <1>1 DEF LinesInv, Wired, VectorsAt, HandlersAt, Moves, TimerVector, NextVector, SerialVector
  <1>3. Open'
    BY <1>1 DEF LinesInv, Open, SerialOpen, PitOpen, KbdOpen, Moves, NextVector, TimerVector, SerialVector
  <1>4. Found'
    <2>1. Found
      BY <1>1 DEF LinesInv
    <2>2. OpenLines' = OpenLines
      BY <1>1 DEF OpenLines, SerialOpen, PitOpen, KbdOpen, Moves
    <2> QED
      BY <1>1, <2>1, <2>2 DEF Found, Moves, NextVector, TimerVector, SerialVector
  <1> QED
    BY <1>1, <1>2, <1>3, <1>4 DEF LinesInv, OpenLinesHandled

-----------------------------------------------------------------------------
(* The APICs.  No line is open yet, and a MADT that was seen whole gives the  *)
(* pins and lines that are the machine's.                                   *)
LEMMA LocalApicInv == LinesInv /\ configure_local_apic => LinesInv'
  <1> SUFFICES ASSUME LinesInv, configure_local_apic PROVE LinesInv'
    OBVIOUS
  <1> USE DEF Places, EarlyPlaces, SerialPlaces, TimerPlaces, PitPlaces, LatePlaces, KbdPlaces
  <1>1. CASE Dies
    BY <1>1, StopsInv DEF Dies
  <1>2. CASE ~Dies
    <2>1. /\ pc = "local_apic" /\ pc' = "io_apic" /\ lvt' = NmiPins(madt_examined(machine))
          /\ machine' = machine /\ vectors' = vectors /\ routine_handlers' = routine_handlers
          /\ redirects' = redirects /\ gsi_map' = gsi_map
      BY <1>2 DEF configure_local_apic, GoTo
    <2>2. Wired'
      BY <2>1 DEF LinesInv, Wired, VectorsAt, HandlersAt, TimerVector, NextVector, SerialVector
    <2>3. Open'
      BY <2>1 DEF LinesInv, Open, SerialOpen, PitOpen, KbdOpen
    <2>4. Found'
      <3>1. SeenWhole(machine) => lvt' = NmiPins(machine.madt)
        BY <2>1 DEF NmiPins, SeenWhole
      <3>2. OpenLines' = OpenLines
        BY <2>1 DEF OpenLines, SerialOpen, PitOpen, KbdOpen
      <3> QED
        BY <2>1, <3>1, <3>2 DEF Found, LinesInv, SeenWhole
    <2> QED
      BY <2>1, <2>2, <2>3, <2>4 DEF LinesInv, OpenLinesHandled
  <1> QED BY <1>1, <1>2

LEMMA IoApicInv == LinesInv /\ configure_io_apic => LinesInv'
  <1> SUFFICES ASSUME LinesInv, configure_io_apic PROVE LinesInv'
    OBVIOUS
  <1> USE DEF Places, EarlyPlaces, SerialPlaces, TimerPlaces, PitPlaces, LatePlaces, KbdPlaces
  <1>1. CASE Dies
    BY <1>1, StopsInv DEF Dies
  <1>2. CASE ~Dies
    <2> DEFINE isos == Of(madt_examined(machine), "iso")
    <2>1. /\ pc = "io_apic" /\ pc' = "serial" /\ gsi_map' = initialize_gsi_map(isos)
          /\ redirects' = [l \in Lines |->
                IF \E i \in DOMAIN isos : isos[i].gsi = l
                THEN [vector |-> 0, masked |-> TRUE] ELSE redirects[l]]
          /\ machine' = machine /\ vectors' = vectors /\ routine_handlers' = routine_handlers
          /\ lvt' = lvt
      BY <1>2 DEF configure_io_apic, GoTo
    <2> HIDE DEF isos
    <2>2. machine \in Machines /\ 0 \in Vector
      BY VectorFacts DEF LinesInv
    <2>3. \A l \in Lines : redirects[l].masked
      BY <2>1 DEF LinesInv, Open, SerialOpen, PitOpen, KbdOpen
    <2>4. redirects' \in [Lines -> Redirect] /\ \A l \in Lines : redirects'[l].masked
      BY <2>1, <2>2, <2>3 DEF LinesInv, Redirect
    <2>5. Wired'
      BY <2>1 DEF LinesInv, Wired, VectorsAt, HandlersAt, TimerVector, NextVector, SerialVector
    <2>6. Open' /\ OpenLinesHandled'
      BY <2>1, <2>4 DEF Open, OpenLinesHandled
    <2>7. Found'
      <3>1. \A irq \in Irqs : gsi_map'[irq] = FoundLine(machine', irq)
        BY <2>1, <2>2, LineFacts DEF isos, initialize_gsi_map, FoundLine
      <3>2. OpenLines' = {}
        BY <2>1 DEF OpenLines, SerialOpen, PitOpen, KbdOpen
      <3> QED
        BY <2>1, <2>4, <3>1, <3>2 DEF Found, LinesInv, SeenWhole
    <2> QED
      BY <2>1, <2>2, <2>4, <2>5, <2>6, <2>7 DEF LinesInv
  <1> QED BY <1>1, <1>2

-----------------------------------------------------------------------------
(* Wiring a line.  Its IRQ's line leads to the new vector, and is masked.     *)
LEMMA WireFacts ==
    ASSUME LinesInv, pc \in Places, NEW irq \in Irqs, NEW handler, NEW next, NEW v \in Vector,
           wire_line(irq, handler, next), ~Dies, vectors = 0 .. v - 1
    PROVE  /\ pc' = next /\ machine' = machine /\ gsi_map' = gsi_map /\ lvt' = lvt
           /\ vectors' = 0 .. v
           /\ routine_handlers' = [w \in Vector |-> IF w = v THEN handler ELSE routine_handlers[w]]
           /\ redirects' = [l \in Lines |-> IF l = gsi_map[irq]
                              THEN [vector |-> v, masked |-> TRUE] ELSE redirects[l]]
           /\ redirects' \in [Lines -> Redirect]
  <1>1. v \in Nat /\ v < IDT_MAX_DESCRIPTORS
    BY InterruptsAssumption DEF InterruptsAssumption, Vector
  <1>2. idt_allocate_vector = v
    BY <1>1, AllocatesNext
  <1>3. vectors' = vectors \cup {v} /\ routine_handlers' = [routine_handlers EXCEPT ![v] = handler]
        /\ redirects' = [redirects EXCEPT ![gsi_map[irq]] = [vector |-> v, masked |-> TRUE]]
        /\ GoTo(next) /\ gsi_map' = gsi_map /\ lvt' = lvt
    BY <1>2 DEF wire_line, Install, apic_io_redirect_irq
  <1>4. vectors' = 0 .. v
    BY <1>1, <1>3
  <1>5. routine_handlers \in [Vector -> {routine_handlers[w] : w \in Vector}]
    BY DEF LinesInv, Wired, HandlersAt
  <1>6. redirects \in [Lines -> Redirect]
    BY DEF LinesInv
  <1>7. redirects' = [l \in Lines |-> IF l = gsi_map[irq]
                              THEN [vector |-> v, masked |-> TRUE] ELSE redirects[l]]
    BY <1>3, <1>6
  <1>8. routine_handlers' = [w \in Vector |-> IF w = v THEN handler ELSE routine_handlers[w]]
    BY <1>3, <1>5
  <1>9. redirects' \in [Lines -> Redirect]
    BY <1>6, <1>7 DEF Redirect
  <1> QED
    BY <1>3, <1>4, <1>7, <1>8, <1>9 DEF GoTo

LEMMA SerialWireInv == LinesInv /\ serial_select_input_port => LinesInv'
  <1> SUFFICES ASSUME LinesInv, serial_select_input_port PROVE LinesInv'
    OBVIOUS
  <1> USE DEF Places, EarlyPlaces, SerialPlaces, TimerPlaces, PitPlaces, LatePlaces, KbdPlaces
  <1>0. machine \in Machines /\ pc = "serial" /\ SERIAL_COM1_IRQ \in Irqs
    BY DEF LinesInv, serial_select_input_port, Irqs
  <1>1. CASE machine.com /\ Dies
    BY <1>1, StopsInv DEF Dies
  <1>2. CASE ~machine.com
    <2>1. /\ pc' = "timer"
          /\ machine' = machine /\ vectors' = vectors /\ routine_handlers' = routine_handlers
          /\ redirects' = redirects /\ gsi_map' = gsi_map /\ lvt' = lvt
      BY <1>2 DEF serial_select_input_port, GoTo, tables
    <2>2. Wired'
      BY <1>0, <1>2, <2>1, VectorFacts
         DEF LinesInv, Wired, VectorsAt, HandlersAt, TimerVector, NextVector, SerialVector
    <2>3. Open'
      BY <1>0, <1>2, <2>1 DEF LinesInv, Open, SerialOpen, PitOpen, KbdOpen
    <2>4. Found'
      <3>1. OpenLines' = OpenLines
        BY <1>0, <1>2, <2>1 DEF OpenLines, SerialOpen, PitOpen, KbdOpen
      <3> QED
        BY <1>0, <1>2, <2>1, <3>1 DEF Found, LinesInv
    <2> QED
      BY <2>1, <2>2, <2>3, <2>4 DEF LinesInv, OpenLinesHandled
  <1>3. CASE machine.com /\ ~Dies
    <2>1. wire_line(SERIAL_COM1_IRQ, "serial", "serial_unmask")
      BY <1>3 DEF serial_select_input_port
    <2>2. vectors = 0 .. SerialVector - 1 /\ SerialVector \in Vector
      BY <1>0, VectorFacts DEF LinesInv, Wired, VectorsAt, SerialVector
    <2> DEFINE line == gsi_map[SERIAL_COM1_IRQ]
    <2>3. /\ pc' = "serial_unmask" /\ machine' = machine /\ gsi_map' = gsi_map /\ lvt' = lvt
          /\ vectors' = 0 .. SerialVector
          /\ routine_handlers' = [w \in Vector |-> IF w = SerialVector THEN "serial" ELSE routine_handlers[w]]
          /\ redirects' = [l \in Lines |-> IF l = line THEN [vector |-> SerialVector, masked |-> TRUE]
                                            ELSE redirects[l]]
          /\ redirects' \in [Lines -> Redirect]
      BY <1>0, <1>3, <2>1, <2>2, WireFacts
    <2>4. Wired'
      BY <1>0, <1>3, <2>3, VectorFacts
         DEF LinesInv, Wired, VectorsAt, HandlersAt, TimerVector, NextVector, SerialVector
    <2>5. \A l \in Lines : redirects'[l].masked
      BY <1>0, <2>3 DEF LinesInv, Open, SerialOpen, PitOpen, KbdOpen
    <2>6. Open' /\ OpenLinesHandled'
      BY <2>3, <2>5 DEF Open, OpenLinesHandled, SerialVector
    <2>7. Found'
      <3>1. OpenLines' = {}
        BY <2>3 DEF OpenLines, SerialOpen, PitOpen, KbdOpen
      <3>2. Found /\ line = FoundLine(machine, SERIAL_COM1_IRQ) /\ line \in Lines
        BY <1>0, LineFacts DEF LinesInv, Found
      <3> QED
        BY <1>0, <2>3, <2>5, <3>1, <3>2 DEF Found, SerialVector
    <2> QED
      BY <1>0, <2>3, <2>4, <2>6, <2>7 DEF LinesInv
  <1> QED BY <1>1, <1>2, <1>3

LEMMA TimerInv == LinesInv /\ local_timer_calibrate => LinesInv'
  <1> SUFFICES ASSUME LinesInv, local_timer_calibrate PROVE LinesInv'
    OBVIOUS
  <1> USE DEF Places, EarlyPlaces, SerialPlaces, TimerPlaces, PitPlaces, LatePlaces, KbdPlaces
  <1>1. /\ machine \in Machines /\ pc = "timer" /\ pc' = "pit" /\ machine' = machine
        /\ redirects' = redirects /\ gsi_map' = gsi_map /\ lvt' = lvt
    BY DEF LinesInv, local_timer_calibrate, GoTo
  <1>2. vectors = 0 .. TimerVector - 1 /\ TimerVector \in Vector
    BY <1>1, VectorFacts DEF LinesInv, Wired, VectorsAt
  <1>3. idt_allocate_vector = TimerVector
    BY <1>1, <1>2, VectorFacts, AllocatesNext, InterruptsAssumption DEF InterruptsAssumption, Vector
  <1>4. /\ vectors' = 0 .. TimerVector
        /\ routine_handlers' = [routine_handlers EXCEPT ![TimerVector] = "timer"]
    BY <1>1, <1>2, <1>3, VectorFacts DEF local_timer_calibrate, Install
  <1>5. routine_handlers' = [w \in Vector |-> IF w = TimerVector THEN "timer" ELSE routine_handlers[w]]
    BY <1>1, <1>4 DEF LinesInv, Wired, HandlersAt
  <1>6. Wired'
    BY <1>1, <1>4, <1>5, VectorFacts
       DEF LinesInv, Wired, VectorsAt, HandlersAt, TimerVector, NextVector, SerialVector
  <1>7. Open'
    BY <1>1 DEF LinesInv, Open, SerialOpen, PitOpen, KbdOpen, SerialVector
  <1>8. OpenLinesHandled'
    <2>1. \A l \in Lines : redirects[l].vector \in Vector
      BY DEF LinesInv, Redirect
    <2> QED
      BY <1>1, <1>5, <2>1 DEF LinesInv, OpenLinesHandled
  <1>9. Found'
    <2>1. OpenLines' = OpenLines
      BY <1>1 DEF OpenLines, SerialOpen, PitOpen, KbdOpen
    <2> QED
      BY <1>1, <2>1 DEF Found, LinesInv, SerialVector
  <1> QED
    BY <1>1, <1>6, <1>7, <1>8, <1>9 DEF LinesInv

LEMMA PitWireInv == LinesInv /\ pit_enable => LinesInv'
  <1> SUFFICES ASSUME LinesInv, pit_enable PROVE LinesInv'
    OBVIOUS
  <1> USE DEF Places, EarlyPlaces, SerialPlaces, TimerPlaces, PitPlaces, LatePlaces, KbdPlaces
  <1>0. machine \in Machines /\ pc = "pit" /\ PIT_IRQ_LINE \in Irqs
        /\ wire_line(PIT_IRQ_LINE, "pit", "pit_unmask")
    BY DEF LinesInv, pit_enable, Irqs
  <1>1. CASE Dies
    BY <1>1, StopsInv DEF Dies
  <1>2. CASE ~Dies
    <2>1. vectors = 0 .. NextVector - 1 /\ NextVector \in Vector
      BY <1>0, VectorFacts DEF LinesInv, Wired, VectorsAt
    <2> DEFINE line == gsi_map[PIT_IRQ_LINE]
    <2>2. /\ pc' = "pit_unmask" /\ machine' = machine /\ gsi_map' = gsi_map /\ lvt' = lvt
          /\ vectors' = 0 .. NextVector
          /\ routine_handlers' = [w \in Vector |-> IF w = NextVector THEN "pit" ELSE routine_handlers[w]]
          /\ redirects' = [l \in Lines |-> IF l = line THEN [vector |-> NextVector, masked |-> TRUE]
                                            ELSE redirects[l]]
          /\ redirects' \in [Lines -> Redirect]
      BY <1>0, <1>2, <2>1, WireFacts
    <2>3. NextVector' = NextVector /\ TimerVector' = TimerVector /\ SerialVector' = SerialVector
      BY <2>2 DEF NextVector, TimerVector, SerialVector
    <2>4. Wired'
      BY <1>0, <2>2, <2>3, VectorFacts DEF LinesInv, Wired, VectorsAt, HandlersAt
    <2>5. Open'
      BY <1>0, <2>2, <2>3 DEF LinesInv, Open, SerialOpen, PitOpen, KbdOpen
    <2>6. OpenLinesHandled'
      BY <1>0, <2>2 DEF LinesInv, OpenLinesHandled, Redirect
    <2>7. Found'
      <3>1. OpenLines' = OpenLines
        BY <1>0, <2>2 DEF OpenLines, SerialOpen, PitOpen, KbdOpen
      <3>2. Found
        BY <1>0 DEF LinesInv
      <3>3. line = FoundLine(machine, PIT_IRQ_LINE) /\ line \in Lines
        BY <1>0, <3>2, LineFacts DEF Found
      <3>4. line \notin OpenLines /\ line # FoundLine(machine, SERIAL_COM1_IRQ)
        BY <1>0, <3>3, LineFacts DEF OpenLines, SerialOpen, PitOpen, KbdOpen, Irqs, PIT_IRQ_LINE, SERIAL_COM1_IRQ
      <3>5. FoundLine(machine, SERIAL_COM1_IRQ) \in Lines
        BY <1>0, LineFacts DEF Irqs
      <3> QED
        BY <1>0, <2>2, <2>3, <3>1, <3>2, <3>4, <3>5 DEF Found
    <2> QED
      BY <1>0, <2>2, <2>4, <2>5, <2>6, <2>7 DEF LinesInv
  <1> QED BY <1>1, <1>2

LEMMA KbdWireInv == LinesInv /\ ps2_kbd_wire => LinesInv'
  <1> SUFFICES ASSUME LinesInv, ps2_kbd_wire PROVE LinesInv'
    OBVIOUS
  <1> USE DEF Places, EarlyPlaces, SerialPlaces, TimerPlaces, PitPlaces, LatePlaces, KbdPlaces
  <1>0. machine \in Machines /\ pc = "kbd" /\ PS2_KBD_IRQ_LINE \in Irqs
        /\ wire_line(PS2_KBD_IRQ_LINE, "kbd", "kbd_unmask")
    BY DEF LinesInv, ps2_kbd_wire, Irqs
  <1>1. CASE Dies
    BY <1>1, StopsInv DEF Dies
  <1>2. CASE ~Dies
    <2>1. vectors = 0 .. NextVector - 1 /\ NextVector \in Vector
      BY <1>0, VectorFacts DEF LinesInv, Wired, VectorsAt
    <2> DEFINE line == gsi_map[PS2_KBD_IRQ_LINE]
    <2>2. /\ pc' = "kbd_unmask" /\ machine' = machine /\ gsi_map' = gsi_map /\ lvt' = lvt
          /\ vectors' = 0 .. NextVector
          /\ routine_handlers' = [w \in Vector |-> IF w = NextVector THEN "kbd" ELSE routine_handlers[w]]
          /\ redirects' = [l \in Lines |-> IF l = line THEN [vector |-> NextVector, masked |-> TRUE]
                                            ELSE redirects[l]]
          /\ redirects' \in [Lines -> Redirect]
      BY <1>0, <1>2, <2>1, WireFacts
    <2>3. NextVector' = NextVector /\ TimerVector' = TimerVector /\ SerialVector' = SerialVector
      BY <2>2 DEF NextVector, TimerVector, SerialVector
    <2>4. Wired'
      BY <1>0, <2>2, <2>3, VectorFacts DEF LinesInv, Wired, VectorsAt, HandlersAt
    <2>5. Open'
      BY <1>0, <2>2, <2>3 DEF LinesInv, Open, SerialOpen, PitOpen, KbdOpen
    <2>6. OpenLinesHandled'
      BY <1>0, <2>2 DEF LinesInv, OpenLinesHandled, Redirect
    <2>7. Found'
      <3>1. OpenLines' = OpenLines
        BY <1>0, <2>2 DEF OpenLines, SerialOpen, PitOpen, KbdOpen
      <3>2. Found
        BY <1>0 DEF LinesInv
      <3>3. line = FoundLine(machine, PS2_KBD_IRQ_LINE) /\ line \in Lines
        BY <1>0, <3>2, LineFacts DEF Found
      <3>4. line \notin OpenLines /\ line # FoundLine(machine, SERIAL_COM1_IRQ)
        BY <1>0, <3>3, LineFacts DEF OpenLines, SerialOpen, PitOpen, KbdOpen, Irqs, PS2_KBD_IRQ_LINE, SERIAL_COM1_IRQ
      <3>5. FoundLine(machine, SERIAL_COM1_IRQ) \in Lines
        BY <1>0, LineFacts DEF Irqs
      <3> QED
        BY <1>0, <2>2, <2>3, <3>1, <3>2, <3>3, <3>4, <3>5 DEF Found
    <2> QED
      BY <1>0, <2>2, <2>4, <2>5, <2>6, <2>7 DEF LinesInv
  <1> QED BY <1>1, <1>2

-----------------------------------------------------------------------------
(* The line of an IRQ is opened or closed.  The vectors stay as they are.     *)
LEMMA UnmaskFacts ==
    ASSUME LinesInv, pc \in Places, NEW irq \in Irqs, NEW next, unmask(irq, next)
    PROVE  /\ pc' = next /\ machine' = machine /\ gsi_map' = gsi_map /\ lvt' = lvt
           /\ vectors' = vectors /\ routine_handlers' = routine_handlers
           /\ redirects' \in [Lines -> Redirect]
           /\ \A l \in Lines : redirects'[l].vector = redirects[l].vector
           /\ \A l \in Lines : redirects'[l].masked <=> redirects[l].masked /\ l # gsi_map[irq]
           /\ NextVector' = NextVector /\ TimerVector' = TimerVector /\ SerialVector' = SerialVector
  <1>1. redirects \in [Lines -> Redirect]
    BY DEF LinesInv
  <1>2. /\ redirects' = [redirects EXCEPT ![gsi_map[irq]].masked = FALSE]
        /\ pc' = next /\ machine' = machine /\ gsi_map' = gsi_map /\ lvt' = lvt
        /\ vectors' = vectors /\ routine_handlers' = routine_handlers
    BY DEF unmask, GoTo, apic_io_unmask_irq
  <1>3. redirects' = [l \in Lines |-> IF l = gsi_map[irq]
                       THEN [redirects[l] EXCEPT !.masked = FALSE] ELSE redirects[l]]
    BY <1>1, <1>2
  <1>4. \A l \in Lines :
          /\ redirects'[l] \in Redirect /\ redirects'[l].vector = redirects[l].vector
          /\ redirects'[l].masked <=> redirects[l].masked /\ l # gsi_map[irq]
    <2>1. ASSUME NEW l \in Lines, l = gsi_map[irq]
          PROVE  /\ redirects'[l] = [redirects[l] EXCEPT !.masked = FALSE]
                 /\ redirects[l] \in [vector : Vector, masked : BOOLEAN]
      BY <1>1, <1>3, <2>1 DEF Redirect
    <2>2. ASSUME NEW l \in Lines, l # gsi_map[irq] PROVE redirects'[l] = redirects[l]
      BY <1>3, <2>2
    <2> QED
      BY <1>1, <2>1, <2>2 DEF Redirect
  <1>5. redirects' \in [Lines -> Redirect]
    BY <1>3, <1>4
  <1> QED
    BY <1>2, <1>4, <1>5 DEF NextVector, TimerVector, SerialVector

LEMMA SerialUnmaskInv == LinesInv /\ serial_set_input_masked => LinesInv'
  <1> SUFFICES ASSUME LinesInv, serial_set_input_masked PROVE LinesInv'
    OBVIOUS
  <1> USE DEF Places, EarlyPlaces, SerialPlaces, TimerPlaces, PitPlaces, LatePlaces, KbdPlaces
  <1>1. /\ machine \in Machines /\ pc = "serial_unmask" /\ SERIAL_COM1_IRQ \in Irqs
        /\ machine.com /\ Found
    BY DEF LinesInv, Wired, serial_set_input_masked, Irqs
  <1> DEFINE line == FoundLine(machine, SERIAL_COM1_IRQ)
  <1>0. gsi_map[SERIAL_COM1_IRQ] = line /\ line \in Lines
    BY <1>1, LineFacts DEF Found
  <1>2. /\ pc' = "timer" /\ machine' = machine /\ gsi_map' = gsi_map /\ lvt' = lvt
        /\ vectors' = vectors /\ routine_handlers' = routine_handlers
        /\ redirects' \in [Lines -> Redirect]
        /\ \A l \in Lines : redirects'[l].vector = redirects[l].vector
        /\ \A l \in Lines : redirects'[l].masked <=> redirects[l].masked /\ (line = 0 \/ l # line)
        /\ NextVector' = NextVector /\ TimerVector' = TimerVector /\ SerialVector' = SerialVector
    <2>1. CASE line # 0
      <3>1. unmask(SERIAL_COM1_IRQ, "timer")
        BY <1>0, <2>1 DEF serial_set_input_masked
      <3> QED BY <1>0, <1>1, <2>1, <3>1, UnmaskFacts
    <2>2. CASE line = 0
      BY <1>0, <2>2 DEF serial_set_input_masked, GoTo, tables, LinesInv, NextVector, TimerVector, SerialVector
    <2> QED BY <2>1, <2>2
  <1> HIDE DEF line
  <1>3. Wired'
    BY <1>1, <1>2, VectorFacts DEF LinesInv, Wired, VectorsAt, HandlersAt, TimerVector, SerialVector
  <1>4. Open'
    <2>1. SerialOpen' <=> line # 0
      BY <1>1, <1>2 DEF SerialOpen, line
    <2>2. \A l \in Lines : redirects[l].masked
      BY <1>1 DEF LinesInv, Open, SerialOpen, PitOpen, KbdOpen
    <2>3. redirects[line].vector = SerialVector
      BY <1>0, <1>1 DEF LinesInv, Open
    <2> QED
      BY <1>0, <1>1, <1>2, <2>1, <2>2, <2>3 DEF Open
  <1>5. OpenLinesHandled'
    <2>1. routine_handlers[SerialVector] # "none"
      BY <1>1, VectorFacts DEF LinesInv, Wired, HandlersAt
    <2> QED
      BY <1>0, <1>1, <1>2, <2>1 DEF LinesInv, OpenLinesHandled, Open
  <1>6. Found'
    <2>1. OpenLines = {}
      BY <1>1 DEF OpenLines, SerialOpen, PitOpen, KbdOpen
    <2>2. OpenLines' = {l \in Lines : line # 0 /\ l = line}
      BY <1>1, <1>2 DEF OpenLines, SerialOpen, PitOpen, KbdOpen, line
    <2>3. \A l \in Lines : ~redirects'[l].masked <=> l \in OpenLines'
      BY <1>1, <1>2, <2>1, <2>2 DEF Found
    <2> QED
      BY <1>0, <1>1, <1>2, <2>3 DEF Found, line
  <1> QED
    BY <1>1, <1>2, <1>3, <1>4, <1>5, <1>6 DEF LinesInv

LEMMA PitUnmaskInv == LinesInv /\ pit_unmask => LinesInv'
  <1> SUFFICES ASSUME LinesInv, pit_unmask PROVE LinesInv'
    OBVIOUS
  <1> USE DEF Places, EarlyPlaces, SerialPlaces, TimerPlaces, PitPlaces, LatePlaces, KbdPlaces
  <1>1. /\ machine \in Machines /\ pc = "pit_unmask" /\ PIT_IRQ_LINE \in Irqs
        /\ unmask(PIT_IRQ_LINE, "deadline")
    BY DEF LinesInv, pit_unmask, Irqs
  <1>2. /\ pc' = "deadline" /\ machine' = machine /\ gsi_map' = gsi_map /\ lvt' = lvt
        /\ vectors' = vectors /\ routine_handlers' = routine_handlers
        /\ redirects' \in [Lines -> Redirect]
        /\ \A l \in Lines : redirects'[l].vector = redirects[l].vector
        /\ \A l \in Lines : redirects'[l].masked <=> redirects[l].masked /\ l # gsi_map[PIT_IRQ_LINE]
        /\ NextVector' = NextVector /\ TimerVector' = TimerVector /\ SerialVector' = SerialVector
    BY <1>1, UnmaskFacts
  <1>3. Wired'
    BY <1>1, <1>2 DEF LinesInv, Wired, VectorsAt, HandlersAt
  <1>4. Open'
    BY <1>1, <1>2 DEF LinesInv, Open, SerialOpen, PitOpen, KbdOpen
  <1>5. OpenLinesHandled'
    <2>1. routine_handlers[NextVector] # "none"
      BY <1>1, VectorFacts DEF LinesInv, Wired, HandlersAt
    <2> QED
      BY <1>1, <1>2, <2>1 DEF LinesInv, OpenLinesHandled, Open
  <1>6. Found'
    <2>1. Found /\ gsi_map[PIT_IRQ_LINE] = FoundLine(machine, PIT_IRQ_LINE)
      BY <1>1 DEF LinesInv, Found
    <2>2. \A l \in Lines : l \in OpenLines' <=> l \in OpenLines \/ l = FoundLine(machine, PIT_IRQ_LINE)
      BY <1>1, <1>2 DEF OpenLines, SerialOpen, PitOpen, KbdOpen
    <2>3. \A l \in Lines : ~redirects'[l].masked <=> l \in OpenLines'
      BY <1>1, <1>2, <2>1, <2>2 DEF Found
    <2>4. FoundLine(machine, SERIAL_COM1_IRQ) \in Lines
      BY <1>1, LineFacts DEF Irqs
    <2> QED
      BY <1>1, <1>2, <2>1, <2>3, <2>4 DEF Found
  <1> QED
    BY <1>1, <1>2, <1>3, <1>4, <1>5, <1>6 DEF LinesInv

LEMMA KbdUnmaskInv == LinesInv /\ ps2_kbd_unmask => LinesInv'
  <1> SUFFICES ASSUME LinesInv, ps2_kbd_unmask PROVE LinesInv'
    OBVIOUS
  <1> USE DEF Places, EarlyPlaces, SerialPlaces, TimerPlaces, PitPlaces, LatePlaces, KbdPlaces
  <1>1. /\ machine \in Machines /\ pc = "kbd_unmask" /\ PS2_KBD_IRQ_LINE \in Irqs
        /\ unmask(PS2_KBD_IRQ_LINE, "kbd_clear")
    BY DEF LinesInv, ps2_kbd_unmask, Irqs
  <1>2. /\ pc' = "kbd_clear" /\ machine' = machine /\ gsi_map' = gsi_map /\ lvt' = lvt
        /\ vectors' = vectors /\ routine_handlers' = routine_handlers
        /\ redirects' \in [Lines -> Redirect]
        /\ \A l \in Lines : redirects'[l].vector = redirects[l].vector
        /\ \A l \in Lines : redirects'[l].masked <=> redirects[l].masked /\ l # gsi_map[PS2_KBD_IRQ_LINE]
        /\ NextVector' = NextVector /\ TimerVector' = TimerVector /\ SerialVector' = SerialVector
    BY <1>1, UnmaskFacts
  <1>3. Wired'
    BY <1>1, <1>2 DEF LinesInv, Wired, VectorsAt, HandlersAt
  <1>4. Open'
    BY <1>1, <1>2 DEF LinesInv, Open, SerialOpen, PitOpen, KbdOpen
  <1>5. OpenLinesHandled'
    <2>1. routine_handlers[NextVector] # "none"
      BY <1>1, VectorFacts DEF LinesInv, Wired, HandlersAt
    <2> QED
      BY <1>1, <1>2, <2>1 DEF LinesInv, OpenLinesHandled, Open
  <1>6. Found'
    <2>1. Found /\ gsi_map[PS2_KBD_IRQ_LINE] = FoundLine(machine, PS2_KBD_IRQ_LINE)
      BY <1>1 DEF LinesInv, Found
    <2>2. \A l \in Lines : l \in OpenLines' <=> l \in OpenLines \/ l = FoundLine(machine, PS2_KBD_IRQ_LINE)
      BY <1>1, <1>2 DEF OpenLines, SerialOpen, PitOpen, KbdOpen
    <2>3. \A l \in Lines : ~redirects'[l].masked <=> l \in OpenLines'
      BY <1>1, <1>2, <2>1, <2>2 DEF Found
    <2>4. /\ FoundLine(machine, SERIAL_COM1_IRQ) \in Lines
          /\ FoundLine(machine, PS2_KBD_IRQ_LINE) \in Lines
      BY <1>1, LineFacts DEF Irqs
    <2> QED
      BY <1>1, <1>2, <2>1, <2>3, <2>4 DEF Found
  <1> QED
    BY <1>1, <1>2, <1>3, <1>4, <1>5, <1>6 DEF LinesInv

LEMMA PitDisableInv == LinesInv /\ pit_disable => LinesInv'
  <1> SUFFICES ASSUME LinesInv, pit_disable PROVE LinesInv'
    OBVIOUS
  <1> USE DEF Places, EarlyPlaces, SerialPlaces, TimerPlaces, PitPlaces, LatePlaces, KbdPlaces
  <1> DEFINE line == gsi_map[PIT_IRQ_LINE]
  <1>1. /\ machine \in Machines /\ pc = "pit_off" /\ PIT_IRQ_LINE \in Irqs
        /\ pc' = "pit_free" /\ machine' = machine /\ gsi_map' = gsi_map /\ lvt' = lvt
        /\ vectors' = vectors /\ routine_handlers' = routine_handlers
        /\ redirects' = [redirects EXCEPT ![line] = [vector |-> 0, masked |-> TRUE]]
        /\ redirects \in [Lines -> Redirect]
    BY DEF LinesInv, pit_disable, Irqs, GoTo, apic_io_redirect_irq
  <1>2. NextVector' = NextVector /\ TimerVector' = TimerVector /\ SerialVector' = SerialVector
    BY <1>1 DEF NextVector, TimerVector, SerialVector
  <1>3. redirects' = [l \in Lines |-> IF l = line THEN [vector |-> 0, masked |-> TRUE] ELSE redirects[l]]
    BY <1>1
  <1>4. redirects' \in [Lines -> Redirect]
    <2>1. [vector |-> 0, masked |-> TRUE] \in Redirect
      BY <1>1, VectorFacts DEF Redirect
    <2> QED
      BY <1>1, <1>3, <2>1
  <1>5. Wired'
    BY <1>1, <1>2 DEF LinesInv, Wired, VectorsAt, HandlersAt
  <1>6. Open'
    BY <1>1, <1>2, <1>3 DEF LinesInv, Open, SerialOpen, PitOpen, KbdOpen
  <1>7. OpenLinesHandled'
    BY <1>1, <1>3 DEF LinesInv, OpenLinesHandled
  <1>8. Found'
    <2>1. Found
      BY <1>1 DEF LinesInv
    <2>2. line = FoundLine(machine, PIT_IRQ_LINE) /\ line # FoundLine(machine, SERIAL_COM1_IRQ)
      BY <1>1, <2>1, LineFacts DEF Found, Irqs, PIT_IRQ_LINE, SERIAL_COM1_IRQ
    <2>3. \A l \in Lines : l \in OpenLines' <=> l \in OpenLines /\ l # line
      BY <1>1, <2>2 DEF OpenLines, SerialOpen, PitOpen, KbdOpen
    <2>4. \A l \in Lines : ~redirects'[l].masked <=> l \in OpenLines'
      BY <1>3, <2>1, <2>3 DEF Found
    <2>5. FoundLine(machine, SERIAL_COM1_IRQ) \in Lines
      BY <1>1, LineFacts DEF Irqs
    <2> QED
      BY <1>1, <1>2, <1>3, <2>1, <2>2, <2>4, <2>5 DEF Found
  <1> QED
    BY <1>1, <1>4, <1>5, <1>6, <1>7, <1>8 DEF LinesInv

LEMMA PitFreeInv == LinesInv /\ idt_free_vector => LinesInv'
  <1> SUFFICES ASSUME LinesInv, idt_free_vector PROVE LinesInv'
    OBVIOUS
  <1> USE DEF Places, EarlyPlaces, SerialPlaces, TimerPlaces, PitPlaces, LatePlaces, KbdPlaces
  <1>1. /\ machine \in Machines /\ pc = "pit_free" /\ pc' = "timer_runs"
        /\ machine' = machine /\ gsi_map' = gsi_map /\ lvt' = lvt /\ redirects' = redirects
    BY DEF LinesInv, idt_free_vector, GoTo
  <1>2. PICK v \in Vector :
          /\ routine_handlers[v] = "pit" /\ vectors' = vectors \ {v}
          /\ routine_handlers' = [routine_handlers EXCEPT ![v] = "none"]
    BY DEF idt_free_vector
  <1>3. v = NextVector
    BY <1>1, <1>2 DEF LinesInv, Wired, HandlersAt
  <1>4. NextVector' = NextVector /\ TimerVector' = TimerVector /\ SerialVector' = SerialVector
    BY <1>1 DEF NextVector, TimerVector, SerialVector
  <1>5. vectors' = 0 .. TimerVector
    BY <1>1, <1>2, <1>3, VectorFacts DEF LinesInv, Wired, VectorsAt
  <1>6. routine_handlers' = [w \in Vector |-> IF w = NextVector THEN "none" ELSE routine_handlers[w]]
    BY <1>1, <1>2, <1>3 DEF LinesInv, Wired, HandlersAt
  <1>7. Wired'
    BY <1>1, <1>4, <1>5, <1>6, VectorFacts DEF LinesInv, Wired, VectorsAt, HandlersAt
  <1>8. Open'
    BY <1>1, <1>4 DEF LinesInv, Open, SerialOpen, PitOpen, KbdOpen
  <1>9. OpenLinesHandled'
    <2>1. \A l \in Lines : ~redirects[l].masked => redirects[l].vector = SerialVector
      BY <1>1 DEF LinesInv, Open, PitOpen, KbdOpen
    <2>2. SerialVector \in Vector /\ SerialVector # NextVector
      BY <1>1, VectorFacts
    <2> QED
      BY <1>1, <1>6, <2>1, <2>2 DEF LinesInv, OpenLinesHandled
  <1>10. Found'
    <2>1. OpenLines' = OpenLines
      BY <1>1 DEF OpenLines, SerialOpen, PitOpen, KbdOpen
    <2> QED
      BY <1>1, <1>4, <2>1 DEF Found, LinesInv
  <1> QED
    BY <1>1, <1>7, <1>8, <1>9, <1>10 DEF LinesInv

-----------------------------------------------------------------------------
(* The remaining steps of the boot, and the interrupts.                      *)
LEMMA OtherStepsInv ==
    ASSUME LinesInv,
           \/ pic_remap_offsets \/ pic_disable \/ pit_deadline_wait \/ local_timer_set_frequency
           \/ pci_load_begins \/ pci_load_ends \/ load_shell \/ ps2_kbd_init_ends
    PROVE  LinesInv'
  <1>1. <<pc, pc'>> \in Moves /\ UNCHANGED <<machine, tables>>
    BY DEF pic_remap_offsets, pic_disable, pit_deadline_wait, local_timer_set_frequency, pci_load_begins,
           pci_load_ends, load_shell, ps2_kbd_init_ends, GoTo, Moves
  <1> QED
    BY <1>1, MovesInv

LEMMA TicksInv == LinesInv /\ (Tick \/ Ticked) => LinesInv'
  <1> SUFFICES ASSUME LinesInv, Tick \/ Ticked PROVE LinesInv'
    OBVIOUS
  <1>1. CASE Dies
    BY <1>1, StopsInv DEF Dies
  <1>2. CASE ~Dies
    <2>1. UNCHANGED <<machine, pc, vectors, routine_handlers, redirects, gsi_map, lvt>>
      BY <1>2 DEF Tick, Ticked, PitRises, Delivered
    <2> QED
      BY <2>1 DEF LinesInv, OpenLinesHandled, Wired, Open, Found, SeenWhole, OpenLines, HandlersAt, VectorsAt,
         SerialOpen, PitOpen, KbdOpen, FoundLine, TimerVector, NextVector, SerialVector
  <1> QED BY <1>1, <1>2

LEMMA LinesNextInv == LinesInv /\ [BootNext]_boot_vars => LinesInv'
  <1> SUFFICES ASSUME LinesInv, [BootNext]_boot_vars PROVE LinesInv'
    OBVIOUS
  <1>1. CASE InterruptSteps
    BY <1>1, LocalApicInv, IoApicInv, SerialWireInv, SerialUnmaskInv, TimerInv, PitWireInv, PitUnmaskInv,
       PitDisableInv, PitFreeInv, OtherStepsInv DEF InterruptSteps, TimerSteps
  <1>2. CASE pci_load_begins \/ pci_load_ends \/ load_shell \/ ps2_kbd_init_ends
    BY <1>2, OtherStepsInv
  <1>3. CASE ps2_kbd_wire \/ ps2_kbd_unmask
    BY <1>3, KbdWireInv, KbdUnmaskInv
  <1>4. CASE Tick \/ Ticked
    BY <1>4, TicksInv
  <1>5. CASE OldLine \/ pci_command \/ disk_command_dies \/ disk_command_hangs
    BY <1>5, StopsInv DEF OldLine, OldLineRises, Dies, pci_command, disk_command_dies, disk_command_hangs, Stops
  <1>6. CASE pci_loads \/ KeyboardSends \/ disk_command \/ disktest_command \/ kernel_disk \/ DriverSteps \/ DiskTests
    BY <1>6, LinesIdle DEF pci_loads, KeyboardSends, disk_command, disktest_command, kernel_disk, DriverSteps, DiskTests
  <1>7. CASE \E p \in Ports : Engine(p) \/ Drive(p)
    BY <1>7, LinesIdle DEF Engine, Drive
  <1>8. CASE UNCHANGED boot_vars
    BY <1>8, LinesIdle DEF boot_vars
  <1> QED
    BY <1>1, <1>2, <1>3, <1>4, <1>5, <1>6, <1>7, <1>8 DEF BootNext, BootSteps, Wires, Commands

(* When the boot is over everything is known that DevicesWired asks for.  A   *)
(* device on a line other than the one found for it is not heard by its own   *)
(* handler: if that line is open, it is another device's.                   *)
LEMMA UpIsWired == LinesInv => LinesWired
  <1> SUFFICES ASSUME LinesInv, pc = "up" PROVE DevicesWired
    BY DEF LinesInv, LinesWired
  <1> USE DEF Places, EarlyPlaces, SerialPlaces, TimerPlaces, PitPlaces, LatePlaces, KbdPlaces
  <1>1. machine \in Machines /\ Wired /\ Found
    BY DEF LinesInv
  <1>2. {l \in Lines : ~redirects[l].masked} = OpenLines
    BY <1>1 DEF Found, OpenLines
  <1>3. OpenLines = {FoundLine(machine, irq) : irq \in {i \in Devices : Opened(i)}}
    BY <1>1, LineFacts DEF OpenLines, SerialOpen, PitOpen, KbdOpen, Devices, Opened, Irqs,
       PS2_KBD_IRQ_LINE, SERIAL_COM1_IRQ
  <1>4. routine_handlers[NextVector] = "kbd" /\ (machine.com => routine_handlers[SerialVector] = "serial")
        /\ TimerVector \in Vector /\ routine_handlers[TimerVector] = "timer"
    BY <1>1, VectorFacts DEF Wired, HandlersAt
  <1>5. \A irq \in Devices : routine_handlers[redirects[FoundLine(machine, irq)].vector] = HandlerOf(irq)
    BY <1>1, <1>4 DEF Found, HandlerOf, Devices, PS2_KBD_IRQ_LINE, SERIAL_COM1_IRQ
  <1>6. ASSUME NEW irq \in Devices
        PROVE  Heard(irq) /\ Handler(irq) = HandlerOf(irq)
               <=> Opened(irq) /\ FoundLine(machine, irq) = TrueLine(machine, irq)
    <2> DEFINE line == TrueLine(machine, irq)
    <2>1. irq \in Irqs /\ line \in Lines
      BY <1>1, LineFacts DEF Devices, Irqs
    <2>2. Heard(irq) <=> \E i \in Devices : Opened(i) /\ line = FoundLine(machine, i)
      BY <1>2, <1>3, <2>1 DEF Heard
    <2>3. Handler(irq) = routine_handlers[redirects[line].vector]
      BY DEF Handler
    <2> HIDE DEF line
    <2>4. ASSUME NEW i \in Devices, line = FoundLine(machine, i), Handler(irq) = HandlerOf(irq)
          PROVE  i = irq
      <3>1. HandlerOf(i) = HandlerOf(irq)
        BY <1>5, <2>3, <2>4
      <3> QED BY <3>1 DEF HandlerOf, Devices, PS2_KBD_IRQ_LINE, SERIAL_COM1_IRQ
    <2>5. Opened(irq) /\ FoundLine(machine, irq) = line => Heard(irq) /\ Handler(irq) = HandlerOf(irq)
      BY <1>5, <2>2, <2>3
    <2>6. Heard(irq) /\ Handler(irq) = HandlerOf(irq) => Opened(irq) /\ FoundLine(machine, irq) = line
      BY <2>2, <2>4
    <2> QED BY <2>5, <2>6 DEF line
  <1>7. \A v \in Vector : routine_handlers[v] # "none" => v \in vectors \ 0 .. IDT_CPU_EXCEPTION_COUNT - 1
    BY <1>1, VectorFacts DEF Wired, HandlersAt, VectorsAt, Base, SerialVector, NextVector
  <1> QED
    BY <1>1, <1>2, <1>3, <1>4, <1>6, <1>7 DEF DevicesWired, Found

-----------------------------------------------------------------------------
(* The lines that are open lead to handlers, all the way up, and when the    *)
(* boot is over and the MADT was seen whole, each device is wired to its own. *)
THEOREM EveryDeviceWired == BootSpec => []LinesWired
  <1>1. BootInit => LinesInv
    BY LinesInitInv
  <1>2. LinesInv /\ [BootNext]_boot_vars => LinesInv'
    BY LinesNextInv
  <1>3. LinesInv => LinesWired
    BY UpIsWired
  <1> QED
    BY <1>1, <1>2, <1>3, PTL DEF BootSpec

-----------------------------------------------------------------------------
(***************************************************************************)
(* The list of PCI functions is the bus, CacheIsTheBus, for any number of     *)
(* devices and functions and any segments; and the machine stops only where   *)
(* StopsOnlyInWindows says.                                                 *)
(*                                                                         *)
(* The argument.  The loops of pci_conf_load_cache visit places in order, and *)
(* pass by a device or a bus only when no function on it would be listed.    *)
(* So at each place the list has what is on the buses in front of it         *)
(* (PciInv), and when it is made a command finds in it what it looks for.    *)
(* Where the interrupt lines lead is known from LinesInv; with it, a message  *)
(* under way is a tick of the PIT (StopInv).                                *)
(***************************************************************************)
(* Where a function may be, and the order of the loops. *)
Place == [seg : Int, bus : Int, device : Int, function : Int]
PlaceOf(s, b, d, f) == [seg |-> s, bus |-> b, device |-> d, function |-> f]

Before(p, q) ==
    \/ p.seg < q.seg
    \/ p.seg = q.seg /\ p.bus < q.bus
    \/ p.seg = q.seg /\ p.bus = q.bus /\ p.device < q.device
    \/ p.seg = q.seg /\ p.bus = q.bus /\ p.device = q.device /\ p.function < q.function

Visited(p) ==
    /\ p \in Place
    /\ p.seg + 1 \in 1 .. Len(segments)
    /\ segments[p.seg + 1].start <= p.bus /\ p.bus < segments[p.seg + 1].end
    /\ p.device \in 0 .. DEVICES - 1 /\ p.function \in 0 .. FUNCTIONS - 1

(* The functions the loops have looked at before they come to p. *)
DeviceThere(p) == Present(PlaceOf(p.seg, p.bus, p.device, 0)) # {}
BusThere(p) == Present(PlaceOf(p.seg, p.bus, 0, 0)) # {}
Passed(p) ==
    /\ p.function > 0 => DeviceThere(p)
    /\ p.device > 0 => BusThere(p)

Listed == {cache[i] : i \in DOMAIN cache}

Function == [bus : Nat, device : 0 .. DEVICES - 1, function : 0 .. FUNCTIONS - 1, class : STRING]
Segment == [start : Nat, end : Nat, functions : SUBSET Function]

(* The places of the boot at which the load has not begun. *)
Unloaded == Places \ ({"pci_load", "shell", "kbd"} \cup KbdPlaces)

PciInv ==
    /\ segments \in Seq(Segment)
    /\ cache \in Seq(Place)
    /\ entries = Len(cache) + (IF loading = "fill" THEN 1 ELSE 0)
    /\ \A i, j \in DOMAIN cache : i # j => cache[i] # cache[j]
    /\ loading \in {"no", "look", "fill"}
    /\ loading = "no" /\ ~cached => cache = <<>>
    /\ loading = "no" /\ cached => Listed = OnTheBuses
    /\ loading # "no" =>
         /\ ~cached
         /\ Visited(at) /\ Passed(at)
         /\ Listed = {p \in OnTheBuses : Before(p, at)}
    /\ loading = "fill" => Present(at) # {}
    /\ pc \in Unloaded => loading = "no" /\ ~cached
    /\ cached \in BOOLEAN

-----------------------------------------------------------------------------
(* Every set of natural numbers that is not empty has a least member.        *)
LEMMA LeastMember ==
    ASSUME NEW T \in SUBSET Nat, T # {}
    PROVE  \E m \in T : \A k \in T : m <= k
  <1> DEFINE R == {ss \in Nat \X Nat : ss[1] < ss[2]}
  <1>1. IsWellFoundedOn(OpToRel(<, Nat), Nat)
    BY NatLessThanWellFounded
  <1>2. IsWellFoundedOn(R, Nat)
    BY <1>1 DEF OpToRel
  <1>3. PICK m \in T : \A k \in T : ~(<<k, m>> \in R)
    BY <1>2, WFMin
  <1>4. ASSUME NEW k \in T PROVE m <= k
    <2>1. k \in Nat /\ m \in Nat /\ <<k, m>> \in Nat \X Nat
      OBVIOUS
    <2>2. ~(k < m)
      BY <1>3, <2>1
    <2> QED BY <2>1, <2>2
  <1> QED BY <1>4

(* A place is made of its four numbers. *)
LEMMA PlaceIs ==
    ASSUME NEW p \in Place
    PROVE  p = PlaceOf(p.seg, p.bus, p.device, p.function)
  BY DEF Place, PlaceOf

(* Two places with the same numbers are one. *)
LEMMA SamePlace ==
    ASSUME NEW p \in Place, NEW q \in Place, p.seg = q.seg, p.bus = q.bus, p.device = q.device,
           p.function = q.function
    PROVE  p = q
  BY DEF Place

(* What the loops assign to it. *)
LEMMA FunctionSet ==
    ASSUME NEW p \in Place, NEW f \in Int
    PROVE  [p EXCEPT !.function = f] = PlaceOf(p.seg, p.bus, p.device, f)
  <1> DEFINE q == [p EXCEPT !.function = f]
  <1>1. q \in Place
    BY DEF Place
  <1>2. q.seg = p.seg /\ q.bus = p.bus
    BY DEF Place
  <1>3. q.device = p.device /\ q.function = f
    BY DEF Place
  <1> HIDE DEF q
  <1>4. q = PlaceOf(p.seg, p.bus, p.device, f)
    BY <1>1, <1>2, <1>3, PlaceIs
  <1> QED BY <1>4 DEF q

(* The loop over the devices goes on with function 0. *)
LEMMA DeviceSet ==
    ASSUME NEW p \in Place, NEW d \in Int, NEW f \in Int
    PROVE  [p EXCEPT !.device = d, !.function = f] = PlaceOf(p.seg, p.bus, d, f)
  <1> DEFINE q == [p EXCEPT !.device = d, !.function = f]
  <1>1. q \in Place
    BY DEF Place
  <1>2. q.seg = p.seg /\ q.bus = p.bus
    BY DEF Place
  <1>3. q.device = d /\ q.function = f
    BY DEF Place
  <1> HIDE DEF q
  <1>4. q = PlaceOf(p.seg, p.bus, d, f)
    BY <1>1, <1>2, <1>3, PlaceIs
  <1> QED BY <1>4 DEF q

(* The loop over the buses goes on with device 0 and function 0.          *)
LEMMA BusSet ==
    ASSUME NEW p \in Place, NEW b \in Int, NEW f \in Int
    PROVE  [p EXCEPT !.bus = b, !.device = f, !.function = f] = PlaceOf(p.seg, b, f, f)
  <1> DEFINE q == [p EXCEPT !.bus = b, !.device = f, !.function = f]
  <1>1. q \in Place
    BY DEF Place
  <1>2. q.seg = p.seg /\ q.bus = b
    BY DEF Place
  <1>3. q.device = f /\ q.function = f
    BY DEF Place
  <1> HIDE DEF q
  <1>4. q = PlaceOf(p.seg, b, f, f)
    BY <1>1, <1>2, <1>3, PlaceIs
  <1> QED BY <1>4 DEF q

(* All the places the loops go on to, and those they look back to.        *)
LEMMA PlaceSteps ==
    ASSUME NEW p \in Place
    PROVE  /\ [p EXCEPT !.function = 0] = PlaceOf(p.seg, p.bus, p.device, 0)
           /\ [p EXCEPT !.device = 0, !.function = 0] = PlaceOf(p.seg, p.bus, 0, 0)
           /\ [p EXCEPT !.bus = @ + 1, !.device = 0, !.function = 0] = PlaceOf(p.seg, p.bus + 1, 0, 0)
           /\ [p EXCEPT !.device = @ + 1, !.function = 0] = PlaceOf(p.seg, p.bus, p.device + 1, 0)
           /\ [p EXCEPT !.function = @ + 1] = PlaceOf(p.seg, p.bus, p.device, p.function + 1)
  <1>1. p.seg \in Int /\ p.bus \in Int /\ p.device \in Int /\ p.function \in Int
    BY DEF Place
  <1> DEFINE b == p.bus + 1
             d == p.device + 1
             f == p.function + 1
  <1>2. b \in Int /\ d \in Int /\ f \in Int /\ 0 \in Int
    BY <1>1
  <1> HIDE DEF b, d, f
  <1>3. [p EXCEPT !.function = 0] = PlaceOf(p.seg, p.bus, p.device, 0)
    BY <1>2, FunctionSet, Zenon
  <1>4. [p EXCEPT !.device = 0, !.function = 0] = PlaceOf(p.seg, p.bus, 0, 0)
    BY <1>2, DeviceSet, Zenon
  <1>5. [p EXCEPT !.bus = b, !.device = 0, !.function = 0] = PlaceOf(p.seg, b, 0, 0)
    BY <1>2, BusSet, Zenon
  <1>6. [p EXCEPT !.device = d, !.function = 0] = PlaceOf(p.seg, p.bus, d, 0)
    BY <1>2, DeviceSet, Zenon
  <1>7. [p EXCEPT !.function = f] = PlaceOf(p.seg, p.bus, p.device, f)
    BY <1>2, FunctionSet, Zenon
  <1> QED BY <1>3, <1>4, <1>5, <1>6, <1>7, Zenon DEF b, d, f

(* Two places are one, or one of them is before the other. *)
LEMMA InOneOrder ==
    ASSUME NEW p \in Place, NEW q \in Place
    PROVE  /\ p = q \/ Before(p, q) \/ Before(q, p)
           /\ ~(Before(p, q) /\ Before(q, p)) /\ ~Before(p, p)
  <1>1. /\ p.seg \in Int /\ p.bus \in Int /\ p.device \in Int /\ p.function \in Int
        /\ q.seg \in Int /\ q.bus \in Int /\ q.device \in Int /\ q.function \in Int
    BY DEF Place
  <1>2. p.seg = q.seg /\ p.bus = q.bus /\ p.device = q.device /\ p.function = q.function => p = q
    BY PlaceIs
  <1> QED BY <1>1, <1>2 DEF Before

(* What is on the buses, place by place. *)
LEMMA OnTheBusesAre ==
    ASSUME segments \in Seq(Segment), PciAssumption
    PROVE  \A p : p \in OnTheBuses <=>
              Visited(p) /\ Present(p) # {} /\ DeviceThere(p) /\ BusThere(p)
  <1>1. ASSUME NEW p, p \in OnTheBuses
        PROVE  Visited(p) /\ Present(p) # {} /\ DeviceThere(p) /\ BusThere(p)
    <2>1. PICK s \in DOMAIN segments : \E f \in segments[s].functions :
                  p = [seg |-> s - 1, bus |-> f.bus, device |-> f.device, function |-> f.function]
      BY <1>1 DEF OnTheBuses
    <2>2. PICK f \in segments[s].functions :
                  p = [seg |-> s - 1, bus |-> f.bus, device |-> f.device, function |-> f.function]
      BY <2>1
    <2>3. s \in 1 .. Len(segments) /\ segments[s] \in Segment
      OBVIOUS
    <2>4. f \in Function /\ f.bus \in Nat /\ f.device \in 0 .. DEVICES - 1 /\ f.function \in 0 .. FUNCTIONS - 1
      BY <2>2, <2>3 DEF Segment, Function
    <2>5. p = PlaceOf(s - 1, f.bus, f.device, f.function)
      BY <2>2 DEF PlaceOf
    <2>6. /\ p \in Place /\ p.seg = s - 1 /\ p.bus = f.bus /\ p.device = f.device
          /\ p.function = f.function
      <3>1. s - 1 \in Int /\ f.bus \in Int /\ f.device \in Int /\ f.function \in Int
        BY <2>3, <2>4 DEF PciAssumption
      <3> DEFINE t == s - 1
                 b == f.bus
                 d == f.device
                 n == f.function
      <3>2. t \in Int /\ b \in Int /\ d \in Int /\ n \in Int /\ p = PlaceOf(t, b, d, n)
        BY <2>5, <3>1
      <3> HIDE DEF t, b, d, n
      <3>3. p \in Place /\ p.seg = t /\ p.bus = b /\ p.device = d /\ p.function = n
        BY <3>2, SMT DEF Place, PlaceOf
      <3> QED BY <3>3 DEF t, b, d, n
    <2>7. /\ p.bus >= segments[p.seg + 1].start /\ p.bus < segments[p.seg + 1].end
          /\ Present([p EXCEPT !.function = 0]) # {}
          /\ Present([p EXCEPT !.device = 0, !.function = 0]) # {}
      <3> DEFINE On(x) == /\ x.bus >= segments[x.seg + 1].start /\ x.bus < segments[x.seg + 1].end
                          /\ Present([x EXCEPT !.function = 0]) # {}
                          /\ Present([x EXCEPT !.device = 0, !.function = 0]) # {}
                 all == UNION {{[seg |-> t - 1, bus |-> g.bus, device |-> g.device,
                                 function |-> g.function] : g \in segments[t].functions} :
                                 t \in DOMAIN segments}
      <3>1. OnTheBuses = {x \in all : On(x)}
        BY Zenon DEF OnTheBuses
      <3> HIDE DEF On, all
      <3>2. On(p)
        BY <1>1, <3>1
      <3> QED BY <3>2, Zenon DEF On
    <2>8. DeviceThere(p) /\ BusThere(p)
      BY <2>6, <2>7, PlaceSteps DEF DeviceThere, BusThere
    <2>9. p.seg + 1 = s
      BY <2>3, <2>6
    <2>10. f \in Present(p)
      BY <2>2, <2>6, <2>9 DEF Present
    <2>11. segments[s].start \in Nat /\ segments[s].end \in Nat
      BY <2>3 DEF Segment
    <2> QED BY <2>3, <2>4, <2>6, <2>7, <2>8, <2>9, <2>10, <2>11 DEF Visited
  <1>2. ASSUME NEW p, Visited(p), Present(p) # {}, DeviceThere(p), BusThere(p)
        PROVE  p \in OnTheBuses
    <2>1. p \in Place /\ p.seg + 1 \in DOMAIN segments
      BY <1>2 DEF Visited
    <2>2. PICK f \in segments[p.seg + 1].functions :
                  f.bus = p.bus /\ f.device = p.device /\ f.function = p.function
      BY <1>2 DEF Present
    <2>3. p.seg \in Int /\ (p.seg + 1) - 1 = p.seg
      BY <2>1 DEF Place
    <2>4. p = [seg |-> (p.seg + 1) - 1, bus |-> f.bus, device |-> f.device, function |-> f.function]
      BY <2>1, <2>2, <2>3, PlaceIs DEF PlaceOf
    <2>5. segments[p.seg + 1].start \in Nat /\ segments[p.seg + 1].end \in Nat /\ p.bus \in Int
      <3>1. segments[p.seg + 1] \in Segment
        BY <2>1
      <3> QED BY <2>1, <3>1 DEF Segment, Place
    <2>6. p.bus >= segments[p.seg + 1].start /\ p.bus < segments[p.seg + 1].end
      BY <1>2, <2>5 DEF Visited
    <2>7. /\ Present([p EXCEPT !.function = 0]) # {}
          /\ Present([p EXCEPT !.device = 0, !.function = 0]) # {}
      BY <1>2, <2>1, PlaceSteps DEF DeviceThere, BusThere
    <2>8. p \in UNION {{[seg |-> s - 1, bus |-> f1.bus, device |-> f1.device, function |-> f1.function] :
                     f1 \in segments[s].functions} : s \in DOMAIN segments}
      BY <2>1, <2>2, <2>4
    <2> QED BY <2>6, <2>7, <2>8 DEF OnTheBuses
  <1> QED BY <1>1, <1>2
-----------------------------------------------------------------------------
(* The loops.  Leads(places, rest): they go on at places, which is one place  *)
(* or none, and rest is what is on the buses from there on.                  *)
Leads(places, rest) ==
    /\ places = {} => rest = {}
    /\ \A q \in places : /\ Visited(q) /\ Passed(q)
                         /\ rest = {p \in OnTheBuses : ~Before(p, q)}

RestOfSegments(seg) == {p \in OnTheBuses : p.seg >= seg}

(* A segment whose first bus is its end is passed by. *)
LEMMA FirstBusLeads ==
    ASSUME segments \in Seq(Segment), PciAssumption, NEW seg \in Nat
    PROVE  Leads(FirstBus(seg), RestOfSegments(seg))
  <1> DEFINE left == {s \in seg + 1 .. Len(segments) : segments[s].start < segments[s].end}
  <1>1. \A s \in 1 .. Len(segments) : segments[s].start \in Nat /\ segments[s].end \in Nat
    <2> SUFFICES ASSUME NEW s \in 1 .. Len(segments)
                 PROVE  segments[s].start \in Nat /\ segments[s].end \in Nat
      OBVIOUS
    <2>1. segments[s] \in Segment
      OBVIOUS
    <2> QED BY <2>1 DEF Segment
  <1>2. \A p \in OnTheBuses : p.seg >= seg => p.seg + 1 \in left
    <2> SUFFICES ASSUME NEW p \in OnTheBuses, p.seg >= seg PROVE p.seg + 1 \in left
      OBVIOUS
    <2>1. Visited(p)
      BY OnTheBusesAre
    <2>2. p.seg \in Int /\ p.bus \in Int
      BY <2>1 DEF Visited, Place
    <2> QED BY <1>1, <2>1, <2>2 DEF Visited
  <1>3. CASE left = {}
    <2>1. FirstBus(seg) = {}
      BY <1>3 DEF FirstBus
    <2>2. RestOfSegments(seg) = {}
      BY <1>2, <1>3 DEF RestOfSegments
    <2> QED BY <2>1, <2>2 DEF Leads
  <1>4. CASE left # {}
    <2> DEFINE s == CHOOSE s \in left : \A t \in left : s <= t
    <2>1. s \in left /\ \A t \in left : s <= t
      <3>1. left \in SUBSET Nat
        OBVIOUS
      <3> HIDE DEF left
      <3>2. \E n \in left : \A t \in left : n <= t
        BY <1>4, <3>1, LeastMember
      <3> QED BY <3>2
    <2> DEFINE q == [seg |-> s - 1, bus |-> segments[s].start, device |-> 0, function |-> 0]
    <2>2. FirstBus(seg) = {q}
      BY <1>4, Zenon DEF FirstBus
    <2> HIDE DEF s
    <2>3. s \in seg + 1 .. Len(segments) /\ segments[s].start < segments[s].end /\ s \in Int
      BY <2>1
    <2>4. segments[s].start \in Nat /\ segments[s].end \in Nat
      BY <1>1, <2>3
    <2>5. q = PlaceOf(s - 1, segments[s].start, 0, 0)
      BY DEF PlaceOf
    <2> HIDE DEF q
    <2> DEFINE a == s - 1
               b == segments[s].start
    <2>6. a \in Int /\ b \in Int /\ q = PlaceOf(a, b, 0, 0)
      BY <2>3, <2>4, <2>5
    <2> HIDE DEF a, b
    <2>7. q \in Place /\ q.seg = a /\ q.bus = b /\ q.device = 0 /\ q.function = 0
      BY <2>6 DEF Place, PlaceOf
    <2>8. a + 1 = s /\ a >= seg /\ b = segments[s].start
      BY <2>3 DEF a, b
    <2>9. Visited(q) /\ Passed(q)
      BY <2>3, <2>4, <2>7, <2>8 DEF Visited, Passed, PciAssumption
    <2>10. ASSUME NEW p \in OnTheBuses
           PROVE  p.seg >= seg <=> ~Before(p, q)
      <3>1. Visited(p)
        BY OnTheBusesAre
      <3>2. /\ p.seg \in Int /\ p.bus \in Int /\ p.device \in Int /\ p.function \in Int
            /\ p.device >= 0 /\ p.function >= 0
        BY <3>1 DEF Visited, Place, PciAssumption
      <3>3. p.seg >= seg => p.seg + 1 >= s
        <4>1. p.seg >= seg => p.seg + 1 \in left
          BY <1>2
        <4> HIDE DEF left
        <4> QED BY <2>1, <4>1
      <3>4. p.seg + 1 = s => p.bus >= b
        BY <2>8, <3>1 DEF Visited
      <3>5. p.seg >= seg <=> p.seg >= a
        BY <2>3, <2>6, <2>8, <3>2, <3>3
      <3>6. p.seg = a => p.bus >= b
        BY <2>6, <2>8, <3>2, <3>4
      <3>7. Before(p, q) <=> p.seg < a
        BY <2>6, <2>7, <3>2, <3>6 DEF Before
      <3> QED BY <2>6, <3>2, <3>5, <3>7
    <2>11. RestOfSegments(seg) = {p \in OnTheBuses : ~Before(p, q)}
      BY <2>10 DEF RestOfSegments
    <2> QED BY <2>2, <2>9, <2>11 DEF Leads
  <1> QED BY <1>3, <1>4

RestOfBuses(r) == {p \in OnTheBuses : p.seg > r.seg \/ (p.seg = r.seg /\ p.bus > r.bus)}
RestOfDevices(r) ==
    {p \in OnTheBuses : \/ p.seg > r.seg
                        \/ p.seg = r.seg /\ p.bus > r.bus
                        \/ p.seg = r.seg /\ p.bus = r.bus /\ p.device > r.device}
RestOfFunctions(r) == {p \in OnTheBuses : Before(r, p)}

(* The numbers of a place that is visited. *)
LEMMA VisitedIs ==
    ASSUME segments \in Seq(Segment), PciAssumption, NEW p, Visited(p)
    PROVE  /\ p \in Place /\ p.seg + 1 \in 1 .. Len(segments)
           /\ p.seg \in Nat /\ p.bus \in Nat /\ p.device \in Nat /\ p.function \in Nat
           /\ segments[p.seg + 1].start \in Nat /\ segments[p.seg + 1].end \in Nat
           /\ segments[p.seg + 1].start <= p.bus /\ p.bus < segments[p.seg + 1].end
           /\ p.device < DEVICES /\ p.function < FUNCTIONS
           /\ DEVICES \in Nat \ {0} /\ FUNCTIONS \in Nat \ {0}
  <1>1. p \in Place /\ p.seg + 1 \in 1 .. Len(segments)
    BY DEF Visited
  <1>2. segments[p.seg + 1] \in Segment
    BY <1>1
  <1>3. segments[p.seg + 1].start \in Nat /\ segments[p.seg + 1].end \in Nat
    BY <1>2 DEF Segment
  <1> QED BY <1>1, <1>3 DEF Visited, PciAssumption, Place

(* The next bus of the segment, or the next segment. *)
LEMMA NextBusLeads ==
    ASSUME segments \in Seq(Segment), PciAssumption, NEW r, Visited(r)
    PROVE  Leads(NextBus(r), RestOfBuses(r))
  <1>1. \A p \in OnTheBuses : /\ Visited(p)
                              /\ p.seg \in Nat /\ p.bus \in Nat /\ p.device \in Nat /\ p.function \in Nat
    BY OnTheBusesAre, VisitedIs
  <1>2. CASE bus_follows(r)
    <2> DEFINE b == r.bus + 1
               q == PlaceOf(r.seg, b, 0, 0)
    <2>1. NextBus(r) = {q}
      <3>1. [r EXCEPT !.bus = @ + 1, !.device = 0, !.function = 0] = q
        BY PlaceSteps, VisitedIs
      <3> HIDE DEF q
      <3> QED BY <1>2, <3>1, Zenon DEF NextBus
    <2>2. b \in Int /\ r.seg \in Int /\ b > r.bus /\ b < segments[r.seg + 1].end
          /\ \A n \in Nat : n > r.bus <=> n >= b
      BY <1>2, VisitedIs DEF bus_follows
    <2> HIDE DEF b
    <2>3. q \in Place /\ q.seg = r.seg /\ q.bus = b /\ q.device = 0 /\ q.function = 0
      BY <2>2 DEF Place, PlaceOf
    <2> HIDE DEF q
    <2>4. Visited(q) /\ Passed(q)
      <3>1. /\ r.seg + 1 \in 1 .. Len(segments) /\ r.bus \in Nat
            /\ segments[r.seg + 1].start \in Nat /\ segments[r.seg + 1].start <= r.bus
            /\ DEVICES \in Nat \ {0} /\ FUNCTIONS \in Nat \ {0}
        BY VisitedIs
      <3>2. 0 \in 0 .. DEVICES - 1 /\ 0 \in 0 .. FUNCTIONS - 1
        BY <3>1
      <3>3. segments[r.seg + 1].start <= b
        BY <2>2, <3>1
      <3>4. Visited(q)
        BY <2>2, <2>3, <3>1, <3>2, <3>3 DEF Visited
      <3> QED BY <2>3, <3>4 DEF Passed
    <2>5. RestOfBuses(r) = {p \in OnTheBuses : ~Before(p, q)}
      <3>1. ASSUME NEW p \in OnTheBuses
            PROVE  (p.seg > r.seg \/ (p.seg = r.seg /\ p.bus > r.bus)) <=> ~Before(p, q)
        <4>1. /\ p.seg \in Nat /\ p.bus \in Nat /\ p.device \in Nat /\ p.function \in Nat
              /\ r.seg \in Nat /\ r.bus \in Nat /\ b \in Int
          BY <1>1, <2>2, VisitedIs
        <4>2. p.bus > r.bus <=> p.bus >= b
          BY <2>2, <4>1
        <4> QED BY <2>3, <4>1, <4>2 DEF Before
      <3> QED BY <3>1 DEF RestOfBuses
    <2> QED BY <2>1, <2>4, <2>5 DEF Leads
  <1>3. CASE ~bus_follows(r)
    <2> DEFINE n == r.seg + 1
    <2>1. n \in Nat /\ NextBus(r) = FirstBus(n)
      BY <1>3, VisitedIs DEF NextBus
    <2>2. RestOfBuses(r) = RestOfSegments(n)
      <3>1. ASSUME NEW p \in OnTheBuses
            PROVE  (p.seg > r.seg \/ (p.seg = r.seg /\ p.bus > r.bus)) <=> p.seg >= n
        <4>1. Visited(p) /\ p.seg \in Nat /\ p.bus \in Nat
          BY <1>1
        <4>2. p.seg = r.seg => p.bus < segments[r.seg + 1].end
          BY <4>1 DEF Visited
        <4>3. r.seg \in Nat /\ r.bus \in Nat /\ segments[r.seg + 1].end \in Nat
          BY VisitedIs
        <4> DEFINE e == segments[r.seg + 1].end
        <4>4. e <= r.bus + 1 /\ e \in Nat
          BY <1>3, <4>3 DEF bus_follows
        <4>5. p.seg = r.seg => p.bus < e
          BY <4>2
        <4> HIDE DEF e
        <4> QED BY <4>1, <4>3, <4>4, <4>5
      <3> QED BY <3>1 DEF RestOfBuses, RestOfSegments
    <2> HIDE DEF n
    <2> QED BY <2>1, <2>2, FirstBusLeads
  <1> QED BY <1>2, <1>3

(* The next device of a bus that is there, or the next bus. *)
LEMMA NextDeviceLeads ==
    ASSUME segments \in Seq(Segment), PciAssumption, NEW r, Visited(r), BusThere(r)
    PROVE  Leads(NextDevice(r), RestOfDevices(r))
  <1>1. \A p \in OnTheBuses : /\ Visited(p) /\ p.device < DEVICES
                              /\ p.seg \in Nat /\ p.bus \in Nat /\ p.device \in Nat /\ p.function \in Nat
    BY OnTheBusesAre, VisitedIs
  <1>2. CASE r.device + 1 < DEVICES
    <2> DEFINE d == r.device + 1
               q == PlaceOf(r.seg, r.bus, d, 0)
    <2>1. NextDevice(r) = {q}
      <3>1. [r EXCEPT !.device = @ + 1, !.function = 0] = q
        BY PlaceSteps, VisitedIs
      <3> HIDE DEF q
      <3> QED BY <1>2, <3>1, Zenon DEF NextDevice
    <2>2. d \in Nat /\ r.seg \in Int /\ r.bus \in Int /\ d < DEVICES
          /\ \A n \in Nat : n > r.device <=> n >= d
      BY <1>2, VisitedIs
    <2> HIDE DEF d
    <2>3. q \in Place /\ q.seg = r.seg /\ q.bus = r.bus /\ q.device = d /\ q.function = 0
      BY <2>2 DEF Place, PlaceOf
    <2> HIDE DEF q
    <2>4. Visited(q) /\ Passed(q)
      BY <2>2, <2>3, VisitedIs DEF Visited, Passed, BusThere
    <2>5. RestOfDevices(r) = {p \in OnTheBuses : ~Before(p, q)}
      <3>1. ASSUME NEW p \in OnTheBuses
            PROVE  (\/ p.seg > r.seg
                    \/ p.seg = r.seg /\ p.bus > r.bus
                    \/ p.seg = r.seg /\ p.bus = r.bus /\ p.device > r.device) <=> ~Before(p, q)
        <4>1. /\ p.seg \in Nat /\ p.bus \in Nat /\ p.device \in Nat /\ p.function \in Nat
              /\ r.seg \in Nat /\ r.bus \in Nat /\ d \in Nat
          BY <1>1, <2>2, VisitedIs
        <4>2. p.device > r.device <=> p.device >= d
          BY <2>2, <4>1
        <4> QED BY <2>3, <4>1, <4>2 DEF Before
      <3> QED BY <3>1 DEF RestOfDevices
    <2> QED BY <2>1, <2>4, <2>5 DEF Leads
  <1>3. CASE ~(r.device + 1 < DEVICES)
    <2>1. NextDevice(r) = NextBus(r)
      BY <1>3 DEF NextDevice
    <2>2. RestOfDevices(r) = RestOfBuses(r)
      <3>1. ASSUME NEW p \in OnTheBuses
            PROVE  (\/ p.seg > r.seg
                    \/ p.seg = r.seg /\ p.bus > r.bus
                    \/ p.seg = r.seg /\ p.bus = r.bus /\ p.device > r.device)
                   <=> (p.seg > r.seg \/ (p.seg = r.seg /\ p.bus > r.bus))
        <4>1. /\ p.device \in Nat /\ p.device < DEVICES /\ r.device \in Nat /\ DEVICES \in Nat
          BY <1>1, VisitedIs
        <4>2. ~(p.device > r.device)
          BY <1>3, <4>1
        <4> QED BY <4>2
      <3> QED BY <3>1 DEF RestOfDevices, RestOfBuses
    <2> QED BY <2>1, <2>2, NextBusLeads
  <1> QED BY <1>2, <1>3

(* The next function of a device that is there, or the next device. *)
LEMMA NextFunctionLeads ==
    ASSUME segments \in Seq(Segment), PciAssumption, NEW r, Visited(r), BusThere(r), DeviceThere(r)
    PROVE  Leads(NextFunction(r), RestOfFunctions(r))
  <1>1. \A p \in OnTheBuses : /\ Visited(p) /\ p.function < FUNCTIONS
                              /\ p.seg \in Nat /\ p.bus \in Nat /\ p.device \in Nat /\ p.function \in Nat
    BY OnTheBusesAre, VisitedIs
  <1>2. CASE r.function + 1 < FUNCTIONS
    <2> DEFINE f == r.function + 1
               q == PlaceOf(r.seg, r.bus, r.device, f)
    <2>1. NextFunction(r) = {q}
      <3>1. [r EXCEPT !.function = @ + 1] = q
        BY PlaceSteps, VisitedIs
      <3> HIDE DEF q
      <3> QED BY <1>2, <3>1, Zenon DEF NextFunction
    <2>2. f \in Nat /\ r.seg \in Int /\ r.bus \in Int /\ r.device \in Int /\ f < FUNCTIONS
          /\ \A n \in Nat : n > r.function <=> n >= f
      BY <1>2, VisitedIs
    <2> HIDE DEF f
    <2>3. q \in Place /\ q.seg = r.seg /\ q.bus = r.bus /\ q.device = r.device /\ q.function = f
      BY <2>2 DEF Place, PlaceOf
    <2> HIDE DEF q
    <2>4. Visited(q) /\ Passed(q)
      BY <2>2, <2>3, VisitedIs DEF Visited, Passed, BusThere, DeviceThere
    <2>5. RestOfFunctions(r) = {p \in OnTheBuses : ~Before(p, q)}
      <3>1. ASSUME NEW p \in OnTheBuses PROVE Before(r, p) <=> ~Before(p, q)
        <4>1. /\ p.seg \in Nat /\ p.bus \in Nat /\ p.device \in Nat /\ p.function \in Nat
              /\ r.seg \in Nat /\ r.bus \in Nat /\ r.device \in Nat /\ f \in Nat
          BY <1>1, <2>2, VisitedIs
        <4>2. r.function < p.function <=> p.function >= f
          BY <2>2, <4>1
        <4> QED BY <2>3, <4>1, <4>2 DEF Before
      <3> QED BY <3>1 DEF RestOfFunctions
    <2> QED BY <2>1, <2>4, <2>5 DEF Leads
  <1>3. CASE ~(r.function + 1 < FUNCTIONS)
    <2>1. NextFunction(r) = NextDevice(r)
      BY <1>3 DEF NextFunction
    <2>2. RestOfFunctions(r) = RestOfDevices(r)
      <3>1. ASSUME NEW p \in OnTheBuses
            PROVE  Before(r, p) <=> \/ p.seg > r.seg
                                    \/ p.seg = r.seg /\ p.bus > r.bus
                                    \/ p.seg = r.seg /\ p.bus = r.bus /\ p.device > r.device
        BY <1>1, <1>3, VisitedIs DEF Before
      <3> QED BY <3>1 DEF RestOfFunctions, RestOfDevices
    <2> QED BY <2>1, <2>2, NextDeviceLeads
  <1> QED BY <1>2, <1>3

-----------------------------------------------------------------------------
(* The steps of the load.                                                   *)
(* What is on the buses is what the segments say. *)
LEMMA BusesStay ==
    ASSUME segments' = segments
    PROVE  /\ OnTheBuses' = OnTheBuses
           /\ \A p : (Visited(p)' <=> Visited(p)) /\ (Passed(p)' <=> Passed(p))
           /\ \A p : Present(p)' = Present(p)
  <1>1. \A p : Present(p)' = Present(p)
    BY DEF Present
  <1>2. OnTheBuses' = OnTheBuses
    <2> DEFINE On(x) == /\ x.bus >= segments[x.seg + 1].start /\ x.bus < segments[x.seg + 1].end
                        /\ Present([x EXCEPT !.function = 0]) # {}
                        /\ Present([x EXCEPT !.device = 0, !.function = 0]) # {}
               all == UNION {{[seg |-> t - 1, bus |-> g.bus, device |-> g.device,
                               function |-> g.function] : g \in segments[t].functions} :
                               t \in DOMAIN segments}
    <2>1. OnTheBuses = {x \in all : On(x)} /\ OnTheBuses' = {x \in all' : On(x)'}
      BY Zenon DEF OnTheBuses
    <2>2. all' = all
      BY SMT
    <2>3. \A x : On(x)' <=> On(x)
      <3> SUFFICES ASSUME NEW x PROVE On(x)' <=> On(x)
        OBVIOUS
      <3>1. /\ Present([x EXCEPT !.function = 0])' = Present([x EXCEPT !.function = 0])
            /\ Present([x EXCEPT !.device = 0, !.function = 0])'
                 = Present([x EXCEPT !.device = 0, !.function = 0])
        BY <1>1, Zenon
      <3> QED BY <3>1, Zenon
    <2> HIDE DEF On, all
    <2> QED BY <2>1, <2>2, <2>3, Zenon
  <1>3. \A p : Visited(p)' <=> Visited(p)
    BY DEF Visited
  <1>4. \A p : Passed(p)' <=> Passed(p)
    BY <1>1 DEF Passed, DeviceThere, BusThere
  <1> QED BY <1>1, <1>2, <1>3, <1>4

(* At a function that is there, or behind the first of a device, the device  *)
(* and the bus are there.                                                  *)
LEMMA DeviceAndBusThere ==
    ASSUME NEW p, Visited(p), Passed(p), PciAssumption, segments \in Seq(Segment),
           Present(p) # {} \/ p.function > 0
    PROVE  DeviceThere(p) /\ BusThere(p)
  <1>1. /\ p \in Place /\ p.device \in Nat /\ p.function \in Nat
        /\ p = PlaceOf(p.seg, p.bus, p.device, p.function)
    BY VisitedIs, PlaceIs
  <1>2. DeviceThere(p)
    <2>1. CASE p.function > 0
      BY <2>1 DEF Passed
    <2>2. CASE p.function = 0
      <3>1. p = PlaceOf(p.seg, p.bus, p.device, 0)
        BY <1>1, <2>2
      <3>2. Present(p) # {}
        BY <1>1, <2>2
      <3> QED BY <3>1, <3>2 DEF DeviceThere
    <2> QED BY <1>1, <2>1, <2>2
  <1>3. BusThere(p)
    <2>1. CASE p.device > 0
      BY <2>1 DEF Passed
    <2>2. CASE p.device = 0
      BY <1>2, <2>2 DEF DeviceThere, BusThere
    <2> QED BY <1>1, <2>1, <2>2
  <1> QED BY <1>2, <1>3

(* The load goes on at the next place with the list as it is there, or ends. *)
LEMMA LoadGoesOn ==
    ASSUME PciInv, segments' = segments, pc \notin Unloaded, pc' = pc,
           NEW places, NEW rest, Leads(places, rest), load_at(places),
           ~cached, cache' \in Seq(Place), entries' = Len(cache'),
           \A i, j \in DOMAIN cache' : i # j => cache'[i] # cache'[j],
           Listed' = OnTheBuses \ rest, rest \subseteq OnTheBuses
    PROVE  PciInv'
  <1>1. segments' \in Seq(Segment) /\ OnTheBuses' = OnTheBuses
    BY BusesStay DEF PciInv
  <1>2. CASE places = {}
    <2>1. loading' = "no" /\ cached' = TRUE /\ rest = {}
      BY <1>2 DEF load_at, Leads
    <2>2. Listed' = OnTheBuses'
      BY <1>1, <2>1
    <2> QED BY <1>1, <2>1, <2>2 DEF PciInv
  <1>3. CASE places # {}
    <2>1. at' \in places /\ loading' = "look" /\ cached' = cached
      BY <1>3 DEF load_at
    <2>2. Visited(at') /\ Passed(at') /\ rest = {p \in OnTheBuses : ~Before(p, at')}
      BY <2>1 DEF Leads
    <2>3. Visited(at)' /\ Passed(at)'
      BY <2>2 DEF Visited, Passed, DeviceThere, BusThere, Present
    <2>4. Listed' = {p \in OnTheBuses : Before(p, at')}
      BY <2>2
    <2>5. cached' = FALSE
      BY <2>1 DEF PciInv
    <2>6. Listed' = {p \in OnTheBuses : Before(p, at)}'
      BY <1>1, <2>4
    <2> QED BY <1>1, <2>1, <2>3, <2>5, <2>6 DEF PciInv
  <1> QED BY <1>2, <1>3

(* A function, a device or a bus that is not there is passed by: nothing on   *)
(* it would be listed.                                                     *)
LEMMA SkipStep ==
    ASSUME PciInv, PciAssumption, load_cache_skips, pc \notin Unloaded, pc' = pc
    PROVE  PciInv'
  <1>1. /\ loading = "look" /\ Present(at) = {} /\ segments' = segments /\ entries' = entries
        /\ cache' = cache /\ segments \in Seq(Segment) /\ cache \in Seq(Place)
        /\ Visited(at) /\ Passed(at) /\ ~cached /\ Listed = {p \in OnTheBuses : Before(p, at)}
        /\ load_at(IF at.function > 0 THEN NextFunction(at)
                   ELSE IF at.device > 0 THEN NextDevice(at) ELSE NextBus(at))
    BY DEF load_cache_skips, PciInv
  <1>2. /\ at \in Place /\ at.device \in Nat /\ at.function \in Nat
        /\ at = PlaceOf(at.seg, at.bus, at.device, at.function)
    BY <1>1, VisitedIs, PlaceIs
  <1>3. \A p \in OnTheBuses : p \in Place /\ Present(p) # {} /\ DeviceThere(p) /\ BusThere(p)
    BY <1>1, OnTheBusesAre DEF Visited
  <1>4. entries' = Len(cache') /\ cache' \in Seq(Place) /\ Listed' = Listed
        /\ \A i, j \in DOMAIN cache' : i # j => cache'[i] # cache'[j]
    BY <1>1 DEF PciInv, Listed
  <1>5. ASSUME NEW places, NEW rest, Leads(places, rest), load_at(places),
               \A p \in OnTheBuses : p \in rest <=> ~Before(p, at), rest \subseteq OnTheBuses
        PROVE  PciInv'
    <2>1. Listed' = OnTheBuses \ rest
      BY <1>1, <1>4, <1>5
    <2> QED BY <1>1, <1>4, <1>5, <2>1, LoadGoesOn
  <1>6. \A p \in OnTheBuses : p # at /\ (Before(at, p) <=> ~Before(p, at))
    BY <1>1, <1>2, <1>3, InOneOrder
  <1>7. CASE at.function > 0
    <2>1. Leads(NextFunction(at), RestOfFunctions(at))
      BY <1>1, <1>7, DeviceAndBusThere, NextFunctionLeads
    <2>2. \A p \in OnTheBuses : p \in RestOfFunctions(at) <=> ~Before(p, at)
      BY <1>6 DEF RestOfFunctions
    <2>3. RestOfFunctions(at) \subseteq OnTheBuses
      BY DEF RestOfFunctions
    <2> QED BY <1>1, <1>5, <1>7, <2>1, <2>2, <2>3
  <1>8. CASE at.function = 0 /\ at.device > 0
    <2>1. BusThere(at)
      BY <1>1, <1>8 DEF Passed
    <2>2. Leads(NextDevice(at), RestOfDevices(at))
      BY <1>1, <2>1, NextDeviceLeads
    <2>3. ASSUME NEW p \in OnTheBuses
          PROVE  p \in RestOfDevices(at) <=> ~Before(p, at)
      <3>1. ~(p.seg = at.seg /\ p.bus = at.bus /\ p.device = at.device)
        BY <1>1, <1>2, <1>3, <1>8 DEF DeviceThere
      <3>2. p \in RestOfDevices(at) <=>
              \/ p.seg > at.seg
              \/ p.seg = at.seg /\ p.bus > at.bus
              \/ p.seg = at.seg /\ p.bus = at.bus /\ p.device > at.device
        BY DEF RestOfDevices
      <3>3. ~Before(p, at) <=> Before(at, p)
        BY <1>6
      <3>4. /\ p.seg \in Int /\ p.bus \in Int /\ p.device \in Int
            /\ at.seg \in Int /\ at.bus \in Int
        BY <1>2, <1>3 DEF Place
      <3> QED BY <1>2, <3>1, <3>2, <3>3, <3>4 DEF Before
    <2>4. RestOfDevices(at) \subseteq OnTheBuses
      BY DEF RestOfDevices
    <2> QED BY <1>1, <1>5, <1>8, <2>2, <2>3, <2>4
  <1>9. CASE at.function = 0 /\ at.device = 0
    <2>1. Leads(NextBus(at), RestOfBuses(at))
      BY <1>1, NextBusLeads
    <2>2. ASSUME NEW p \in OnTheBuses
          PROVE  p \in RestOfBuses(at) <=> ~Before(p, at)
      <3>1. ~(p.seg = at.seg /\ p.bus = at.bus)
        BY <1>1, <1>2, <1>3, <1>9 DEF BusThere
      <3>2. p \in RestOfBuses(at) <=> p.seg > at.seg \/ (p.seg = at.seg /\ p.bus > at.bus)
        BY DEF RestOfBuses
      <3>3. ~Before(p, at) <=> Before(at, p)
        BY <1>6
      <3>4. p.seg \in Int /\ p.bus \in Int /\ at.seg \in Int /\ at.bus \in Int
        BY <1>2, <1>3 DEF Place
      <3> QED BY <3>1, <3>2, <3>3, <3>4 DEF Before
    <2>3. RestOfBuses(at) \subseteq OnTheBuses
      BY DEF RestOfBuses
    <2> QED BY <1>1, <1>5, <1>9, <2>1, <2>2, <2>3
  <1> QED BY <1>2, <1>7, <1>8, <1>9

(* A function is counted. *)
LEMMA CountStep ==
    ASSUME PciInv, load_cache_counts, pc \notin Unloaded, pc' = pc
    PROVE  PciInv'
  <1>1. /\ loading = "look" /\ Present(at) # {} /\ segments' = segments /\ entries' = entries + 1
        /\ cache' = cache /\ at' = at /\ cached' = cached /\ loading' = "fill"
        /\ entries = Len(cache) /\ cache \in Seq(Place)
    BY DEF load_cache_counts, PciInv
  <1>2. OnTheBuses' = OnTheBuses /\ Listed' = Listed /\ Present(at)' = Present(at)
    BY <1>1, BusesStay DEF Listed, Present
  <1>3. (Visited(at) /\ Passed(at))'
    BY <1>1 DEF PciInv, Visited, Passed, DeviceThere, BusThere, Present
  <1>4. Listed' = {p \in OnTheBuses : Before(p, at)}'
    BY <1>1, <1>2 DEF PciInv
  <1>5. entries' = Len(cache') + 1
    BY <1>1
  <1> QED BY <1>1, <1>2, <1>3, <1>4, <1>5 DEF PciInv

(* It is filled in, behind all those in front of it. *)
LEMMA FillStep ==
    ASSUME PciInv, PciAssumption, load_cache_fills, pc \notin Unloaded, pc' = pc
    PROVE  PciInv'
  <1>1. /\ loading = "fill" /\ Present(at) # {} /\ segments' = segments /\ entries' = entries
        /\ cache' = Append(cache, at) /\ segments \in Seq(Segment) /\ cache \in Seq(Place)
        /\ Visited(at) /\ Passed(at) /\ ~cached /\ Listed = {p \in OnTheBuses : Before(p, at)}
        /\ load_at(NextFunction(at)) /\ entries = Len(cache) + 1
    BY DEF load_cache_fills, PciInv
  <1>2. DeviceThere(at) /\ BusThere(at) /\ at \in OnTheBuses /\ at \in Place
    BY <1>1, DeviceAndBusThere, OnTheBusesAre DEF Visited
  <1>3. cache' \in Seq(Place) /\ Len(cache') = Len(cache) + 1 /\ entries' = Len(cache')
        /\ cache'[Len(cache) + 1] = at /\ \A i \in 1 .. Len(cache) : cache'[i] = cache[i]
    BY <1>1, <1>2
  <1>4. DOMAIN cache = 1 .. Len(cache) /\ DOMAIN cache' = 1 .. Len(cache) + 1
    BY <1>1, <1>3
  <1>5. Listed' = Listed \cup {at}
    BY <1>3, <1>4 DEF Listed
  <1>6. at \notin Listed
    BY <1>1, <1>2, InOneOrder
  <1>7. \A i, j \in DOMAIN cache' : i # j => cache'[i] # cache'[j]
    <2>1. \A i \in DOMAIN cache : cache[i] # at
      BY <1>6 DEF Listed
    <2>2. \A i, j \in DOMAIN cache : i # j => cache[i] # cache[j]
      BY DEF PciInv
    <2> QED BY <1>3, <1>4, <2>1, <2>2
  <1>8. Leads(NextFunction(at), RestOfFunctions(at))
    BY <1>1, <1>2, NextFunctionLeads
  <1>9. \A p \in OnTheBuses : p \in Place
    BY <1>1, OnTheBusesAre DEF Visited
  <1>10. \A p \in OnTheBuses : Before(at, p) <=> ~(Before(p, at) \/ p = at)
    BY <1>2, <1>9, InOneOrder
  <1>11. Listed' = OnTheBuses \ RestOfFunctions(at) /\ RestOfFunctions(at) \subseteq OnTheBuses
    BY <1>1, <1>2, <1>5, <1>10 DEF RestOfFunctions
  <1> QED BY <1>1, <1>3, <1>7, <1>8, <1>11, LoadGoesOn

(* The load begins at the first bus of the first segment that has one. *)
LEMMA BeginStep ==
    ASSUME PciInv, PciAssumption, pci_load_begins
    PROVE  PciInv'
  <1>1. /\ pc = "pci" /\ pc' = "pci_load" /\ loading = "no" /\ ~cached /\ cache = <<>> /\ entries = 0
        /\ segments' = segments /\ entries' = entries /\ cache' = cache
        /\ segments \in Seq(Segment)
    BY DEF pci_load_begins, load_cache_begins, GoTo, PciInv, Unloaded, Places, EarlyPlaces, SerialPlaces,
           TimerPlaces, PitPlaces, LatePlaces, KbdPlaces
  <1>2. pc' \notin Unloaded
    BY <1>1 DEF Unloaded
  <1>3. entries' = Len(cache') /\ cache' \in Seq(Place) /\ DOMAIN cache' = {} /\ Listed' = {}
    BY <1>1 DEF Listed
  <1>4. OnTheBuses' = OnTheBuses
    BY <1>1, BusesStay
  <1>5. CASE acpi_get_table(machine, "MCFG", 0) # NULL
    <2>1. load_at(FirstBus(0))
      BY <1>5 DEF pci_load_begins, load_cache_begins
    <2>2. Leads(FirstBus(0), RestOfSegments(0))
      BY <1>1, FirstBusLeads
    <2>3. RestOfSegments(0) = OnTheBuses
      <3>1. \A p \in OnTheBuses : p.seg \in Nat
        BY <1>1, OnTheBusesAre, VisitedIs
      <3> QED BY <3>1 DEF RestOfSegments
    <2>4. CASE FirstBus(0) = {}
      <3>1. loading' = "no" /\ cached' = TRUE /\ OnTheBuses = {}
        BY <2>1, <2>2, <2>3, <2>4 DEF load_at, Leads
      <3> QED BY <1>1, <1>2, <1>3, <1>4, <3>1 DEF PciInv
    <2>5. CASE FirstBus(0) # {}
      <3>1. at' \in FirstBus(0) /\ loading' = "look" /\ cached' = cached
        BY <2>1, <2>5 DEF load_at
      <3>2. Visited(at') /\ Passed(at') /\ OnTheBuses = {p \in OnTheBuses : ~Before(p, at')}
        BY <2>2, <2>3, <3>1 DEF Leads
      <3>3. (Visited(at) /\ Passed(at))'
        BY <1>1, <3>2 DEF Visited, Passed, DeviceThere, BusThere, Present
      <3>4. Listed' = {p \in OnTheBuses : Before(p, at)}'
        <4>1. \A p \in OnTheBuses : ~Before(p, at')
          BY <3>2
        <4> QED BY <1>3, <1>4, <4>1
      <3> QED BY <1>1, <1>2, <1>3, <3>1, <3>3, <3>4 DEF PciInv
    <2> QED BY <2>4, <2>5
  <1>6. CASE acpi_get_table(machine, "MCFG", 0) = NULL
    <2>1. at' = at /\ loading' = loading /\ cached' = cached
      BY <1>6 DEF pci_load_begins, load_cache_begins
    <2> QED BY <1>1, <1>2, <1>3, <2>1 DEF PciInv
  <1> QED BY <1>5, <1>6

(* Every other step leaves the list alone, and comes to no place in front of  *)
(* the load from one behind it.                                            *)
LEMMA PciIdle ==
    ASSUME PciInv, UNCHANGED pci_vars, pc' \in Unloaded => pc \in Unloaded
    PROVE  PciInv'
  <1>1. /\ segments' = segments /\ cache' = cache /\ loading' = loading /\ entries' = entries
        /\ cached' = cached /\ at' = at
    BY DEF pci_vars
  <1>2. OnTheBuses' = OnTheBuses /\ Listed' = Listed
    BY <1>1, BusesStay DEF Listed
  <1>3. Present(at)' = Present(at) /\ (Visited(at)' <=> Visited(at)) /\ (Passed(at)' <=> Passed(at))
    BY <1>1 DEF Visited, Passed, DeviceThere, BusThere, Present
  <1>4. {p \in OnTheBuses : Before(p, at)}' = {p \in OnTheBuses : Before(p, at)}
    BY <1>1, <1>2
  <1> QED BY <1>1, <1>2, <1>3, <1>4 DEF PciInv

(* Before the boot nothing is loaded. *)
LEMMA PciBegins == BootInit => PciInv
  <1> SUFFICES ASSUME BootInit PROVE PciInv
    OBVIOUS
  <1>1. machine \in Machines /\ segments = machine.segments /\ cache = <<>> /\ entries = 0
        /\ loading = "no" /\ cached = FALSE
    BY DEF BootInit, PciInit
  <1>2. segments \in Seq(Segment)
    BY <1>1, BootAssumption DEF BootAssumption, Segment, Function
  <1>3. cache \in Seq(Place) /\ Len(cache) = 0 /\ DOMAIN cache = {}
    BY <1>1
  <1>4. entries = Len(cache) + (IF loading = "fill" THEN 1 ELSE 0)
    BY <1>1, <1>3
  <1>5. \A i, j \in DOMAIN cache : i # j => cache[i] # cache[j]
    BY <1>3
  <1> QED BY <1>1, <1>2, <1>3, <1>4, <1>5, Zenon DEF PciInv

(* Where the boot goes; an interrupt leaves it where it is or stops it.      *)
LEMMA PlacesMove ==
    ASSUME BootNext, UNCHANGED pci_vars
    PROVE  pc' \in Unloaded => pc \in Unloaded
  <1> USE DEF Unloaded, Places, EarlyPlaces, SerialPlaces, TimerPlaces, PitPlaces, LatePlaces, KbdPlaces
  <1>1. CASE Wires
    BY <1>1 DEF Wires, InterruptSteps, TimerSteps, pic_remap_offsets, pic_disable, configure_local_apic,
       configure_io_apic, serial_select_input_port, serial_set_input_masked, local_timer_calibrate, pit_enable,
       pit_unmask, pit_deadline_wait, pit_disable, idt_free_vector, local_timer_set_frequency, GoTo, Dies,
       wire_line, unmask
  <1>2. CASE pci_load_begins \/ pci_loads \/ pci_load_ends \/ load_shell \/ ps2_kbd_wire \/ ps2_kbd_unmask
             \/ ps2_kbd_init_ends
    BY <1>2 DEF pci_load_begins, pci_loads, pci_load_ends, load_shell, ps2_kbd_wire, ps2_kbd_unmask,
       ps2_kbd_init_ends, GoTo, Dies, wire_line, unmask, interrupts_vars
  <1>3. CASE OldLine \/ Tick \/ Ticked
    BY <1>3 DEF OldLine, OldLineRises, Tick, Ticked, PitRises, Delivered, Dies
  <1>4. CASE Commands
    BY <1>4 DEF Commands, pci_command, disk_command_dies, disk_command_hangs, disk_command, disktest_command, Stops,
       interrupts_vars
  <1>5. CASE KeyboardSends \/ kernel_disk \/ DriverSteps \/ DiskTests \/ \E p \in Ports : Engine(p) \/ Drive(p)
    BY <1>5 DEF KeyboardSends, kernel_disk, DriverSteps, DiskTests, Engine, Drive, interrupts_vars
  <1> QED BY <1>1, <1>2, <1>3, <1>4, <1>5 DEF BootNext, BootSteps

(* Every step of the boot. *)
LEMMA PciNextInv == PciInv /\ [BootNext]_boot_vars => PciInv'
  <1> SUFFICES ASSUME PciInv, [BootNext]_boot_vars PROVE PciInv'
    OBVIOUS
  <1>1. CASE pci_load_begins
    BY <1>1, BeginStep, PciAssumption
  <1>2. CASE pci_loads
    <2>1. pc' = pc /\ pc \notin Unloaded /\ pci_conf_load_cache
      BY <1>2 DEF pci_loads, interrupts_vars, Unloaded
    <2> QED BY <2>1, SkipStep, CountStep, FillStep, PciAssumption DEF pci_conf_load_cache
  <1>3. CASE UNCHANGED boot_vars
    BY <1>3, PciIdle DEF boot_vars, interrupts_vars
  <1>4. CASE BootNext /\ ~pci_load_begins /\ ~pci_loads
    <2>1. UNCHANGED pci_vars
      BY <1>4 DEF BootNext, BootSteps, Wires, pci_load_ends, load_shell, ps2_kbd_wire, ps2_kbd_unmask,
         ps2_kbd_init_ends, OldLine, Tick, Ticked, KeyboardSends, Commands, pci_command, disk_command_dies,
         disk_command_hangs, disk_command, disktest_command, Stops, kernel_disk, DriverSteps, DiskTests, Engine, Drive
    <2> QED BY <1>4, <2>1, PlacesMove, PciIdle
  <1> QED BY <1>1, <1>2, <1>3, <1>4

(* What the list is when the load has ended, and while it runs.              *)
LEMMA ListIsBus == PciInv => CacheIsTheBus
  <1> SUFFICES ASSUME PciInv PROVE CacheIsTheBus
    OBVIOUS
  <1>1. \A i, j \in DOMAIN cache : i # j => cache[i] # cache[j]
    BY DEF PciInv
  <1>2. Listed \subseteq OnTheBuses
    BY DEF PciInv, Listed
  <1>3. entries \in {Len(cache), Len(cache) + 1}
    <2>1. Len(cache) \in Nat
      BY DEF PciInv
    <2> QED BY <2>1 DEF PciInv
  <1>4. ASSUME cached
        PROVE  /\ Listed = OnTheBuses /\ entries = Len(cache)
               /\ \A p \in OnTheBuses : pci_conf_read_target(p) = pci_conf_write_targets(p)
    <2>1. loading = "no" /\ Listed = OnTheBuses /\ Len(cache) \in Nat
      BY <1>4 DEF PciInv
    <2>2. entries = Len(cache)
      BY <2>1 DEF PciInv
    <2>3. ASSUME NEW p \in OnTheBuses
          PROVE  pci_conf_read_target(p) = pci_conf_write_targets(p)
      <3>1. DOMAIN cache \subseteq Nat
        BY DEF PciInv
      <3>2. \A i, k \in pci_conf_write_targets(p) : i <= k
        BY <1>1, <3>1 DEF pci_conf_write_targets
      <3> QED BY <3>2 DEF pci_conf_read_target
    <2> QED BY <2>1, <2>2, <2>3
  <1> QED BY <1>1, <1>2, <1>3, <1>4 DEF CacheIsTheBus, Listed

(* However many segments, buses, devices and functions there are, and         *)
(* whatever the serial console does meanwhile: pci_conf_load_cache lists the  *)
(* functions on the buses it visits, each once, and nothing else.            *)
THEOREM ListIsTheBus == BootSpec => []CacheIsTheBus
  <1>1. BootInit => PciInv
    BY PciBegins
  <1>2. PciInv /\ [BootNext]_boot_vars => PciInv'
    BY PciNextInv
  <1>3. PciInv => CacheIsTheBus
    BY ListIsBus
  <1> QED BY <1>1, <1>2, <1>3, PTL DEF BootSpec

-----------------------------------------------------------------------------
(* Where a machine as the kernel expects it may stop.  The I/O APIC is found; *)
(* the only messages under way are ticks of the PIT, and while its vector is  *)
(* allocated a tick has a handler; so nothing stops the boot but what         *)
(* StopsOnlyInWindows names.                                               *)
Ticks == {"deadline", "pit_off", "pit_free", "timer_runs"}

TickVector(v) ==
    \/ v = NextVector
    \/ machine.com /\ v = SerialVector

Kept ==
    /\ pc \in {"serial"} \cup SerialPlaces => Reachable(ioapics)
    /\ message # NONE /\ pc \in Places => pc \in Ticks /\ TickVector(message)
    /\ StopsOnlyInWindows

StopInv == Sound => Kept

(* What the machine is does not change. *)
LEMMA MachineStays ==
    ASSUME [BootNext]_boot_vars
    PROVE  machine' = machine /\ segments' = segments /\ drives' = drives
  <1>1. CASE Wires
    BY <1>1 DEF Wires, InterruptSteps, TimerSteps, pic_remap_offsets, pic_disable, configure_local_apic,
       configure_io_apic, serial_select_input_port, serial_set_input_masked, local_timer_calibrate, pit_enable,
       pit_unmask, pit_deadline_wait, pit_disable, idt_free_vector, local_timer_set_frequency, GoTo, Dies,
       wire_line, unmask, pci_vars, ahci_vars
  <1>2. CASE pci_load_begins \/ pci_loads \/ pci_load_ends \/ load_shell \/ ps2_kbd_wire \/ ps2_kbd_unmask
             \/ ps2_kbd_init_ends
    BY <1>2 DEF pci_load_begins, pci_loads, pci_load_ends, load_shell, ps2_kbd_wire, ps2_kbd_unmask,
       ps2_kbd_init_ends, GoTo, Dies, wire_line, unmask, interrupts_vars, pci_vars, ahci_vars,
       load_cache_begins, pci_conf_load_cache, load_cache_skips, load_cache_counts, load_cache_fills
  <1>3. CASE OldLine \/ Tick \/ Ticked
    BY <1>3 DEF OldLine, OldLineRises, Tick, Ticked, PitRises, Delivered, Dies, pci_vars, ahci_vars
  <1>4. CASE Commands
    BY <1>4 DEF Commands, pci_command, disk_command_dies, disk_command_hangs, disk_command, disktest_command, Stops,
       interrupts_vars, pci_vars, ahci_vars, console_loads, load_gives_up, disktest_begins, TestGoesTo
  <1>5. CASE kernel_disk
    BY <1>5 DEF kernel_disk, kernel_loads, restart_port, stop_begins, read_begins, interrupts_vars, pci_vars
  <1>6. CASE DriverSteps \/ DiskTests
    BY <1>6 DEF DriverSteps, AhciSteps, ahci_controller_register_port, probe_ends, configure_port, stop_begins,
       stop_ends, ahci_drive_command_start, DiskTests, DisktestSteps, test_begins, test_gives_up, test_issues,
       test_fails, test_succeeds, NextTest, TestGoesTo, read_gives_up, read_issues, read_fails, read_succeeds, ReadGoesTo, interrupts_vars, pci_vars
  <1>7. CASE KeyboardSends \/ (\E p \in Ports : Engine(p) \/ Drive(p)) \/ UNCHANGED boot_vars
    BY <1>7 DEF KeyboardSends, Engine, Drive, EngineFollows, DriveAnswers, Rest, boot_vars, interrupts_vars,
       pci_vars, ahci_vars
  <1> QED BY <1>1, <1>2, <1>3, <1>4, <1>5, <1>6, <1>7 DEF BootNext, BootSteps

(* A machine as the kernel expects it remains one. *)
LEMMA SoundStays ==
    ASSUME [BootNext]_boot_vars, PciInv
    PROVE  Sound' <=> Sound
  <1>1. machine' = machine /\ segments' = segments /\ drives' = drives
    BY MachineStays
  <1>2. OnTheBuses' = OnTheBuses
    BY <1>1, BusesStay
  <1>3. \A p : ClassOf(p)' = ClassOf(p)
    BY <1>1 DEF ClassOf, Present
  <1> QED BY <1>1, <1>2, <1>3 DEF Sound, SeenWhole

(* Once the list is made the commands find in it what they look for.         *)
LEMMA ListServes ==
    ASSUME PciInv, Sound, cached
    PROVE  entries = Len(cache) /\ find_device("ahci") # {}
  <1>1. loading = "no" /\ Listed = OnTheBuses /\ Len(cache) \in Nat /\ DOMAIN cache \subseteq Nat
    BY DEF PciInv
  <1>2. entries = Len(cache)
    BY <1>1 DEF PciInv
  <1> DEFINE found == {i \in DOMAIN cache : "ahci" \in ClassOf(cache[i])}
  <1>3. found # {} /\ found \in SUBSET Nat
    BY <1>1 DEF Sound, Listed
  <1>4. PICK i \in found : \A k \in found : i <= k
    BY <1>3, LeastMember
  <1>5. find_device("ahci") = {cache[j] : j \in {n \in found : \A k \in found : n <= k}}
    BY DEF find_device
  <1> HIDE DEF found
  <1>6. cache[i] \in find_device("ahci")
    BY <1>4, <1>5
  <1> QED BY <1>2, <1>6

(* And what the firmware's tables must have is there.                        *)
LEMMA TablesServe ==
    ASSUME Sound, pc = "io_apic", configure_io_apic
    PROVE  pc' = "serial" /\ Reachable(ioapics)' /\ message' = message /\ died_in' = died_in
  <1> DEFINE isos  == Of(madt_examined(machine), "iso")
             found == Of(madt_examined(machine), "ioapic")
             ids   == [i \in DOMAIN found |-> found[i].id]
  <1>1. found = Of(machine.madt, "ioapic")
    BY DEF Sound, SeenWhole
  <1>2. ~(Len(found) > 2)
    <2>1. Len(found) <= 2
      BY <1>1 DEF Sound
    <2> QED BY <2>1
  <1>3. Reachable(ids)
    BY <1>1 DEF Sound, Reachable
  <1>4. /\ ioapics' = ids /\ GoTo("serial") /\ message' = message
    BY <1>2, <1>3 DEF configure_io_apic
  <1> HIDE DEF ids
  <1> QED BY <1>3, <1>4 DEF GoTo, Reachable

(* The machine stops where it may. *)
LEMMA StopsThere ==
    ASSUME pc \in Places, pc' \in {"dead", "hung"}, died_in' = pc, UNCHANGED <<machine, cached>>,
           \/ pc \in {"pic_masks", "timer_runs"}
           \/ machine.com /\ ~cached
    PROVE  Kept'
  BY DEF Kept, StopsOnlyInWindows, Places, EarlyPlaces, SerialPlaces, TimerPlaces, PitPlaces, LatePlaces,
         KbdPlaces

(* A step of the boot that stops nothing, and has no message under way but a *)
(* tick while the PIT is set up.                                           *)
LEMMA GoesOn ==
    ASSUME pc' \in Places,
           pc' \in {"serial"} \cup SerialPlaces => Reachable(ioapics)',
           message' # NONE => pc' \in Ticks /\ TickVector(message)'
    PROVE  Kept'
  BY DEF Kept, StopsOnlyInWindows, Works, Places, EarlyPlaces, SerialPlaces, TimerPlaces, PitPlaces,
         LatePlaces, KbdPlaces

(* While interrupts are wired everything that is needed is found.         *)
LEMMA WiresStop ==
    ASSUME LinesInv, Sound, Kept, Wires \/ ps2_kbd_wire \/ ps2_kbd_unmask
    PROVE  Kept'
  <1> USE DEF Places, EarlyPlaces, SerialPlaces, TimerPlaces, PitPlaces, LatePlaces, KbdPlaces
  <1>1. CASE pic_remap_offsets \/ pic_disable
    <2>1. pc' \in {"pic_masks", "local_apic"} /\ message' = message /\ pc \in {"pic", "pic_masks"}
      BY <1>1 DEF pic_remap_offsets, pic_disable, GoTo, tables
    <2> QED BY <2>1, GoesOn DEF Kept, Ticks
  <1>2. CASE configure_local_apic
    <2>1. pc = "local_apic" /\ pc' = "io_apic" /\ message' = message
      BY <1>2 DEF configure_local_apic, GoTo, Sound
    <2> QED BY <2>1, GoesOn DEF Kept, Ticks
  <1>3. CASE configure_io_apic
    <2>1. pc = "io_apic"
      BY <1>3 DEF configure_io_apic
    <2>2. pc' = "serial" /\ Reachable(ioapics)' /\ message' = message
      BY <1>3, <2>1, TablesServe
    <2> QED BY <2>1, <2>2, GoesOn DEF Kept, Ticks
  <1>4. CASE serial_select_input_port \/ serial_set_input_masked \/ local_timer_calibrate \/ pit_enable
             \/ ps2_kbd_wire \/ ps2_kbd_unmask
    <2>1. /\ pc \in {"serial", "serial_unmask", "timer", "pit", "kbd", "kbd_unmask"}
          /\ pc' \in {"serial_unmask", "timer", "pit", "pit_unmask", "kbd_unmask", "kbd_clear"}
          /\ Reachable(ioapics) /\ ioapics' = ioapics /\ message' = message
      BY <1>4 DEF serial_select_input_port, serial_set_input_masked, local_timer_calibrate, pit_enable,
         ps2_kbd_wire, ps2_kbd_unmask, wire_line, unmask, GoTo, tables, Kept
    <2> QED BY <2>1, GoesOn DEF Kept, Ticks
  <1>5. CASE pit_unmask \/ pit_deadline_wait \/ pit_disable \/ idt_free_vector
    <2>1. /\ pc \in {"pit_unmask", "deadline", "pit_off", "pit_free"} /\ pc' \in Ticks
          /\ ioapics' = ioapics /\ message' = message /\ machine' = machine
      BY <1>5 DEF pit_unmask, pit_deadline_wait, pit_disable, idt_free_vector, unmask, GoTo, tables, Ticks
    <2>2. Reachable(ioapics)'
      BY <2>1 DEF Kept
    <2>3. message' # NONE => TickVector(message)'
      BY <2>1 DEF Kept, TickVector, NextVector, TimerVector, SerialVector
    <2> QED BY <2>1, <2>2, <2>3, GoesOn DEF Ticks
  <1>6. CASE local_timer_set_frequency
    <2>1. pc = "timer_runs" /\ pc' = "pci" /\ message' = NONE /\ ioapics' = ioapics
      BY <1>6 DEF local_timer_set_frequency, GoTo, tables
    <2> QED BY <2>1, GoesOn DEF Kept
  <1> QED BY <1>1, <1>2, <1>3, <1>4, <1>5, <1>6 DEF Wires, InterruptSteps, TimerSteps

(* The rest of the boot: by now there is no tick. *)
LEMMA LateStepsStop ==
    ASSUME Kept, pci_load_begins \/ pci_loads \/ pci_load_ends \/ load_shell \/ ps2_kbd_init_ends
    PROVE  Kept'
  <1> USE DEF Places, EarlyPlaces, SerialPlaces, TimerPlaces, PitPlaces, LatePlaces, KbdPlaces
  <1>1. /\ pc \in {"pci", "pci_load", "shell", "kbd_clear"} /\ pc' \in {"pci_load", "shell", "kbd", "up"}
        /\ ioapics' = ioapics /\ message' = message
    BY DEF pci_load_begins, pci_loads, pci_load_ends, load_shell, ps2_kbd_init_ends, GoTo, tables,
       interrupts_vars
  <1>2. Reachable(ioapics) /\ message = NONE
    BY <1>1 DEF Kept, Ticks
  <1> QED BY <1>1, <1>2, GoesOn

(* A tick gets through only while the PIT is set up, and the message is for   *)
(* the vector its line is redirected to.                                   *)
LEMMA TickStops == ASSUME LinesInv, Sound, Kept, Tick PROVE Kept'
  <1> USE DEF Places, EarlyPlaces, SerialPlaces, TimerPlaces, PitPlaces, LatePlaces, KbdPlaces
  <1> DEFINE line == TrueLine(machine, PIT_IRQ_LINE)
  <1>1. /\ pc \in Places /\ pc' = pc /\ ioapics' = ioapics /\ machine' = machine
        /\ ~redirects[line].masked /\ message' = redirects[line].vector
    BY DEF Tick, PitRises, Works, LinesInv, Heard
  <1>2. Open /\ Found /\ line \in Lines /\ PIT_IRQ_LINE \in Irqs /\ machine \in Machines
    BY <1>1, LineFacts DEF LinesInv, Irqs
  <1>3. line = FoundLine(machine, PIT_IRQ_LINE)
    BY SeenIsTrue DEF Sound
  <1>4. line # FoundLine(machine, SERIAL_COM1_IRQ) /\ line # FoundLine(machine, PS2_KBD_IRQ_LINE)
    BY <1>2, <1>3, LineFacts DEF Irqs, PIT_IRQ_LINE, SERIAL_COM1_IRQ, PS2_KBD_IRQ_LINE
  <1> HIDE DEF line
  <1>5. PitOpen
    <2>1. line \in OpenLines
      BY <1>1, <1>2 DEF Found
    <2> QED BY <1>4, <2>1 DEF OpenLines
  <1>6. TickVector(message')
    <2>1. ~KbdOpen
      BY <1>5 DEF PitOpen, KbdOpen
    <2>2. \/ SerialOpen /\ redirects[line].vector = SerialVector
          \/ redirects[line].vector = NextVector
      BY <1>1, <1>2, <2>1, Zenon DEF Open
    <2> QED BY <1>1, <2>2, Zenon DEF TickVector, SerialOpen
  <1>7. TickVector(message)'
    BY <1>1, <1>6 DEF TickVector, NextVector, TimerVector, SerialVector
  <1>8. pc \in Ticks
    BY <1>5 DEF PitOpen, Ticks
  <1> QED BY <1>1, <1>7, <1>8, GoesOn DEF Kept

(* Until its vector is freed a tick finds a handler. *)
LEMMA TickedStops == ASSUME LinesInv, Kept, Ticked PROVE Kept'
  <1> USE DEF Places, EarlyPlaces, SerialPlaces, TimerPlaces, PitPlaces, LatePlaces, KbdPlaces
  <1>1. pc \in Places /\ pc \in Ticks /\ TickVector(message) /\ machine \in Machines
    BY DEF Ticked, Delivered, LinesInv, Kept
  <1>2. CASE routine_handlers[message] = "none"
    <2>1. pc = "timer_runs"
      <3>1. SUFFICES ASSUME pc \in {"deadline", "pit_off", "pit_free"} PROVE FALSE
        BY <1>1 DEF Ticks
      <3>2. routine_handlers = HandlersAt(pc)
        BY <1>1 DEF LinesInv, Wired
      <3>3. CASE message = NextVector
        BY <1>1, <1>2, <3>1, <3>2, <3>3, VectorFacts DEF HandlersAt
      <3>4. CASE machine.com /\ message = SerialVector
        BY <1>1, <1>2, <3>1, <3>2, <3>4, VectorFacts DEF HandlersAt
      <3> QED BY <1>1, <3>3, <3>4 DEF TickVector
    <2>2. Dies /\ cached' = cached
      BY <1>2 DEF Ticked, Delivered, pci_vars
    <2>3. pc' \in {"dead", "hung"} /\ died_in' = pc /\ machine' = machine
      BY <2>2 DEF Dies
    <2> QED BY <1>1, <2>1, <2>2, <2>3, StopsThere
  <1>3. CASE routine_handlers[message] # "none"
    <2>1. pc' = pc /\ ioapics' = ioapics /\ message' = NONE
      BY <1>3 DEF Ticked, Delivered
    <2> QED BY <1>1, <2>1, GoesOn DEF Kept
  <1> QED BY <1>2, <1>3

(* A command stops the machine only if it reads the list before it is there.  *)
LEMMA CommandsStop ==
    ASSUME LinesInv, PciInv, Sound, Kept, pci_command \/ disk_command_dies \/ disk_command_hangs
    PROVE  Kept'
  <1>1. pc \in Places /\ machine.com
    BY DEF pci_command, disk_command_dies, disk_command_hangs, Listens, Runs, Works, LinesInv
  <1>2. ~console_hangs
    BY DEF Sound, console_hangs, ahci_controller_probe_ports
  <1>3. ~cached
    <2> SUFFICES ASSUME cached PROVE FALSE
      OBVIOUS
    <2>1. ~(entries > Len(cache))
      BY ListServes DEF PciInv
    <2>2. find_device("ahci") # {}
      BY ListServes
    <2> QED BY <1>2, <2>1, <2>2, Zenon DEF pci_command, disk_command_dies, disk_command_hangs
  <1>4. pc' \in {"dead", "hung"} /\ died_in' = pc /\ UNCHANGED <<machine, cached>>
    BY DEF pci_command, disk_command_dies, disk_command_hangs, Stops, pci_vars
  <1> QED BY <1>1, <1>3, <1>4, StopsThere

(* Nothing of it changes. *)
LEMMA KeptIdle ==
    ASSUME Sound, Kept, UNCHANGED <<machine, pc, died_in, ioapics, message, cached>>
    PROVE  Kept'
  <1>1. Reachable(ioapics)' = Reachable(ioapics) /\ TickVector(message)' = TickVector(message)
    BY DEF Reachable, TickVector, NextVector, TimerVector, SerialVector
  <1>2. Works' = Works
    BY DEF Works
  <1> QED BY <1>1, <1>2 DEF Kept, StopsOnlyInWindows

(* Every step of the boot. *)
LEMMA StopNextInv ==
    ASSUME LinesInv, PciInv, StopInv, [BootNext]_boot_vars
    PROVE  StopInv'
  <1> SUFFICES ASSUME Sound, Kept PROVE Kept'
    BY SoundStays DEF StopInv
  <1>1. CASE Wires \/ ps2_kbd_wire \/ ps2_kbd_unmask
    BY <1>1, WiresStop
  <1>2. CASE pci_load_begins \/ pci_loads \/ pci_load_ends \/ load_shell \/ ps2_kbd_init_ends
    BY <1>2, LateStepsStop
  <1>3. CASE OldLine
    <2>1. /\ pc = "pic_masks" /\ pc' = "dead" /\ died_in' = pc /\ UNCHANGED <<machine, cached>>
      BY <1>3 DEF OldLine, OldLineRises, Dies, pci_vars
    <2>2. pc \in Places
      BY <2>1 DEF Places, EarlyPlaces
    <2> QED BY <2>1, <2>2, StopsThere
  <1>4. CASE Tick \/ Ticked
    BY <1>4, TickStops, TickedStops
  <1>5. CASE pci_command \/ disk_command_dies \/ disk_command_hangs
    BY <1>5, CommandsStop
  <1>6. CASE KeyboardSends \/ disk_command \/ disktest_command \/ kernel_disk \/ DriverSteps \/ DiskTests \/ \E p \in Ports : Engine(p) \/ Drive(p)
    <2>1. UNCHANGED interrupts_vars /\ UNCHANGED pci_vars
      BY <1>6 DEF KeyboardSends, disk_command, disktest_command, kernel_disk, DriverSteps, DiskTests, Engine, Drive
    <2> QED BY <2>1, KeptIdle DEF interrupts_vars, pci_vars
  <1>7. CASE UNCHANGED boot_vars
    BY <1>7, KeptIdle DEF boot_vars, interrupts_vars, pci_vars
  <1> QED BY <1>1, <1>2, <1>3, <1>4, <1>5, <1>6, <1>7 DEF BootNext, BootSteps, Commands

(* No message is under way when the boot begins. *)
LEMMA StopBegins == BootInit => StopInv
  BY DEF BootInit, InterruptsInit, StopInv, Kept, StopsOnlyInWindows, Works, SerialPlaces, TimerPlaces,
         PitPlaces, LatePlaces, KbdPlaces

(* A machine as the kernel expects it (Sound) comes up, unless an old line     *)
(* rises while the PIC is set up, a tick is under way while its vector is     *)
(* freed, or a command is given while the list of PCI functions is not made:  *)
(* no controller, vector or disk is missed anywhere else on the way.         *)
THEOREM StopsInWindows == BootSpec => []StopsOnlyInWindows
  <1>1. BootInit => LinesInv /\ PciInv /\ StopInv
    BY LinesInitInv, PciBegins, StopBegins
  <1>2. LinesInv /\ PciInv /\ StopInv /\ [BootNext]_boot_vars => LinesInv' /\ PciInv' /\ StopInv'
    BY LinesNextInv, PciNextInv, StopNextInv
  <1>3. StopInv => StopsOnlyInWindows
    BY DEF StopInv, Kept, StopsOnlyInWindows
  <1> QED BY <1>1, <1>2, <1>3, PTL DEF BootSpec

-----------------------------------------------------------------------------
(***************************************************************************)
(* The keyboard.  InStep is about the end of a code.  Came says what of the   *)
(* code in flight has come at any time, and that the handler holds what came  *)
(* of it since it last held nothing, or something that began with a fake     *)
(* shift.  That it cannot be left waiting at the end of a code, wherever in   *)
(* it it began, is a fact about the codes (CodesAreWhole).                   *)
(***************************************************************************)
(* What the handler makes of l bytes of the code s behind its first k: there  *)
(* are more to come.                                                       *)
NeedsLong(s, k, l) ==
    \/ l = 3 /\ s[k + 3] \in {\h77, \h7C, \hE0}
    \/ l = 4 /\ s[k + 4] \in {\hE0, \hE1}
    \/ l = 5 /\ s[k + 5] = \hF0
    \/ l = 6 /\ s[k + 6] = \h14
    \/ l = 7 /\ s[k + 7] = \hF0
Needs(s, k, l) ==
    \/ l = 1 /\ s[k + 1] \in {\hE0, \hF0, \hE1}
    \/ l = 2 /\ (\/ s[k + 2] = \hF0
                 \/ s[k + 1] = \hE0 /\ s[k + 2] = \h12
                 \/ s[k + 1] = \hE1 /\ s[k + 2] = \h14)
    \/ NeedsLong(s, k, l)

(* A sequence of n bytes. *)
Has(s, n) == s \in Seq(Nat) /\ Len(s) = n

(* b is the part of s behind k, up to n. *)
Part(b, s, k, n) == Has(b, n - k) /\ \A i \in 1 .. n - k : b[i] = s[k + i]

(* What the prefixes of codes are is no key. *)
LEMMA Constants ==
    /\ \A b \in Plain : b \in Nat /\ b \notin {\hE0, \hE1, \hF0}
    /\ \A b \in Extended : b \in Nat /\ b \notin {\hE0, \hE1, \hF0, \h12, \h77, \h7C}
  BY KbdAssumption DEF KbdAssumption

(* Every code is one of nine kinds. *)
LEMMA Kinds ==
    ASSUME NEW code \in Codes
    PROVE  \/ \E b \in Plain : code = <<b>> \/ code = <<\hF0, b>>
           \/ \E b \in Extended : code = <<\hE0, b>> \/ code = <<\hE0, \hF0, b>>
           \/ code \in {PrintScreen, PrintReleased, Pause, FakeShift, FakeShiftOff}
  BY DEF Codes, Presses, Releases

(* A code has up to eight bytes.  More are expected until it is whole, and     *)
(* then no more, unless it is a fake shift; and, wherever in it the handler    *)
(* began, nothing more is expected at its end but behind a fake shift.       *)
Whole(s) ==
    \E n \in 1 .. 8 :
        /\ Has(s, n)
        /\ \A l \in 1 .. n - 1 : Needs(s, 0, l)
        /\ s # FakeShift => ~Needs(s, 0, n)
        /\ \A k \in 0 .. n - 1 :
             s[k + 1] \in {\hE0, \hF0, \hE1} /\ Needs(s, k, n - k) =>
                 n - k >= 2 /\ s[k + 1] = \hE0 /\ s[k + 2] = \h12

(* Every code of the keyboard is: kind by kind. *)
LEMMA CodesAreWhole == ASSUME NEW code \in Codes PROVE Whole(code)
  <1> USE DEF Whole, Has, Needs, NeedsLong
  <1>1. CASE \E b \in Plain : code = <<b>>
    <2>1. PICK b \in Plain : code = <<b>>
      BY <1>1
    <2>2. Len(code) = 1 /\ code[1] = b /\ b \in Nat /\ b \notin {\hE0, \hE1, \hF0} /\ code \in Seq(Nat)
      BY <2>1, Constants
    <2> QED BY <2>2
  <1>2. CASE \E b \in Plain : code = <<\hF0, b>>
    <2>1. PICK b \in Plain : code = <<\hF0, b>>
      BY <1>2
    <2>2. Len(code) = 2 /\ code[1] = \hF0 /\ code[2] = b /\ b \in Nat /\ b \notin {\hE0, \hE1, \hF0} /\ code \in Seq(Nat)
      BY <2>1, Constants
    <2> QED BY <2>2
  <1>3. CASE \E b \in Extended : code = <<\hE0, b>>
    <2>1. PICK b \in Extended : code = <<\hE0, b>>
      BY <1>3
    <2>2. /\ Len(code) = 2 /\ code[1] = \hE0 /\ code[2] = b /\ code \in Seq(Nat)
          /\ b \in Nat /\ b \notin {\hE0, \hE1, \hF0, \h12, \h77, \h7C}
      BY <2>1, Constants
    <2> QED BY <2>2
  <1>4. CASE \E b \in Extended : code = <<\hE0, \hF0, b>>
    <2>1. PICK b \in Extended : code = <<\hE0, \hF0, b>>
      BY <1>4
    <2>2. /\ Len(code) = 3 /\ code[1] = \hE0 /\ code[2] = \hF0 /\ code[3] = b /\ code \in Seq(Nat)
          /\ b \in Nat /\ b \notin {\hE0, \hE1, \hF0, \h12, \h77, \h7C}
      BY <2>1, Constants
    <2> QED BY <2>2
  <1>5. CASE code = PrintScreen
    <2>2. Len(code) = 4 /\ code[1] = \hE0 /\ code[2] = \h12 /\ code[3] = \hE0 /\ code[4] = \h7C /\ code \in Seq(Nat)
      BY <1>5 DEF PrintScreen
    <2> QED BY <2>2
  <1>6. CASE code = PrintReleased
    <2>2. /\ Len(code) = 6 /\ code[1] = \hE0 /\ code[2] = \hF0 /\ code[3] = \h7C /\ code[4] = \hE0
          /\ code[5] = \hF0 /\ code[6] = \h12 /\ code \in Seq(Nat)
      BY <1>6 DEF PrintReleased
    <2> QED BY <2>2
  <1>7. CASE code = Pause
    <2>2. /\ Len(code) = 8 /\ code[1] = \hE1 /\ code[2] = \h14 /\ code[3] = \h77 /\ code[4] = \hE1
          /\ code[5] = \hF0 /\ code[6] = \h14 /\ code[7] = \hF0 /\ code[8] = \h77 /\ code \in Seq(Nat)
      BY <1>7 DEF Pause
    <2> QED BY <2>2
  <1>8. CASE code = FakeShift
    <2>2. Len(code) = 2 /\ code[1] = \hE0 /\ code[2] = \h12 /\ code \in Seq(Nat)
      BY <1>8 DEF FakeShift
    <2> QED BY <1>8, <2>2 
  <1>9. CASE code = FakeShiftOff
    <2>2. Len(code) = 3 /\ code[1] = \hE0 /\ code[2] = \hF0 /\ code[3] = \h12 /\ code \in Seq(Nat)
      BY <1>9 DEF FakeShiftOff
    <2> QED BY <2>2
  <1> QED BY <1>1, <1>2, <1>3, <1>4, <1>5, <1>6, <1>7, <1>8, <1>9, Kinds

-----------------------------------------------------------------------------
(* What it holds begins like a print screen. *)
FakeStart == Len(scancode_buffer) >= 2 /\ scancode_buffer[1] = \hE0 /\ scancode_buffer[2] = \h12

(* The keystroke the code is, once; see InStep. *)
Registered ==
    /\ sent \in Presses => keys = <<[key |-> sent, released |-> FALSE]>>
    /\ sent \in Releases => keys = <<[key |-> PressOf(sent), released |-> TRUE]>>
    /\ sent \in {FakeShift, FakeShiftOff} => keys = <<>>

(* The handler holds what it has had of the code since it last held nothing. *)
Collects(n, k) ==
    /\ Part(scancode_buffer, sent, k, n)
    /\ k < n => scancode_buffer[1] \in {\hE0, \hF0, \hE1}
    /\ k < n /\ n = Len(sent) => FakeStart
    /\ clean /\ n < Len(sent) => k = 0

(* Of the code in flight n bytes have come. *)
Came(n) ==
    /\ Part(wire, sent, n, Len(sent))
    /\ (\E k \in 0 .. n : Collects(n, k)) \/ (FakeStart /\ ~clean)
    /\ clean => IF n = Len(sent) THEN Registered ELSE keys = <<>>

KbdInv ==
    /\ sent \in Codes \cup {<<>>}
    /\ scancode_buffer \in Seq(Nat) /\ Len(scancode_buffer) < 8
    /\ \E n \in 0 .. Len(sent) : Came(n)

(* The codes that are keys are no other codes. *)
LEMMA KeysAre ==
    /\ \A c \in Presses : c \notin Releases /\ c # FakeShift /\ c # FakeShiftOff
    /\ \A c \in Releases : c # FakeShift /\ c # FakeShiftOff
    /\ FakeShift # FakeShiftOff
  <1>1. /\ Len(PrintScreen) = 4 /\ Len(PrintReleased) = 6 /\ Len(Pause) = 8
        /\ Len(FakeShift) = 2 /\ FakeShift[1] = \hE0 /\ FakeShift[2] = \h12
        /\ Len(FakeShiftOff) = 3 /\ FakeShiftOff[1] = \hE0 /\ FakeShiftOff[3] = \h12
    BY DEF PrintScreen, PrintReleased, Pause, FakeShift, FakeShiftOff
  <1>2. ASSUME NEW c \in Presses
        PROVE  \/ Len(c) = 1
               \/ Len(c) = 2 /\ c[1] = \hE0 /\ c[2] # \h12
               \/ Len(c) \in {4, 8}
    <2>1. CASE \E b \in Plain : c = <<b>>
      BY <2>1
    <2>2. CASE \E b \in Extended : c = <<\hE0, b>>
      BY <2>2, Constants
    <2>3. CASE c \in {PrintScreen, Pause}
      BY <2>3, <1>1
    <2> QED BY <2>1, <2>2, <2>3 DEF Presses
  <1>3. ASSUME NEW c \in Releases
        PROVE  \/ Len(c) = 2 /\ c[1] = \hF0
               \/ Len(c) = 3 /\ c[3] # \h12
               \/ Len(c) = 6
    <2>1. CASE \E b \in Plain : c = <<\hF0, b>>
      BY <2>1
    <2>2. CASE \E b \in Extended : c = <<\hE0, \hF0, b>>
      BY <2>2, Constants
    <2>3. CASE c = PrintReleased
      BY <2>3, <1>1
    <2> QED BY <2>1, <2>2, <2>3 DEF Releases
  <1>4. ASSUME NEW c \in Presses PROVE c \notin Releases
    BY <1>2, <1>3
  <1> HIDE DEF Presses, Releases
  <1> QED BY <1>1, <1>2, <1>3, <1>4

(* So a code that is whole is registered as what it is. *)
LEMMA Registers ==
    ASSUME sent \in Codes, keys = <<>>, hid_register_keystroke(ps2_translate_keycode(sent)), sent' = sent
    PROVE  Registered'
  <1>1. ASSUME NEW r PROVE Append(<<>>, r) = <<r>>
    OBVIOUS
  <1>2. CASE sent \in Presses
    <2>1. keys' = <<[key |-> sent, released |-> FALSE]>>
      BY <1>1, <1>2 DEF hid_register_keystroke, ps2_translate_keycode
    <2> QED BY <1>2, <2>1, KeysAre DEF Registered
  <1>3. CASE sent \in Releases
    <2>1. keys' = <<[key |-> PressOf(sent), released |-> TRUE]>>
      BY <1>1, <1>3, KeysAre DEF hid_register_keystroke, ps2_translate_keycode
    <2>2. PressOf(sent)' = PressOf(sent)
      BY DEF PressOf
    <2> QED BY <1>3, <2>1, <2>2, KeysAre DEF Registered
  <1>4. CASE sent \notin Presses /\ sent \notin Releases
    <2>1. keys' = <<>>
      BY <1>4 DEF hid_register_keystroke, ps2_translate_keycode
    <2> QED BY <1>4, <2>1 DEF Registered
  <1> QED BY <1>2, <1>3, <1>4

(* What needs_next_byte says of a part of a code. *)
LEMMA NeedsIs ==
    ASSUME NEW s, NEW b, NEW k \in Nat, NEW n \in Nat, k < n, Part(b, s, k, n)
    PROVE  ps2_kbd_needs_next_byte(b) <=> Needs(s, k, n - k)
  <1>1. Len(b) = n - k /\ \A i \in 1 .. n - k : b[i] = s[k + i]
    BY DEF Part, Has
  <1> DEFINE l == n - k
  <1>2. l \in Nat /\ \A i \in 1 .. l : b[i] = s[k + i]
    BY <1>1
  <1>3. Len(b) = l
    BY <1>1
  <1> HIDE DEF l
  <1>4. needs_byte_of_long_code(b) <=> NeedsLong(s, k, l)
    <2>1. l = 3 => b[3] = s[k + 3]
      BY <1>2
    <2>2. l = 4 => b[4] = s[k + 4]
      BY <1>2
    <2>3. l = 5 => b[5] = s[k + 5]
      BY <1>2
    <2>4. l = 6 => b[6] = s[k + 6]
      BY <1>2
    <2>5. l = 7 => b[7] = s[k + 7]
      BY <1>2
    <2> QED BY <1>3, <2>1, <2>2, <2>3, <2>4, <2>5 DEF needs_byte_of_long_code, NeedsLong
  <1> QED BY <1>2, <1>3, <1>4 DEF ps2_kbd_needs_next_byte, Needs, l

(* The keyboard begins a code. *)
LEMMA KeyInv == ASSUME KbdInv, Key PROVE KbdInv'
  <1>1. PICK code \in Codes : wire' = code /\ sent' = code
    BY DEF Key
  <1>2. wire = <<>> /\ clean' = (scancode_buffer = <<>>) /\ keys' = <<>> /\ scancode_buffer' = scancode_buffer
    BY DEF Key
  <1>3. PICK n \in 1 .. 8 : Has(code, n)
    BY CodesAreWhole DEF Whole
  <1>4. Part(wire', code, 0, Len(code)) /\ Len(code) = n /\ 0 \in 0 .. Len(sent')
    BY <1>1, <1>3 DEF Part, Has
  <1>5. PICK m \in 0 .. Len(sent) : Came(m)
    BY DEF KbdInv
  <1>6. sent \in Codes \cup {<<>>} /\ Len(sent) \in Nat
    <2>1. CASE sent \in Codes
      BY <2>1, CodesAreWhole DEF Whole, Has
    <2>2. CASE sent = <<>>
      BY <2>2
    <2> QED BY <2>1, <2>2 DEF KbdInv
  <1>7. m = Len(sent)
    <2>1. Len(wire) = Len(sent) - m /\ Len(wire) = 0
      BY <1>2, <1>5 DEF Came, Part, Has
    <2> QED BY <1>6, <2>1
  <1>8. scancode_buffer = <<>> \/ FakeStart
    <2>1. CASE FakeStart
      BY <2>1
    <2>2. CASE \E k \in 0 .. m : Collects(m, k)
      <3>1. PICK k \in 0 .. m : Collects(m, k)
        BY <2>2
      <3>2. CASE k < m
        BY <1>7, <3>1, <3>2 DEF Collects
      <3>3. CASE k = m
        <4>1. scancode_buffer \in Seq(Nat) /\ Len(scancode_buffer) = 0
          BY <1>6, <1>7, <3>1, <3>3 DEF Collects, Part, Has
        <4> QED BY <4>1, EmptySeq
      <3> QED BY <1>6, <1>7, <3>2, <3>3
    <2> QED BY <1>5, <2>1, <2>2 DEF Came
  <1>9. Came(0)'
    <2>1. CASE scancode_buffer = <<>>
      <3>1. Part(<<>>, code, 0, 0)
        BY EmptySeq DEF Part, Has
      <3>2. (\E k \in 0 .. 0 : Collects(0, k))'
        BY <1>1, <1>2, <2>1, <3>1 DEF Collects
      <3>3. 0 # Len(sent')
        BY <1>1, <1>4
      <3> QED BY <1>1, <1>2, <1>4, <3>2, <3>3 DEF Came
    <2>2. CASE scancode_buffer # <<>>
      <3>1. FakeStart' /\ ~clean'
        BY <1>2, <1>8, <2>2 DEF FakeStart
      <3> QED BY <1>1, <1>4, <3>1 DEF Came
    <2> QED BY <2>1, <2>2
  <1>10. scancode_buffer' \in Seq(Nat) /\ Len(scancode_buffer') < 8
    BY <1>2 DEF KbdInv
  <1> QED BY <1>1, <1>4, <1>9, <1>10 DEF KbdInv, Codes, Presses, Releases


(* After a byte the handler holds nothing: the rest of the code is to come.   *)
LEMMA HoldsNothing ==
    ASSUME NEW n \in Nat, sent' = sent, scancode_buffer' = <<>>, clean' => n = Len(sent)
    PROVE  Collects(n, n)'
  <1>1. Part(<<>>, sent, n, n)
    BY EmptySeq DEF Part, Has
  <1>2. n \in Nat /\ ~(n < n)
    OBVIOUS
  <1>3. clean' /\ n < Len(sent) => n = 0
    BY <1>2
  <1> QED BY <1>1, <1>2, <1>3 DEF Collects

(* More is expected behind seven bytes at the most. *)
LEMMA NeedsRoom == ASSUME NEW b, ps2_kbd_needs_next_byte(b) PROVE Len(b) < 8
  <1> DEFINE l == Len(b)
  <1>1. l = 1 \/ l = 2 \/ l = 3 \/ l = 4 \/ l = 5 \/ l = 6 \/ l = 7
    BY Zenon DEF ps2_kbd_needs_next_byte, needs_byte_of_long_code
  <1> HIDE DEF l
  <1>2. l < 8
    BY <1>1
  <1> QED BY <1>2 DEF l

(* It takes the next byte. *)
LEMMA ByteInv == ASSUME KbdInv, kbd_ps2_irq_handler PROVE KbdInv'
  <1> DEFINE held == Append(scancode_buffer, Head(wire))
  <1>1. /\ wire # <<>> /\ wire' = Tail(wire) /\ sent' = sent /\ clean' = clean
        /\ IF ps2_kbd_needs_next_byte(held)
           THEN scancode_buffer' = held /\ keys' = keys
           ELSE hid_register_keystroke(ps2_translate_keycode(held)) /\ scancode_buffer' = <<>>
    BY DEF kbd_ps2_irq_handler
  <1>2. PICK n \in 0 .. Len(sent) : Came(n)
    BY DEF KbdInv
  <1>3. sent # <<>>
    <2> SUFFICES ASSUME sent = <<>> PROVE FALSE
      OBVIOUS
    <2>1. Len(sent) = 0 /\ n = 0
      BY <1>2
    <2>2. wire \in Seq(Nat) /\ Len(wire) = 0
      BY <1>2, <2>1 DEF Came, Part, Has
    <2> QED BY <1>1, <2>2, EmptySeq
  <1>4. sent \in Codes
    BY <1>3 DEF KbdInv
  <1>5. PICK N \in 1 .. 8 :
           /\ Has(sent, N)
           /\ \A l \in 1 .. N - 1 : Needs(sent, 0, l)
           /\ sent # FakeShift => ~Needs(sent, 0, N)
           /\ \A k \in 0 .. N - 1 :
                sent[k + 1] \in {\hE0, \hF0, \hE1} /\ Needs(sent, k, N - k) =>
                    N - k >= 2 /\ sent[k + 1] = \hE0 /\ sent[k + 2] = \h12
    BY <1>4, CodesAreWhole DEF Whole
  <1>6. Len(sent) = N /\ sent \in Seq(Nat)
    BY <1>5 DEF Has
  <1>7. wire \in Seq(Nat) /\ Len(wire) = N - n /\ \A i \in 1 .. N - n : wire[i] = sent[n + i]
    BY <1>2, <1>6 DEF Came, Part, Has
  <1>8. n < N
    <2>1. Len(wire) # 0
      BY <1>1, <1>7, EmptySeq
    <2> QED BY <1>2, <1>6, <1>7, <2>1
  <1>9. Head(wire) = sent[n + 1] /\ sent[n + 1] \in Nat
    <2>1. wire[1] = sent[n + 1] /\ n + 1 \in 1 .. N
      BY <1>2, <1>6, <1>7, <1>8
    <2> QED BY <1>1, <1>6, <1>7, <2>1
  <1>10. Part(wire', sent, n + 1, N)
    <2>1. /\ Tail(wire) \in Seq(Nat) /\ Len(Tail(wire)) = Len(wire) - 1
          /\ \A i \in 1 .. Len(wire) - 1 : Tail(wire)[i] = wire[i + 1]
      BY <1>1, <1>7
    <2>2. \A i \in 1 .. N - (n + 1) : Tail(wire)[i] = sent[(n + 1) + i]
      BY <1>2, <1>6, <1>7, <2>1
    <2>3. Len(Tail(wire)) = N - (n + 1)
      BY <1>2, <1>6, <1>7, <2>1
    <2> QED BY <1>1, <2>1, <2>2, <2>3 DEF Part, Has
  <1>11. scancode_buffer \in Seq(Nat) /\ Len(scancode_buffer) \in Nat /\ Len(scancode_buffer) < 8
    BY DEF KbdInv
  <1>12. /\ held \in Seq(Nat) /\ Len(held) = Len(scancode_buffer) + 1
         /\ \A i \in 1 .. Len(scancode_buffer) : held[i] = scancode_buffer[i]
         /\ held[Len(scancode_buffer) + 1] = sent[n + 1]
    BY <1>9, <1>11, AppendProperties
  <1> HIDE DEF held
  <1>13. ps2_kbd_needs_next_byte(held) => Len(held) < 8
    BY NeedsRoom
  <1>14. scancode_buffer' \in Seq(Nat) /\ Len(scancode_buffer') < 8
    <2>1. Len(<<>>) < 8 /\ <<>> \in Seq(Nat)
      BY EmptySeq
    <2> QED BY <1>1, <1>12, <1>13, <2>1
  <1>15. n + 1 \in 0 .. Len(sent') /\ n \in Nat /\ N \in Nat
    BY <1>1, <1>2, <1>6, <1>8
  <1>16. SUFFICES Came(n + 1)'
    BY <1>1, <1>4, <1>14, <1>15 DEF KbdInv, Codes, Presses, Releases
  <1>17. CASE FakeStart /\ ~clean
    <2>1. CASE ps2_kbd_needs_next_byte(held)
      <3>1. FakeStart'
        <4>1. Len(scancode_buffer) >= 2 /\ scancode_buffer[1] = \hE0 /\ scancode_buffer[2] = \h12
          BY <1>17 DEF FakeStart
        <4>2. 1 \in 1 .. Len(scancode_buffer) /\ 2 \in 1 .. Len(scancode_buffer)
          BY <1>11, <4>1
        <4>3. held[1] = \hE0 /\ held[2] = \h12
          BY <1>12, <4>1, <4>2
        <4>4. Len(held) >= 2
          BY <1>11, <1>12, <4>1
        <4> QED BY <1>1, <2>1, <4>3, <4>4 DEF FakeStart
      <3> QED BY <1>1, <1>6, <1>10, <1>17, <3>1 DEF Came
    <2>2. CASE ~ps2_kbd_needs_next_byte(held)
      <3>1. Collects(n + 1, n + 1)'
        BY <1>1, <1>15, <1>17, <2>2, HoldsNothing
      <3>2. n + 1 \in 0 .. n + 1
        BY <1>15
      <3> QED BY <1>1, <1>6, <1>10, <1>17, <3>1, <3>2 DEF Came
    <2> QED BY <2>1, <2>2
  <1>18. CASE \E k \in 0 .. n : Collects(n, k)
    <2>1. PICK k \in 0 .. n : Collects(n, k)
      BY <1>18
    <2>2. /\ Len(scancode_buffer) = n - k /\ \A i \in 1 .. n - k : scancode_buffer[i] = sent[k + i]
          /\ (k < n => scancode_buffer[1] \in {\hE0, \hF0, \hE1})
          /\ (clean => k = 0) /\ (clean => keys = <<>>) /\ k \in Nat /\ k <= n
      BY <1>2, <1>6, <1>8, <2>1 DEF Collects, Part, Has, Came
    <2>3. Part(held, sent, k, n + 1)
      <3>1. Len(held) = n + 1 - k
        BY <1>12, <1>15, <2>2
      <3>2. ASSUME NEW i \in 1 .. n + 1 - k PROVE held[i] = sent[k + i]
        <4>1. CASE i = n + 1 - k
          <5>1. i = Len(scancode_buffer) + 1 /\ k + i = n + 1
            BY <1>15, <2>2, <4>1
          <5> QED BY <1>12, <5>1
        <4>2. CASE i # n + 1 - k
          <5>1. i \in 1 .. n - k
            BY <1>15, <2>2, <4>2
          <5> QED BY <1>12, <2>2, <5>1
        <4> QED BY <4>1, <4>2
      <3> QED BY <1>12, <3>1, <3>2 DEF Part, Has
    <2>4. k < n + 1 /\ n + 1 \in Nat
      BY <1>15, <2>2
    <2>5. ps2_kbd_needs_next_byte(held) <=> Needs(sent, k, n + 1 - k)
      BY <2>2, <2>3, <2>4, NeedsIs
    <2>6. held[1] = sent[k + 1] /\ Len(held) = n + 1 - k
      BY <2>3, <2>4, <2>2 DEF Part, Has
    <2>7. CASE ps2_kbd_needs_next_byte(held)
      <3>1. sent[k + 1] \in {\hE0, \hF0, \hE1}
        <4>1. CASE k < n
          <5>1. scancode_buffer[1] = sent[k + 1]
            BY <1>15, <2>2, <4>1
          <5> QED BY <2>2, <4>1, <5>1
        <4>2. CASE k = n
          <5>1. n + 1 - k = 1
            BY <1>15, <4>2
          <5> QED BY <2>5, <2>7, <4>2, <5>1 DEF Needs, NeedsLong
        <4> QED BY <1>15, <2>2, <4>1, <4>2
      <3>2. ASSUME n + 1 = N PROVE Len(held) >= 2 /\ held[1] = \hE0 /\ held[2] = \h12
        <4>1. k \in 0 .. N - 1
          BY <1>15, <2>2, <3>2
        <4>2. N - k >= 2 /\ sent[k + 1] = \hE0 /\ sent[k + 2] = \h12
          BY <1>5, <2>5, <2>7, <3>1, <3>2, <4>1
        <4>3. held[2] = sent[k + 2]
          BY <2>3, <1>15, <2>2, <3>2, <4>2 DEF Part
        <4> QED BY <2>6, <3>2, <4>2, <4>3
      <3>3. Collects(n + 1, k)'
        BY <1>1, <1>6, <2>2, <2>3, <2>6, <2>7, <3>1, <3>2 DEF Collects, FakeStart
      <3>4. ASSUME clean, n + 1 = N PROVE Registered'
        <4>1. sent = FakeShift
          BY <1>5, <1>15, <2>2, <2>5, <2>7, <3>4
        <4>2. sent' = FakeShift /\ keys' = <<>>
          BY <1>1, <2>2, <2>7, <3>4, <4>1
        <4>3. sent' \notin Presses /\ sent' \notin Releases
          BY <4>2, KeysAre
        <4> QED BY <4>2, <4>3 DEF Registered, Presses, Releases
      <3>5. k \in 0 .. n + 1
        BY <1>15, <2>2
      <3>6. clean => keys' = <<>>
        BY <1>1, <2>2, <2>7
      <3> QED BY <1>1, <1>6, <1>10, <3>3, <3>4, <3>5, <3>6 DEF Came
    <2>8. CASE ~ps2_kbd_needs_next_byte(held)
      <3>1. clean => n + 1 = N
        <4> SUFFICES ASSUME clean, n + 1 # N PROVE FALSE
          OBVIOUS
        <4>1. k = 0 /\ n + 1 \in 1 .. N - 1 /\ n + 1 - k = n + 1
          BY <1>8, <1>15, <2>2
        <4> QED BY <1>5, <2>5, <2>8, <4>1
      <3>2. Collects(n + 1, n + 1)'
        BY <1>1, <1>6, <1>15, <2>8, <3>1, HoldsNothing
      <3>3. n + 1 \in 0 .. n + 1
        BY <1>15
      <3>4. ASSUME clean PROVE Registered'
        <4>1. held = sent
          <5>1. k = 0 /\ n + 1 - k = N
            BY <1>15, <2>2, <3>1, <3>4
          <5>2. Len(held) = Len(sent) /\ \A i \in 1 .. Len(held) : held[i] = sent[i]
            BY <1>6, <2>3, <3>1, <3>4, <5>1 DEF Part, Has
          <5> QED BY <1>6, <1>12, <5>2, SeqEqual
        <4>2. keys = <<>> /\ hid_register_keystroke(ps2_translate_keycode(sent))
          BY <1>1, <2>2, <2>8, <3>4, <4>1
        <4> QED BY <1>1, <1>4, <4>2, Registers
      <3> QED BY <1>1, <1>6, <1>10, <3>1, <3>2, <3>3, <3>4 DEF Came
    <2> QED BY <2>7, <2>8
  <1> QED BY <1>2, <1>17, <1>18 DEF Came

(* Enabled in the middle of a code, the handler has the rest of it to come.   *)
LEMMA MidCodeInv == ASSUME scancode_buffer = <<>>, ~clean, MidCode PROVE KbdInv'
  <1>1. PICK code \in Codes : \E n \in 1 .. Len(code) :
           sent' = code /\ wire' = SubSeq(code, n + 1, Len(code))
    BY DEF MidCode
  <1>2. PICK n \in 1 .. Len(code) : sent' = code /\ wire' = SubSeq(code, n + 1, Len(code))
    BY <1>1
  <1>3. scancode_buffer' = <<>> /\ ~clean'
    BY DEF MidCode
  <1>4. PICK N \in 1 .. 8 : Has(code, N)
    BY CodesAreWhole DEF Whole
  <1>5. Len(code) = N /\ code \in Seq(Nat)
    BY <1>4 DEF Has
  <1>6. Part(wire', code, n, N)
    <2>1. \A i \in n + 1 .. N : code[i] \in Nat
      BY <1>2, <1>5
    <2>2. n + 1 \in Int /\ N \in Int /\ n \in Nat /\ n <= N
      BY <1>2, <1>5
    <2>3. /\ wire' \in Seq(Nat)
          /\ Len(wire') = IF n + 1 <= N THEN N - (n + 1) + 1 ELSE 0
          /\ \A i \in 1 .. N - (n + 1) + 1 : wire'[i] = code[n + 1 + i - 1]
      BY <1>2, <1>5, <2>1, <2>2, SubSeqProperties
    <2>4. Len(wire') = N - n
      BY <2>2, <2>3
    <2>5. ASSUME NEW i \in 1 .. N - n PROVE wire'[i] = code[n + i]
      <3>1. i \in 1 .. N - (n + 1) + 1 /\ n + 1 + i - 1 = n + i
        BY <2>2
      <3> QED BY <2>3, <3>1
    <2> QED BY <2>3, <2>4, <2>5 DEF Part, Has
  <1>7. Collects(n, n)'
    <2>1. Part(<<>>, code, n, n)
      BY EmptySeq, <1>2, <1>5 DEF Part, Has
    <2>2. ~(n < n)
      BY <1>2, <1>5
    <2> QED BY <1>2, <1>3, <2>1, <2>2 DEF Collects
  <1>8. n \in 0 .. n /\ n \in 0 .. Len(sent')
    BY <1>2, <1>5
  <1>9. Came(n)'
    BY <1>2, <1>3, <1>5, <1>6, <1>7, <1>8 DEF Came
  <1>10. Len(<<>>) < 8 /\ <<>> \in Seq(Nat)
    BY EmptySeq
  <1> QED BY <1>2, <1>3, <1>8, <1>9, <1>10 DEF KbdInv, Codes, Presses, Releases

(* What it holds is dropped: no key is expected of the code in flight.        *)
LEMMA ClearInv == ASSUME KbdInv, ps2_kbd_clear_scan_buffer PROVE KbdInv'
  <1>1. scancode_buffer' = <<>> /\ ~clean' /\ UNCHANGED <<wire, sent, keys>>
    BY DEF ps2_kbd_clear_scan_buffer
  <1>2. PICK n \in 0 .. Len(sent) : Came(n)
    BY DEF KbdInv
  <1>3. n \in Nat
    OBVIOUS
  <1>4. Collects(n, n)'
    BY <1>1, <1>3, HoldsNothing
  <1>5. n \in 0 .. n
    BY <1>3
  <1>6. Part(wire, sent, n, Len(sent))
    BY <1>2 DEF Came
  <1>7. Came(n)'
    BY <1>1, <1>4, <1>5, <1>6 DEF Came
  <1>8. Len(<<>>) < 8 /\ <<>> \in Seq(Nat)
    BY EmptySeq
  <1>9. sent' \in Codes \cup {<<>>}
    BY <1>1 DEF KbdInv
  <1> QED BY <1>1, <1>7, <1>8, <1>9 DEF KbdInv, Codes, Presses, Releases

(* Nothing of it changes. *)
LEMMA KbdIdle == ASSUME KbdInv, UNCHANGED kbd_vars PROVE KbdInv'
  <1>1. UNCHANGED <<scancode_buffer, wire, sent, clean, keys>>
    BY DEF kbd_vars
  <1>2. PICK n \in 0 .. Len(sent) : Came(n)
    BY DEF KbdInv
  <1>3. Came(n)'
    BY <1>1, <1>2 DEF Came, Collects, FakeStart, Registered, Presses, Releases
  <1>4. sent' \in Codes \cup {<<>>}
    BY <1>1 DEF KbdInv
  <1> QED BY <1>1, <1>2, <1>3, <1>4 DEF KbdInv, Codes, Presses, Releases

(* The invariant is what InStep says of the end of a code. *)
LEMMA StaysInStep == ASSUME KbdInv PROVE InStep
  <1>1. PICK n \in 0 .. Len(sent) : Came(n)
    BY DEF KbdInv
  <1>2. Len(sent) \in Nat
    <2>1. CASE sent \in Codes
      BY <2>1, CodesAreWhole DEF Whole, Has
    <2>2. CASE sent = <<>>
      BY <2>2
    <2> QED BY <2>1, <2>2 DEF KbdInv
  <1>3. scancode_buffer \in Seq(Nat) /\ Len(scancode_buffer) < 8
    BY DEF KbdInv
  <1>4. SUFFICES ASSUME wire = <<>>
                 PROVE  /\ scancode_buffer # <<>> => SubSeq(scancode_buffer, 1, 2) = FakeShift
                        /\ clean => Registered
    BY <1>3 DEF InStep, Registered
  <1>5. n = Len(sent)
    <2>1. Len(wire) = Len(sent) - n /\ Len(wire) = 0
      BY <1>1, <1>4 DEF Came, Part, Has
    <2> QED BY <1>2, <2>1
  <1>6. clean => Registered
    BY <1>1, <1>5 DEF Came
  <1>7. ASSUME scancode_buffer # <<>> PROVE SubSeq(scancode_buffer, 1, 2) = FakeShift
    <2>1. FakeStart
      <3> SUFFICES ASSUME NEW k \in 0 .. n, Collects(n, k) PROVE FakeStart
        BY <1>1 DEF Came
      <3>1. k # n
        <4> SUFFICES ASSUME k = n PROVE FALSE
          OBVIOUS
        <4>1. Len(scancode_buffer) = 0
          BY <1>2, <1>5 DEF Collects, Part, Has
        <4> QED BY <1>3, <1>7, <4>1, EmptySeq
      <3> QED BY <1>2, <1>5, <3>1 DEF Collects
    <2> DEFINE two == SubSeq(scancode_buffer, 1, 2)
    <2>2. \A i \in 1 .. 2 : scancode_buffer[i] \in Nat
      BY <1>3, <2>1 DEF FakeStart
    <2>3. /\ two \in Seq(Nat) /\ Len(two) = (IF 1 <= 2 THEN 2 - 1 + 1 ELSE 0)
          /\ \A i \in 1 .. 2 - 1 + 1 : two[i] = scancode_buffer[1 + i - 1]
      BY <1>3, <2>2, SubSeqProperties
    <2> HIDE DEF two
    <2>4. Len(two) = 2 /\ two[1] = scancode_buffer[1] /\ two[2] = scancode_buffer[2]
      BY <2>3
    <2>5. /\ FakeShift \in Seq(Nat) /\ Len(FakeShift) = 2
          /\ FakeShift[1] = \hE0 /\ FakeShift[2] = \h12
      BY DEF FakeShift
    <2>6. two = FakeShift
      <3>1. \A i \in 1 .. Len(two) : two[i] = FakeShift[i]
        <4>1. two[1] = FakeShift[1] /\ two[2] = FakeShift[2]
          BY <2>1, <2>4, <2>5 DEF FakeStart
        <4>2. \A i \in 1 .. Len(two) : i = 1 \/ i = 2
          BY <2>4
        <4> QED BY <4>1, <4>2
      <3>2. Len(two) = Len(FakeShift)
        BY <2>4, <2>5
      <3> QED BY <2>3, <2>5, <3>1, <3>2, SeqEqual
    <2> QED BY <2>6 DEF two
  <1> QED BY <1>6, <1>7

(* At the start nothing has come. *)
LEMMA KbdBegins == KbdInit => KbdInv
  <1> SUFFICES ASSUME KbdInit PROVE KbdInv
    OBVIOUS
  <1>1. scancode_buffer = <<>> /\ wire = <<>> /\ sent = <<>> /\ ~clean
    BY DEF KbdInit
  <1>2. Len(<<>>) = 0 /\ <<>> \in Seq(Nat)
    BY EmptySeq
  <1>3. Came(0)
    <2>1. Part(<<>>, <<>>, 0, 0)
      BY <1>2 DEF Part, Has
    <2>2. Collects(0, 0)
      BY <1>1, <2>1 DEF Collects
    <2>3. 0 \in 0 .. 0
      OBVIOUS
    <2> QED BY <1>1, <1>2, <2>1, <2>2, <2>3 DEF Came
  <1> QED BY <1>1, <1>2, <1>3 DEF KbdInv

-----------------------------------------------------------------------------
(* The places at which the keyboard's line may be open. *)
Ended      == {"kbd_clear", "up", "dead", "hung"}

(* Until then the handler has had nothing. *)
NothingYet == pc \notin Ended => ~hears /\ scancode_buffer = <<>> /\ ~clean

(* The boot does not come back from there. *)
LEMMA EndedStays == ASSUME BootNext, pc \in Ended PROVE pc' \in Ended
  <1> USE DEF Ended
  <1>1. CASE Wires
    BY <1>1 DEF Wires, InterruptSteps, TimerSteps, pic_remap_offsets, pic_disable, configure_local_apic,
       configure_io_apic, serial_select_input_port, serial_set_input_masked, local_timer_calibrate, pit_enable,
       pit_unmask, pit_deadline_wait, pit_disable, idt_free_vector, local_timer_set_frequency
  <1>2. CASE pci_load_begins \/ pci_loads \/ pci_load_ends \/ load_shell \/ ps2_kbd_wire \/ ps2_kbd_unmask
             \/ ps2_kbd_init_ends
    BY <1>2 DEF pci_load_begins, pci_loads, pci_load_ends, load_shell, ps2_kbd_wire, ps2_kbd_unmask,
       ps2_kbd_init_ends, GoTo
  <1>3. CASE OldLine \/ Tick \/ Ticked
    BY <1>3 DEF OldLine, OldLineRises, Tick, Ticked, PitRises, Delivered, Dies
  <1>4. CASE Commands
    BY <1>4 DEF Commands, pci_command, disk_command_dies, disk_command_hangs, disk_command, disktest_command, Stops,
       interrupts_vars
  <1>5. CASE KeyboardSends \/ kernel_disk \/ DriverSteps \/ DiskTests \/ \E p \in Ports : Engine(p) \/ Drive(p)
    BY <1>5 DEF KeyboardSends, kernel_disk, DriverSteps, DiskTests, Engine, Drive, interrupts_vars
  <1> QED BY <1>1, <1>2, <1>3, <1>4, <1>5 DEF BootNext, BootSteps

(* A step that is not the keyboard's leaves it alone. *)
LEMMA KbdNextInv == KbdInv /\ NothingYet /\ [BootNext]_boot_vars => KbdInv' /\ NothingYet'
  <1> SUFFICES ASSUME KbdInv, NothingYet, [BootNext]_boot_vars PROVE KbdInv' /\ NothingYet'
    OBVIOUS
  <1>1. CASE UNCHANGED boot_vars
    <2>1. UNCHANGED kbd_vars /\ pc' = pc /\ hears' = hears
      BY <1>1 DEF boot_vars, interrupts_vars
    <2> QED BY <2>1, KbdIdle DEF NothingYet, Ended, kbd_vars
  <1>2. CASE KeyboardSends
    <2>1. pc' = pc /\ hears /\ (Key \/ kbd_ps2_irq_handler)
      BY <1>2 DEF KeyboardSends, interrupts_vars
    <2>2. pc' \in Ended
      BY <2>1 DEF NothingYet
    <2> QED BY <2>1, <2>2, KeyInv, ByteInv DEF NothingYet, Ended
  <1>3. CASE ps2_kbd_unmask
    <2>1. pc = "kbd_unmask" /\ pc' = "kbd_clear"
      BY <1>3 DEF ps2_kbd_unmask, unmask, GoTo
    <2>2. scancode_buffer = <<>> /\ ~clean
      BY <2>1 DEF NothingYet, Ended
    <2>3. MidCode \/ UNCHANGED kbd_vars
      BY <1>3 DEF ps2_kbd_unmask
    <2> QED BY <2>1, <2>2, <2>3, MidCodeInv, KbdIdle DEF NothingYet, Ended
  <1>4. CASE ps2_kbd_init_ends
    <2>1. pc' = "up" /\ ps2_kbd_clear_scan_buffer
      BY <1>4 DEF ps2_kbd_init_ends, GoTo
    <2> QED BY <2>1, ClearInv DEF NothingYet, Ended
  <1>5. CASE BootNext /\ ~KeyboardSends /\ ~ps2_kbd_unmask /\ ~ps2_kbd_init_ends
    <2>1. UNCHANGED kbd_vars /\ hears' = hears
      BY <1>5 DEF BootNext, BootSteps, Wires, pci_load_begins, pci_loads, pci_load_ends, load_shell,
         ps2_kbd_wire, OldLine, Tick, Ticked, Commands, pci_command, disk_command_dies,
         disk_command_hangs, disk_command, disktest_command, Stops, kernel_disk, DriverSteps, DiskTests, Engine, Drive
    <2>2. pc' \notin Ended => pc \notin Ended
      BY <1>5, EndedStays
    <2> QED BY <2>1, <2>2, KbdIdle DEF NothingYet, Ended, kbd_vars
  <1> QED BY <1>1, <1>2, <1>3, <1>4, <1>5

(* Whatever the keyboard was doing when it was enabled and whatever keys are    *)
(* pressed, the handler holds nothing at the end of a code, or has taken a     *)
(* fake shift for a print screen; it keeps to its eight bytes; and in step it   *)
(* registers each key once, as what it is (ps2_kbd.c:85-122, 148-163).        *)
THEOREM HandlerInStep == BootSpec => []InStep
  <1>1. BootInit => KbdInv /\ NothingYet
    BY KbdBegins DEF BootInit, KbdInit, NothingYet
  <1>2. KbdInv => InStep
    BY StaysInStep
  <1> QED BY <1>1, <1>2, KbdNextInv, PTL DEF BootSpec
=============================================================================
