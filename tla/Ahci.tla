-------------------------------- MODULE Ahci --------------------------------
(***************************************************************************)
(* The AHCI driver, src/kernel/src/iodev/disk/ahci.c: the load that finds    *)
(* and configures the drives, start and stop of a port's command engine, and *)
(* a read that waits for its end.                                          *)
(*                                                                         *)
(* It runs in two contexts.  The commands of the serial console call it in   *)
(* an interrupt, with interrupts disabled: there the hlt of the stop never   *)
(* ends, and everything in front of it is one step (console_loads).  Its     *)
(* header also offers it to the kernel, which runs with interrupts enabled;  *)
(* there every wait goes on at the next interrupt, whatever it is.  Nothing  *)
(* in the kernel calls it so yet.  Once the kernel has loaded it, disktest   *)
(* reads from each drive in its interrupt, wherever the kernel was in it.    *)
(*                                                                         *)
(* The controller and the drives are external, as the driver sees them: the  *)
(* engine of a port follows ST and FRE after a while, and a drive answers a   *)
(* command or reports an error, behind which the engine stands still until   *)
(* ST is cleared.                                                          *)
(***************************************************************************)
EXTENDS Integers, FiniteSets

CONSTANT
    Ports      \* of the controller; 0 .. 31 in the code

AhciAssumption == Ports \subseteq Nat
ASSUME AhciAssumption

VARIABLES
    drives,      \* what is at each port that is implemented: a type, or "none"
    checked,     \* _ahci_controller_checked
    loaded,      \* _ahci_driver_loaded
    drive_ports, \* the ports registered
    todo,        \* those of them that are still to be configured
    driver,      \* where the driver is, in the kernel's context
    port,        \* the port it is at
    hba,         \* the ports' registers
    disktest,    \* where disktest is, in the serial interrupt
    tests,       \* the ports it has still to read from
    failed       \* ghost: the ports where a read failed since their last start

ahci_vars == <<drives, checked, loaded, drive_ports, todo, driver, port, hba, disktest, tests,
               failed>>
command_vars == <<disktest, tests>>

(* The engine of a drive may be running when the boot loader hands over, and *)
(* the drive may be busy.                                                  *)
PortAtStart(running, spins) ==
    [st |-> running, cr |-> running, fre |-> running, fr |-> running, list |-> "firmware",
     issued |-> FALSE, tfes |-> FALSE, stuck |-> FALSE, busy |-> spins]

AhciInit ==
    /\ checked = FALSE /\ loaded = FALSE
    /\ drive_ports = {} /\ todo = {}
    /\ driver = "unused" /\ port = 0
    /\ disktest = "no" /\ tests = {}
    /\ \E running, spins \in [Ports -> BOOLEAN] :
         /\ \A p \in Ports : drives[p] = "none" => ~running[p] /\ ~spins[p]
         /\ hba = [p \in Ports |-> PortAtStart(running[p], spins[p])]
    /\ failed = {}

Set(p, field, value) == [hba EXCEPT ![p][field] = value]

-----------------------------------------------------------------------------
(* The load, up to the configuration of the ports.                           *)

(* Only ATA and ATAPI drives are registered. *)
ahci_controller_probe_ports == {p \in Ports : drives[p] \in {"SATA", "SATAPI"}}

(* The controller has no register block that is mapped: not available.       *)
load_gives_up ==
    /\ checked' = TRUE
    /\ UNCHANGED <<drives, loaded, drive_ports, todo, driver, port, hba, command_vars, failed>>

Lowest(S) == {p \in S : \A q \in S : p <= q}

ahci_drive_command_stop(p) == [hba EXCEPT ![p].st = FALSE, ![p].fre = FALSE]

(* lsdisks and disktest load the driver in the serial interrupt if nobody    *)
(* has.  With a drive the machine hangs in the stop of the first one.       *)
console_hangs == ~checked /\ ahci_controller_probe_ports # {}

console_loads(abar) ==
    IF checked THEN UNCHANGED ahci_vars
    ELSE IF ~abar THEN load_gives_up
    ELSE /\ checked' = TRUE /\ loaded' = TRUE
         /\ drive_ports' = ahci_controller_probe_ports /\ todo' = drive_ports'
         /\ IF console_hangs THEN \E p \in Lowest(todo') : hba' = ahci_drive_command_stop(p)
            ELSE hba' = hba
         /\ UNCHANGED <<drives, driver, port, command_vars, failed>>

(* ahci_driver_available, called by the kernel, and the probe, which         *)
(* registers one port after the other.                                     *)
kernel_loads(abar) ==
    /\ driver = "unused"
    /\ driver' = IF abar /\ ~checked THEN "probe" ELSE "ready"
    /\ checked' = TRUE /\ loaded' = (loaded \/ (abar /\ ~checked))
    /\ UNCHANGED <<drives, drive_ports, todo, port, hba, command_vars, failed>>

ahci_controller_register_port ==
    /\ driver = "probe"
    /\ \E p \in Lowest(ahci_controller_probe_ports \ drive_ports) :
         drive_ports' = drive_ports \cup {p} /\ todo' = todo \cup {p}
    /\ UNCHANGED <<drives, checked, loaded, driver, port, hba, command_vars, failed>>

probe_ends ==
    /\ driver = "probe" /\ ahci_controller_probe_ports \subseteq drive_ports
    /\ driver' = "ready"
    /\ UNCHANGED <<drives, checked, loaded, drive_ports, todo, port, hba, command_vars, failed>>

-----------------------------------------------------------------------------
(* Start and stop.  ahci_controller_configure_port stops the engine, gives   *)
(* the port its memory and starts it; a caller may also restart one.         *)
stop_begins(p) ==
    /\ driver = "ready"
    /\ hba' = ahci_drive_command_stop(p)
    /\ port' = p
    /\ driver' = "stop"
    /\ UNCHANGED <<drives, checked, loaded, drive_ports, todo, command_vars, failed>>

configure_port == \E p \in Lowest(todo) : stop_begins(p)
restart_port   == todo = {} /\ \E p \in drive_ports : stop_begins(p)

\* Mutant: the receive engine is not waited for.
engine_off_command(p) == ~hba[p].cr

engine_off(p) == ~hba[p].fr /\ ~hba[p].cr

(* The command list, the received FISes and the command tables; those get a  *)
(* pool of 256 / 4096 = 0 pages.                                            *)
stop_ends ==
    /\ driver = "stop"
    /\ engine_off(port)
    /\ hba' = IF port \in todo THEN Set(port, "list", "driver") ELSE hba
    /\ driver' = "start"
    /\ UNCHANGED <<drives, checked, loaded, drive_ports, todo, port, command_vars, failed>>

\* Mutant: the engine is only let receive.
engine_on_receive == Set(port, "fre", TRUE)

engine_on == [hba EXCEPT ![port].fre = TRUE, ![port].st = TRUE]

ahci_drive_command_start ==
    /\ driver = "start"
    /\ ~hba[port].cr
    /\ hba' = engine_on
    /\ todo' = todo \ {port}
    /\ failed' = failed \ {port}
    /\ driver' = "ready"
    /\ UNCHANGED <<drives, checked, loaded, drive_ports, port, command_vars>>

-----------------------------------------------------------------------------
(* ahci_drive_command_read_wait of an ATA drive; of any other it returns at  *)
(* once.  Clearing the interrupt status clears the error bit.               *)
SataPorts == {p \in drive_ports : drives[p] = "SATA"}

clear_status(p)  == Set(p, "tfes", FALSE)
issue_command(p) == Set(p, "issued", TRUE)

read_begins ==
    /\ driver = "ready" /\ todo = {}
    /\ \E p \in SataPorts : port' = p /\ hba' = clear_status(p)
    /\ driver' = "busy_wait"
    /\ UNCHANGED <<drives, checked, loaded, drive_ports, todo, command_vars, failed>>

ReadGoesTo(where) ==
    driver' = where /\ UNCHANGED <<drives, checked, loaded, drive_ports, todo, port, command_vars>>

(* The watchdog. *)
read_gives_up ==
    /\ driver = "busy_wait" /\ hba[port].busy
    /\ ReadGoesTo("ready") /\ UNCHANGED <<hba, failed>>

read_issues ==
    /\ driver = "busy_wait" /\ ~hba[port].busy
    /\ hba' = issue_command(port)
    /\ ReadGoesTo("answer") /\ UNCHANGED failed

read_fails ==
    /\ driver = "answer" /\ hba[port].tfes
    /\ failed' = failed \cup {port}
    /\ ReadGoesTo("ready") /\ UNCHANGED hba

read_succeeds ==
    /\ driver = "answer" /\ ~hba[port].tfes /\ ~hba[port].issued
    /\ ReadGoesTo("ready") /\ UNCHANGED <<hba, failed>>

AhciSteps ==
    ahci_controller_register_port \/ probe_ends
    \/ configure_port \/ stop_ends \/ ahci_drive_command_start
    \/ read_gives_up \/ read_issues \/ read_fails \/ read_succeeds

-----------------------------------------------------------------------------
(* disktest, when the driver is loaded: such a read from each drive that is  *)
(* registered, configured or not, whatever the kernel was doing with it.     *)
TestGoesTo(where) ==
    disktest' = where /\ UNCHANGED <<drives, checked, loaded, drive_ports, todo, driver, port>>

disktest_begins ==
    /\ disktest = "no" /\ loaded /\ SataPorts # {}
    /\ tests' = SataPorts
    /\ TestGoesTo("begin") /\ UNCHANGED <<hba, failed>>

NextTest(p) == tests' = tests \ {p} /\ TestGoesTo(IF tests' = {} THEN "no" ELSE "begin")

test_begins(p) ==
    /\ disktest = "begin"
    /\ hba' = clear_status(p)
    /\ TestGoesTo("busy_wait") /\ UNCHANGED <<tests, failed>>

test_gives_up(p) ==
    /\ disktest = "busy_wait" /\ hba[p].busy
    /\ NextTest(p) /\ UNCHANGED <<hba, failed>>

test_issues(p) ==
    /\ disktest = "busy_wait" /\ ~hba[p].busy
    /\ hba' = issue_command(p)
    /\ TestGoesTo("answer") /\ UNCHANGED <<tests, failed>>

test_fails(p) ==
    /\ disktest = "answer" /\ hba[p].tfes
    /\ failed' = failed \cup {p}
    /\ NextTest(p) /\ UNCHANGED hba

test_succeeds(p) ==
    /\ disktest = "answer" /\ ~hba[p].tfes /\ ~hba[p].issued
    /\ NextTest(p) /\ UNCHANGED <<hba, failed>>

DisktestSteps ==
    \E p \in Lowest(tests) :
        test_begins(p) \/ test_gives_up(p) \/ test_issues(p) \/ test_fails(p) \/ test_succeeds(p)

-----------------------------------------------------------------------------
(* The controller. *)
Rest == UNCHANGED <<drives, checked, loaded, drive_ports, todo, driver, port, command_vars, failed>>

(* The engine stops and forgets what it was told, or runs.                   *)
EngineFollows(p) ==
    /\ \/ /\ hba[p].cr # hba[p].st
          /\ hba' = [hba EXCEPT ![p].cr = hba[p].st, ![p].stuck = FALSE,
                                ![p].issued = @ /\ hba[p].st]
       \/ hba[p].fr # hba[p].fre /\ hba' = Set(p, "fr", hba[p].fre)
    /\ Rest

Takes(p) == hba[p].issued /\ hba[p].cr /\ ~hba[p].stuck

(* A drive that has a command is busy until it answers or fails.             *)
DriveAnswers(p) ==
    /\ \/ hba[p].busy /\ ~hba[p].issued /\ hba' = Set(p, "busy", FALSE)
       \/ Takes(p) /\ ~hba[p].busy /\ hba' = Set(p, "busy", TRUE)
       \/ /\ Takes(p) /\ hba[p].busy
          /\ \/ hba' = [hba EXCEPT ![p].issued = FALSE, ![p].busy = FALSE]
             \/ hba' = [hba EXCEPT ![p].tfes = TRUE, ![p].stuck = TRUE, ![p].busy = FALSE]
    /\ Rest

-----------------------------------------------------------------------------
(* The memory of a port's engine changes only while both halves of the       *)
(* engine are off, cr and fr, which follow st and fre in their own time.  A   *)
(* command is issued only to an engine that was started with the driver's    *)
(* own list, but by disktest while the kernel is in the load, or in the stop  *)
(* or the start of that very port: nothing keeps it away (ahci.c:330).       *)
Untimely(p) == disktest # "no" /\ (p \in todo \/ (driver \in {"stop", "start"} /\ port = p))

EngineIdleWhileSet ==
    [][\A p \in Ports :
         /\ hba'[p].list # hba[p].list => ~hba[p].cr /\ ~hba[p].fr
         /\ hba'[p].issued /\ ~hba[p].issued =>
              (hba[p].st /\ hba[p].list = "driver") \/ Untimely(p)]_ahci_vars

(* A command that was issued is answered and the kernel's read ends, if none *)
(* failed on the port since it was started: the driver does not restart the  *)
(* engine behind an error, and waits for the next answer for ever.  So may   *)
(* disktest, if it clears the error before the kernel has seen it: then it    *)
(* waits in its interrupt, and the kernel does not go on.                    *)
ReadsEnd == driver = "answer" /\ port \notin failed ~> driver = "ready" \/ [](disktest = "answer")
=============================================================================
