------------------------------ MODULE Console ------------------------------
(***************************************************************************)
(* The serial console: iodev/uart/uartsh.c, which sets the ports up at boot*)
(* and takes the input interrupt, and the shell behind it in shell.c.      *)
(*                                                                         *)
(* serial_console_enable runs at boot with interrupts enabled, so each of  *)
(* its steps may have an input interrupt behind it: the prompt is looked   *)
(* for, taken back and written one character at a time, and only then      *)
(* noted.  The handler itself, an interrupt gate, is one step, command and *)
(* all.  From then on nothing but the handler writes to the port.          *)
(*                                                                         *)
(* The terminal shows one line; a backspace moves the cursor left, and     *)
(* what is written next overwrites.  A text of the kernel ends the line,   *)
(* and is one step: what comes in between its characters might as well have *)
(* come before it.                                                         *)
(***************************************************************************)
EXTENDS Naturals, Sequences

CONSTANTS
    Letters,           \* printable bytes
    Commands,          \* __uart_shell_commands, sequences of letters
    UARTSH_BUFFER_MAX, \* the last index a letter is put at
    PROMPT_LENGTH,
    Ports              \* the sets of ports a machine may have

Return  == "return"    \* either of the bytes that end a line
Control == "control"   \* any other byte that is not printable
Zero    == "zero"
NoByte  == "none"
Bytes   == Letters \cup {Return, Control}

ConsoleAssumption ==
    /\ UARTSH_BUFFER_MAX \in Nat /\ PROMPT_LENGTH \in Nat
    /\ Letters \cap {Return, Control, Zero, NoByte, "#"} = {}
    /\ Commands \subseteq Seq(Letters) \ {<<>>}
    /\ \A c \in Commands : Len(c) <= UARTSH_BUFFER_MAX
    /\ Ports \subseteq SUBSET (1 .. 7)
ASSUME ConsoleAssumption

VARIABLES
    available_com_ports, _input_masked, input_port,
    input_com_gsi,     \* the port's GSI: 0, or not
    unmasked,          \* the I/O APIC lets the port's interrupt through
    output_port,       \* of uartsh.c
    shell_port,        \* output_port of shell.c
    prompt_placed,
    has_buffer,        \* command_buffer is a page rather than NULL
    command_buffer,    \* its first command_buffer_index bytes
    line, column,      \* external: the terminal
    rx,                \* external: the byte the port holds
    raised,            \* external: the interrupt waits at the local APIC
    ran,               \* the last line finalized: a command, or <<>>
    pc,                \* what serial_console_enable does next
    at,                \* where it is in uart_shell_cancel_ or replace_prompt
    cells,             \* characters it has written there
    echoed,            \* ghost: echoed since the line was begun
    torn               \* ghost: a byte was handled while the kernel wrote

ports    == <<available_com_ports, _input_masked, input_port, input_com_gsi, unmasked,
              output_port>>
place    == <<pc, at, cells>>
shell    == <<shell_port, prompt_placed, has_buffer, command_buffer>>
terminal == <<line, column>>
port     == <<rx, raised>>
vars     == <<ports, shell, terminal, port, ran, place, echoed, torn>>

-----------------------------------------------------------------------------
(* The terminal t = [line, column]; __uart_internal_write writes nothing     *)
(* when the shell has no port yet.                                           *)
Cell(t, c) ==
    [line |-> IF t.column < Len(t.line) THEN [t.line EXCEPT ![t.column + 1] = c]
              ELSE Append(t.line, c),
     column |-> t.column + 1]
NewLine == [line |-> <<>>, column |-> 0]
Prompt == [i \in 1 .. PROMPT_LENGTH |-> "#"]
PromptLine == [line |-> Prompt, column |-> PROMPT_LENGTH]
Back(t) == [line |-> t.line, column |-> IF t.column = 0 THEN 0 ELSE t.column - 1]
Terminal == [line |-> line, column |-> column]
Shows(t) == line' = t.line /\ column' = t.column
OnPort(t) == IF shell_port = 0 THEN Terminal ELSE t

-----------------------------------------------------------------------------
(* serial_console_enable, step by step. *)
At(here, next) == pc = here /\ pc' = next /\ UNCHANGED <<at, cells>>

scan_ports ==
    /\ At("scan", "input")
    /\ available_com_ports' \in Ports
    /\ UNCHANGED <<_input_masked, input_port, input_com_gsi, unmasked, output_port, shell,
                   terminal, port, ran, echoed, torn>>

Lowest(S) == CHOOSE p \in S : \A q \in S : p <= q

(* Only the first two ports have an interrupt, still masked. *)
serial_select_input_port ==
    /\ At("input", "output")
    /\ input_port' = IF available_com_ports \cap {1, 2} = {} THEN 0
                     ELSE Lowest(available_com_ports \cap {1, 2})
    /\ input_com_gsi' \in IF input_port' = 0 THEN {0} ELSE {0, 1}
    /\ unmasked' = (input_port' # 0 /\ ~_input_masked)
    /\ UNCHANGED <<available_com_ports, _input_masked, output_port, shell, terminal, port, ran,
                   echoed, torn>>

serial_select_output_port ==
    /\ At("output", "unmask")
    /\ output_port' = IF available_com_ports = {} THEN 0 ELSE Lowest(available_com_ports)
    /\ UNCHANGED <<available_com_ports, _input_masked, input_port, input_com_gsi, unmasked,
                   shell, terminal, port, ran, echoed, torn>>

\* Mutant: the interrupt stays masked at the I/O APIC.
unmask_flag_only ==
    /\ At("unmask", "cancel1")
    /\ _input_masked' = FALSE
    /\ UNCHANGED <<available_com_ports, input_port, input_com_gsi, unmasked, output_port,
                   shell, terminal, port, ran, echoed, torn>>

(* A line that was found to be 0 stays as it is. *)
serial_set_input_masked ==
    /\ At("unmask", "cancel1")
    /\ _input_masked' = FALSE
    /\ unmasked' = (unmasked \/ input_com_gsi # 0)
    /\ UNCHANGED <<available_com_ports, input_port, input_com_gsi, output_port, shell,
                   terminal, port, ran, echoed, torn>>

(* __uart_internal_write of one more character of the prompt, or of the      *)
(* backspaces over it: nothing is written when the shell has no port.        *)
MoreCells == cells < PROMPT_LENGTH /\ shell_port # 0

write_cell(here, here_at, t) ==
    /\ pc = here /\ at = here_at /\ MoreCells
    /\ Shows(t) /\ cells' = cells + 1
    /\ UNCHANGED <<ports, shell, port, ran, pc, at, echoed, torn>>

(* uart_shell_cancel_prompt: look for a prompt, take it back, note it.       *)
GoesOn(next, next_at) == pc' = next /\ at' = next_at /\ cells' = 0

finds_prompt(here) ==
    /\ pc = here /\ at = "check" /\ prompt_placed
    /\ GoesOn(here, "back")
    /\ UNCHANGED <<ports, shell, terminal, port, ran, echoed, torn>>

finds_none(here, next, next_at) ==
    /\ pc = here /\ at = "check" /\ ~prompt_placed
    /\ GoesOn(next, next_at)
    /\ UNCHANGED <<ports, shell, terminal, port, ran, echoed, torn>>

takes_back(here, next, next_at) ==
    /\ pc = here /\ at = "back" /\ ~MoreCells
    /\ prompt_placed' = FALSE
    /\ GoesOn(next, next_at)
    /\ UNCHANGED <<ports, shell_port, has_buffer, command_buffer, terminal, port, ran, echoed,
                   torn>>

uart_shell_cancel_prompt(here, next, next_at) ==
    \/ finds_prompt(here)
    \/ finds_none(here, next, next_at)
    \/ write_cell(here, "back", Back(Terminal))
    \/ takes_back(here, next, next_at)

(* uart_shell_replace_prompt: the same, then the prompt, then note it.       *)
places(here, next) ==
    /\ pc = here /\ at = "prompt" /\ ~MoreCells
    /\ prompt_placed' = TRUE
    /\ GoesOn(next, "check")
    /\ UNCHANGED <<ports, shell_port, has_buffer, command_buffer, terminal, port, ran, echoed,
                   torn>>

uart_shell_replace_prompt(here, next) ==
    \/ uart_shell_cancel_prompt(here, here, "prompt")
    \/ write_cell(here, "prompt", Cell(Terminal, "#"))
    \/ places(here, next)

(* serial_write: cancel the prompt, write, put the prompt back. *)
write_text(here, next, end) ==
    /\ pc = here /\ at = "check"
    /\ GoesOn(IF output_port = 0 THEN end ELSE next, "check")
    /\ Shows(IF output_port = 0 THEN Terminal ELSE NewLine)
    /\ echoed' = IF command_buffer = <<>> THEN <<>> ELSE echoed
    /\ torn' = (torn /\ command_buffer # <<>>)
    /\ UNCHANGED <<ports, shell, port, ran>>

(* uart_shell_start *)
start_port ==
    /\ At("start", "start_buffer")
    /\ shell_port' = output_port
    /\ UNCHANGED <<ports, prompt_placed, has_buffer, command_buffer, terminal, port, ran, echoed, torn>>

\* Mutant: the shell is given no page.
start_without_buffer ==
    /\ At("start_buffer", "start_index")
    /\ UNCHANGED <<ports, shell, terminal, port, ran, echoed, torn>>

start_buffer ==
    /\ At("start_buffer", "start_index")
    /\ has_buffer' = TRUE
    /\ UNCHANGED <<ports, shell_port, prompt_placed, command_buffer, terminal, port, ran, echoed, torn>>

start_index ==
    /\ At("start_index", "start_clear")
    /\ command_buffer' = <<>>
    /\ UNCHANGED <<ports, shell_port, prompt_placed, has_buffer, terminal, port, ran, echoed, torn>>

start_clear ==
    /\ At("start_clear", "start_unplaced")
    /\ command_buffer' = [i \in DOMAIN command_buffer |-> Zero]
    /\ UNCHANGED <<ports, shell_port, prompt_placed, has_buffer, terminal, port, ran, echoed, torn>>

start_unplaced ==
    /\ At("start_unplaced", "start_prompt")
    /\ prompt_placed' = FALSE
    /\ UNCHANGED <<ports, shell_port, has_buffer, command_buffer, terminal, port, ran, echoed, torn>>

serial_console_enable ==
    \/ scan_ports
    \/ serial_select_input_port
    \/ serial_select_output_port
    \/ serial_set_input_masked
    \/ uart_shell_cancel_prompt("cancel1", "write1", "check")
    \/ write_text("write1", "replace1", "start")
    \/ uart_shell_replace_prompt("replace1", "start")
    \/ start_port
    \/ start_buffer
    \/ start_index
    \/ start_clear
    \/ start_unplaced
    \/ uart_shell_replace_prompt("start_prompt", "cancel2")
    \/ uart_shell_cancel_prompt("cancel2", "write2", "check")
    \/ write_text("write2", "replace2", "up")
    \/ uart_shell_replace_prompt("replace2", "up")

-----------------------------------------------------------------------------
(* __uart_shell_handle_character *)
Text(b) ==
    IF \E i \in DOMAIN b : b[i] = Zero
    THEN SubSeq(b, 1, (CHOOSE i \in DOMAIN b : b[i] = Zero /\ \A j \in 1 .. i - 1 : b[j] # Zero) - 1)
    ELSE b

\* Mutant: a command that begins the text matches.
match_prefix(text, command) ==
    Len(command) <= Len(text) /\ SubSeq(text, 1, Len(command)) = command

__uart_command_match(text, command) ==
    text = command

(* The kernel's last prompt is partly taken back or not yet written to the   *)
(* end: if the line ends here the handler's prompt stands, and the rest of   *)
(* the kernel's is written behind it.                                      *)
MidPrompt == pc = "replace2" /\ ((at = "back" /\ cells > 0) \/ (at = "prompt" /\ MoreCells))

(* The end of a line: uart_shell_command_finalize.  Whether there is nothing *)
(* in the buffer, a command or anything else, a new line is begun and the    *)
(* prompt placed; the buffer is cleared unless it is empty anyway.           *)
Finalized ==
    /\ Shows(OnPort(PromptLine))
    /\ prompt_placed' = TRUE
    /\ ran' = IF \E c \in Commands : __uart_command_match(Text(command_buffer), c)
              THEN CHOOSE c \in Commands : __uart_command_match(Text(command_buffer), c)
              ELSE <<>>
    /\ echoed' = <<>>
    /\ torn' = MidPrompt
    /\ UNCHANGED <<shell_port, has_buffer, place>>

\* Mutant: a command that was run stays in the buffer.
finalize_keeps_command ==
    /\ Finalized
    /\ command_buffer' = IF ran' # <<>> THEN command_buffer ELSE <<>>

uart_shell_command_finalize ==
    /\ Finalized
    /\ command_buffer' = <<>>

Appended(c) ==
    IF Len(command_buffer) <= UARTSH_BUFFER_MAX THEN Append(command_buffer, c) ELSE command_buffer

(* Without a buffer the write goes to page 0, and the machine halts. *)
echo_character(c) ==
    /\ Shows(OnPort(Cell(Terminal, c)))
    /\ IF has_buffer THEN command_buffer' = Appended(c) /\ pc' = pc
       ELSE command_buffer' = command_buffer /\ pc' = "halted"
    /\ echoed' = Append(echoed, c)
    /\ torn' = (torn \/ pc # "up")
    /\ UNCHANGED <<shell_port, prompt_placed, has_buffer, ran, at, cells>>

ignore_character == UNCHANGED <<shell, terminal, ran, place, echoed, torn>>

(* __uart_input_irq_handler *)
uart_input_irq ==
    /\ pc # "halted" /\ raised /\ rx # NoByte /\ ~_input_masked
    /\ rx' = NoByte /\ raised' = FALSE
    /\ IF rx = Return THEN uart_shell_command_finalize
       ELSE IF rx = Control THEN ignore_character
       ELSE echo_character(rx)
    /\ UNCHANGED ports

(* The terminal sends a byte; one the port still holds is overrun.  The      *)
(* interrupt is edge-triggered: the port raises its line when it receives a  *)
(* byte while it holds none, and the I/O APIC ignores that while it masks.   *)
Receive ==
    /\ pc # "halted"
    /\ rx' \in IF Len(echoed) <= UARTSH_BUFFER_MAX + 1 THEN Bytes ELSE {Return}
    /\ raised' = (raised \/ (rx = NoByte /\ unmasked))
    /\ UNCHANGED <<ports, shell, terminal, ran, place, echoed, torn>>

Init ==
    /\ available_com_ports = {} /\ _input_masked = TRUE /\ input_port = 0 /\ input_com_gsi = 0
    /\ unmasked = FALSE /\ output_port = 0 /\ shell_port = 0
    /\ prompt_placed = FALSE /\ has_buffer = FALSE /\ command_buffer = <<>>
    /\ line = <<>> /\ column = 0 /\ rx = NoByte /\ raised = FALSE /\ ran = <<>>
    /\ pc = "scan" /\ at = "check" /\ cells = 0 /\ echoed = <<>> /\ torn = FALSE

Next == serial_console_enable \/ uart_input_irq \/ Receive
Spec == Init /\ [][Next]_vars /\ WF_vars(serial_console_enable) /\ WF_vars(uart_input_irq)

-----------------------------------------------------------------------------
(* Properties *)

(* The buffer is a page: the index a command is ended at (shell.c:154) is    *)
(* inside it, whatever is typed.                                             *)
TypeOK ==
    /\ available_com_ports \in Ports \cup {{}}
    /\ {_input_masked, unmasked, raised, prompt_placed, has_buffer, torn} \subseteq BOOLEAN
    /\ input_port \in {0, 1, 2} /\ {output_port, shell_port} \subseteq 0 .. 7
    /\ input_com_gsi \in {0, 1}
    /\ at \in {"check", "back", "prompt"} /\ cells \in 0 .. PROMPT_LENGTH
    /\ command_buffer \in Seq(Letters \cup {Zero})
    /\ Len(command_buffer) <= UARTSH_BUFFER_MAX + 1
    /\ line \in Seq(Letters \cup {"#"}) /\ column \in Nat
    /\ echoed \in Seq(Letters) /\ ran \in Commands \cup {<<>>}
    /\ rx \in Bytes \cup {NoByte}

(* The console is up and nothing typed has gone between what the kernel      *)
(* wrote since the line was begun: no letter that the buffer kept while the  *)
(* console booted, or that came behind the last text (either stands on a     *)
(* line of the kernel's until the next Return), and no Return while the last *)
(* prompt is made (shell.c:49-50), which leaves two.                       *)
Settled == pc = "up" /\ ~torn

(* The terminal shows a prompt and after it the line being edited, which is  *)
(* what the buffer holds as far as it reaches: what a prompt on top of       *)
(* another or a buffer that outlives its line would break (shell.c:39-59,    *)
(* 148-167).                                                                 *)
PromptStands ==
    Settled /\ shell_port # 0 =>
        /\ prompt_placed
        /\ line = Prompt \o echoed /\ column = Len(line)
        /\ command_buffer = IF Len(echoed) <= UARTSH_BUFFER_MAX + 1 THEN echoed
                            ELSE SubSeq(echoed, 1, UARTSH_BUFFER_MAX + 1)

(* A line the terminal showed in full is run if it is a command, and it      *)
(* alone (shell.c:116-125, 148-167).                                         *)
RunsWhatIsShown ==
    [][ (Settled /\ uart_input_irq /\ rx = Return) =>
            ran' = IF echoed \in Commands THEN echoed ELSE <<>> ]_vars

(* The machine halts on a byte typed at boot, and only between the moment    *)
(* the input is unmasked and the shell has its page: the input is unmasked   *)
(* (uartsh.c:138) before the shell is started (uartsh.c:140, shell.c:171).   *)
HaltsOnlyAtStart ==
    [][ pc' = "halted" /\ pc # "halted" =>
            pc \in {"cancel1", "write1", "replace1", "start", "start_buffer"} ]_vars

(* When the port is empty once the console is up, each byte it receives from *)
(* then on is taken: no edge of the line is lost any more.  A port on GSI 0  *)
(* is never listened to (uartsh.c:104).                                    *)
ListensFromThenOn ==
    [](pc = "up" /\ input_com_gsi # 0 /\ rx = NoByte => [](rx # NoByte ~> rx = NoByte))
=============================================================================
