---------------------------- MODULE ConsoleProofs ----------------------------
(***************************************************************************)
(* The serial console, for every set of letters, of commands and of ports,   *)
(* and every length of the buffer and of the prompt.                        *)
(*                                                                         *)
(* The argument.  Until the console is up a byte that is echoed makes the     *)
(* line torn, so a line that is not has nothing in it (Untouched), whatever   *)
(* the kernel wrote meanwhile.  Its last prompt is followed character by      *)
(* character (LastPrompt): what stands there is nothing, the prompt of a      *)
(* Return or as much of the kernel's as is written.  Once it is up only the   *)
(* handler writes, and a line that is not torn is the prompt and what was     *)
(* echoed (Editing).                                                         *)
(***************************************************************************)
EXTENDS Console, TLAPS, SequenceTheorems, WellFoundedInduction

Cells == Letters \cup {"#"}
BufferBytes == Letters \cup {Zero}

(* Where serial_console_enable can be, in the code's order. *)
Masked     == {"scan", "input", "output", "unmask"}
BeforeShell == Masked \cup {"cancel1", "write1", "replace1", "start"}
WithPage   == {"start_index", "start_clear", "start_unplaced", "start_prompt",
               "cancel2", "write2", "replace2", "up"}
Places     == BeforeShell \cup {"start_buffer"} \cup WithPage \cup {"halted"}

(* What of a line the buffer holds. *)
Held(s) == IF Len(s) <= UARTSH_BUFFER_MAX + 1 THEN s ELSE SubSeq(s, 1, UARTSH_BUFFER_MAX + 1)

(* A terminal: the cursor is in its line or behind it. *)
Sound(t) == t.line \in Seq(Cells) /\ t.column \in Nat /\ t.column <= Len(t.line)

PlaceInv ==
    /\ pc \in Places
    /\ pc \in Masked => _input_masked = TRUE
    /\ pc \in WithPage => has_buffer = TRUE
    /\ pc \in BeforeShell => shell_port = 0
    /\ shell_port # 0 => output_port = shell_port

Untouched ==
    pc \notin {"up", "halted"} /\ torn = FALSE => echoed = <<>> /\ command_buffer = <<>>

(* As much of the prompt as n characters are. *)
Hashes(n) == [i \in 1 .. n |-> "#"]

(* What the terminal shows while the kernel's last prompt is made. *)
Empty    == line = <<>> /\ column = 0
Checked  == Empty \/ (prompt_placed = TRUE /\ line = Prompt /\ column = PROMPT_LENGTH)
TakenBack == Empty \/ (line = Prompt /\ column = PROMPT_LENGTH - cells)
Written  == column = cells /\ (line = Prompt \/ line = Hashes(cells))

LastPrompt ==
    pc = "replace2" /\ torn = FALSE /\ shell_port # 0 =>
        /\ at = "check" => Checked
        /\ at = "back" => TakenBack
        /\ at = "prompt" => Written

Editing ==
    pc = "up" /\ torn = FALSE =>
        /\ command_buffer = Held(echoed)
        /\ shell_port # 0 =>
             prompt_placed = TRUE /\ line = Prompt \o echoed /\ column = Len(line)

(* Without a port the shell writes nothing. *)
Silent == shell_port = 0 => line = <<>> /\ column = 0

IInv == TypeOK /\ Sound(Terminal) /\ PlaceInv /\ Untouched /\ LastPrompt /\ Editing /\ Silent

-----------------------------------------------------------------------------
(* The terminal and the buffer. *)

(* The constants are what the code makes them. *)
LEMMA Consts ==
    /\ UARTSH_BUFFER_MAX \in Nat /\ PROMPT_LENGTH \in Nat
    /\ Letters \cap {Return, Control, Zero, NoByte, "#"} = {}
    /\ Commands \subseteq Seq(Letters) \ {<<>>}
    /\ \A c \in Commands : Len(c) <= UARTSH_BUFFER_MAX
    /\ Ports \subseteq SUBSET (1 .. 7)
  BY ConsoleAssumption DEF ConsoleAssumption

(* The prompt is a text of its length. *)
LEMMA PromptIs == Prompt \in Seq(Cells) /\ Len(Prompt) = PROMPT_LENGTH
  <1>1. Prompt \in [1 .. PROMPT_LENGTH -> Cells]
    BY Consts DEF Prompt, Cells
  <1>2. Prompt \in Seq(Cells)
    BY <1>1, Consts, SeqDef
  <1>3. DOMAIN Prompt = 1 .. PROMPT_LENGTH
    BY DEF Prompt
  <1> QED BY <1>2, <1>3, Consts

(* The screen is a terminal. *)
LEMMA TerminalIs == Terminal.line = line /\ Terminal.column = column
  BY DEF Terminal

(* A new line is empty. *)
LEMMA NewLineIs == NewLine.line = <<>> /\ NewLine.column = 0 /\ Sound(NewLine)
  <1>1. NewLine.line = <<>> /\ NewLine.column = 0
    BY DEF NewLine
  <1>2. <<>> \in Seq(Cells) /\ Len(<<>>) = 0
    BY EmptySeq
  <1> QED BY <1>1, <1>2 DEF Sound

(* So is the line of a prompt. *)
LEMMA PromptLineIs ==
    PromptLine.line = Prompt /\ PromptLine.column = PROMPT_LENGTH /\ Sound(PromptLine)
  <1>1. PromptLine.line = Prompt /\ PromptLine.column = PROMPT_LENGTH
    BY DEF PromptLine
  <1> QED BY <1>1, PromptIs, Consts DEF Sound

(* A part of the prompt is a text of its length, and all of it the prompt. *)
LEMMA HashesIs ==
    /\ \A n \in Nat : Hashes(n) \in Seq(Cells) /\ Len(Hashes(n)) = n
    /\ Hashes(0) = <<>>
    /\ Hashes(PROMPT_LENGTH) = Prompt
  <1>1. ASSUME NEW n \in Nat PROVE Hashes(n) \in Seq(Cells) /\ Len(Hashes(n)) = n
    <2>1. Hashes(n) \in [1 .. n -> Cells] /\ DOMAIN Hashes(n) = 1 .. n
      BY DEF Hashes, Cells
    <2>2. Hashes(n) \in Seq(Cells)
      BY <2>1, SeqDef
    <2> QED BY <2>1, <2>2
  <1>2. Hashes(0) = <<>>
    BY <1>1, EmptySeq
  <1>3. Hashes(PROMPT_LENGTH) = Prompt
    BY DEF Hashes, Prompt
  <1> QED BY <1>1, <1>2, <1>3

(* A backspace moves the cursor only. *)
LEMMA BackIs ==
    ASSUME NEW t, Sound(t)
    PROVE  /\ Sound(Back(t)) /\ Back(t).line = t.line
           /\ Back(t).column = IF t.column = 0 THEN 0 ELSE t.column - 1
  <1>1. Back(t).line = t.line /\ Back(t).column = IF t.column = 0 THEN 0 ELSE t.column - 1
    BY DEF Back
  <1>2. t.line \in Seq(Cells) /\ t.column \in Nat /\ t.column <= Len(t.line) /\ Len(t.line) \in Nat
    BY DEF Sound
  <1> HIDE DEF Back
  <1>3. Back(t).column \in Nat /\ Back(t).column <= Len(t.line)
    BY <1>1, <1>2
  <1> QED BY <1>1, <1>2, <1>3 DEF Sound

(* A character behind the line makes it longer. *)
LEMMA CellIs ==
    ASSUME NEW t, Sound(t), NEW c \in Cells
    PROVE  /\ Sound(Cell(t, c))
           /\ t.column = Len(t.line) =>
                Cell(t, c).line = Append(t.line, c) /\ Cell(t, c).column = t.column + 1
  <1> DEFINE w == Cell(t, c)
             n == Len(t.line)
  <1>1. t.line \in Seq(Cells) /\ t.column \in Nat /\ t.column <= n /\ n \in Nat /\ c \in Cells
    BY DEF Sound
  <1>2. w.line = IF t.column < n THEN [t.line EXCEPT ![t.column + 1] = c] ELSE Append(t.line, c)
    BY DEF Cell
  <1>3. w.column = t.column + 1
    BY DEF Cell
  <1> HIDE DEF w
  <1>4. CASE t.column < n
    <2>1. t.column + 1 \in 1 .. n
      BY <1>1, <1>4
    <2>2. /\ [t.line EXCEPT ![t.column + 1] = c] \in Seq(Cells)
          /\ Len([t.line EXCEPT ![t.column + 1] = c]) = n
      BY <1>1, <2>1, ExceptSeq
    <2>3. w.line \in Seq(Cells) /\ Len(w.line) = n
      BY <1>2, <1>4, <2>2
    <2> HIDE DEF n
    <2>4. Sound(w) /\ t.column # n
      BY <1>1, <1>3, <1>4, <2>1, <2>3 DEF Sound
    <2> QED BY <2>4 DEF w, n
  <1>5. CASE ~(t.column < n)
    <2>1. w.line = Append(t.line, c)
      BY <1>2, <1>5
    <2>2. w.line \in Seq(Cells) /\ Len(w.line) = n + 1
      BY <1>1, <2>1, AppendProperties
    <2>3. Sound(w)
      BY <1>1, <1>3, <2>2 DEF Sound
    <2> QED BY <1>3, <2>1, <2>3 DEF w
  <1> QED BY <1>4, <1>5

(* The next character of the prompt, at the end of what there is of it or     *)
(* over the one before it.                                                 *)
LEMMA HashCell ==
    ASSUME NEW t, Sound(t), t.column < PROMPT_LENGTH
    PROVE  LET w == Cell(t, "#")
           IN  /\ w.column = t.column + 1
               /\ t.line = Prompt => w.line = Prompt
               /\ t.line = Hashes(t.column) => w.line = Hashes(t.column + 1)
  <1> DEFINE w == Cell(t, "#")
             k == t.column
  <1>1. k \in Nat /\ PROMPT_LENGTH \in Nat /\ "#" \in Cells
    BY Consts DEF Sound, Cells
  <1>2. w.line = (IF k < Len(t.line) THEN [t.line EXCEPT ![k + 1] = "#"] ELSE Append(t.line, "#"))
    BY DEF Cell
  <1>3. w.column = k + 1
    BY DEF Cell
  <1> HIDE DEF w
  <1>4. ASSUME t.line = Prompt PROVE w.line = Prompt
    <2>1. w.line = [Prompt EXCEPT ![k + 1] = "#"]
      BY <1>1, <1>2, <1>4, PromptIs
    <2>2. [Prompt EXCEPT ![k + 1] = "#"] = Prompt
      BY <1>1 DEF Prompt
    <2> QED BY <2>1, <2>2
  <1>5. ASSUME t.line = Hashes(k) PROVE w.line = Hashes(k + 1)
    <2>1. Hashes(k) \in Seq(Cells) /\ Len(Hashes(k)) = k
      BY <1>1, HashesIs
    <2>2. Hashes(k + 1) \in Seq(Cells) /\ Len(Hashes(k + 1)) = k + 1
      <3>1. k + 1 \in Nat
        BY <1>1
      <3> HIDE DEF k
      <3> QED BY <3>1, HashesIs
    <2>3. w.line = Append(Hashes(k), "#")
      BY <1>1, <1>2, <1>5, <2>1
    <2>4. w.line \in Seq(Cells) /\ Len(w.line) = k + 1
      BY <1>1, <2>1, <2>3, AppendProperties
    <2>5. ASSUME NEW j \in 1 .. k + 1 PROVE w.line[j] = Hashes(k + 1)[j]
      <3>1. Hashes(k + 1)[j] = "#"
        BY DEF Hashes
      <3>2. CASE j = k + 1
        BY <1>1, <2>1, <2>3, <3>1, <3>2
      <3>3. CASE j # k + 1
        <4>1. j \in 1 .. k
          BY <1>1, <3>3
        <4>2. Hashes(k)[j] = "#"
          BY <4>1 DEF Hashes
        <4>3. w.line[j] = Hashes(k)[j]
          <5>1. \A i \in 1 .. Len(Hashes(k)) : Append(Hashes(k), "#")[i] = Hashes(k)[i]
            BY <1>1, <2>1, AppendProperties
          <5> QED BY <2>1, <2>3, <4>1, <5>1
        <4> QED BY <3>1, <4>2, <4>3
      <3> QED BY <3>2, <3>3
    <2> QED BY <2>2, <2>4, <2>5, SeqEqual
  <1> QED BY <1>3, <1>4, <1>5 DEF w

(* What is appended to a line that the buffer holds is held, as far as it     *)
(* reaches.                                                                *)
LEMMA HeldIs ==
    ASSUME NEW s \in Seq(Letters), NEW c \in Letters, command_buffer = Held(s)
    PROVE  Appended(c) = Held(Append(s, c))
  <1> DEFINE m == UARTSH_BUFFER_MAX + 1
             r == Append(s, c)
             h == SubSeq(s, 1, m)
  <1>1. UARTSH_BUFFER_MAX \in Nat /\ m \in Nat /\ m \in Int
    BY Consts
  <1>2. Len(s) \in Nat /\ r \in Seq(Letters) /\ Len(r) = Len(s) + 1 /\ \A k \in 1 .. Len(s) : r[k] = s[k]
    BY AppendProperties
  <1>3. Held(r) = IF Len(r) <= m THEN r ELSE SubSeq(r, 1, m)
    BY DEF Held
  <1>4. command_buffer = IF Len(s) <= m THEN s ELSE h
    BY DEF Held
  <1>5. Appended(c) = IF Len(command_buffer) <= UARTSH_BUFFER_MAX
                      THEN Append(command_buffer, c) ELSE command_buffer
    BY DEF Appended
  <1>6. CASE Len(s) <= UARTSH_BUFFER_MAX
    <2>1. Len(s) <= m /\ Len(r) <= m
      BY <1>1, <1>2, <1>6
    <2> HIDE DEF m, h, r
    <2> QED BY <1>3, <1>4, <1>5, <1>6, <2>1 DEF r
  <1>7. CASE ~(Len(s) <= UARTSH_BUFFER_MAX)
    <2>1. m <= Len(s) /\ ~(Len(r) <= m)
      BY <1>1, <1>2, <1>7
    <2>2. \A k \in 1 .. m : s[k] \in Letters /\ r[k] \in Letters /\ r[k] = s[k]
      BY <1>1, <1>2, <2>1
    <2>3. /\ h \in Seq(Letters) /\ Len(h) = (IF 1 <= m THEN m - 1 + 1 ELSE 0)
          /\ \A k \in 1 .. m - 1 + 1 : h[k] = s[1 + k - 1]
      <3> HIDE DEF m
      <3> QED BY <1>1, <2>2, SubSeqProperties
    <2> DEFINE g == SubSeq(r, 1, m)
    <2>4. /\ g \in Seq(Letters) /\ Len(g) = (IF 1 <= m THEN m - 1 + 1 ELSE 0)
          /\ \A k \in 1 .. m - 1 + 1 : g[k] = r[1 + k - 1]
      <3> HIDE DEF m, r
      <3> QED BY <1>1, <2>2, SubSeqProperties
    <2> HIDE DEF g, h
    <2>5. Len(h) = m /\ Len(g) = m
      BY <1>1, <2>3, <2>4
    <2>6. \A k \in 1 .. m : g[k] = h[k]
      <3>1. \A k \in 1 .. m : k \in 1 .. m - 1 + 1 /\ 1 + k - 1 = k
        BY <1>1
      <3> HIDE DEF m, r
      <3> QED BY <2>2, <2>3, <2>4, <3>1
    <2>7. g = h
      BY <2>3, <2>4, <2>5, <2>6, SeqEqual
    <2>8. command_buffer = h
      <3>1. CASE Len(s) <= m
        <4>1. Len(s) = m
          BY <1>1, <1>2, <2>1, <3>1
        <4>2. \A k \in 1 .. m : h[k] = s[k]
          BY <1>1, <2>3
        <4>3. h = s
          BY <2>3, <2>5, <4>1, <4>2, SeqEqual
        <4> QED BY <1>4, <3>1, <4>3
      <3>2. CASE ~(Len(s) <= m)
        BY <1>4, <3>2
      <3> QED BY <3>1, <3>2
    <2>9. Appended(c) = h
      BY <1>1, <1>5, <2>5, <2>8
    <2> QED BY <1>3, <2>1, <2>7, <2>9 DEF g
  <1> QED BY <1>6, <1>7

-----------------------------------------------------------------------------
(* The types, one by one. *)

(* What TypeOK says of each variable. *)
LEMMA Types ==
    ASSUME TypeOK
    PROVE  /\ available_com_ports \in Ports \cup {{}}
           /\ _input_masked \in BOOLEAN /\ unmasked \in BOOLEAN /\ raised \in BOOLEAN
           /\ prompt_placed \in BOOLEAN /\ has_buffer \in BOOLEAN /\ torn \in BOOLEAN
           /\ input_port \in {0, 1, 2} /\ output_port \in 0 .. 7 /\ shell_port \in 0 .. 7
           /\ command_buffer \in Seq(BufferBytes) /\ Len(command_buffer) <= UARTSH_BUFFER_MAX + 1
           /\ line \in Seq(Cells) /\ column \in Nat
           /\ echoed \in Seq(Letters) /\ ran \in Commands \cup {<<>>}
           /\ rx \in Bytes \cup {NoByte} /\ input_com_gsi \in {0, 1}
           /\ at \in {"check", "back", "prompt"} /\ cells \in 0 .. PROMPT_LENGTH
  BY DEF TypeOK, Cells, BufferBytes

(* And what it asks of a step: of the ports, of the shell and of the rest. *)
PortTypes ==
    /\ available_com_ports \in Ports \cup {{}}
    /\ _input_masked \in BOOLEAN /\ unmasked \in BOOLEAN
    /\ input_port \in {0, 1, 2} /\ output_port \in 0 .. 7 /\ input_com_gsi \in {0, 1}
ShellTypes ==
    /\ shell_port \in 0 .. 7 /\ prompt_placed \in BOOLEAN /\ has_buffer \in BOOLEAN
    /\ command_buffer \in Seq(BufferBytes) /\ Len(command_buffer) <= UARTSH_BUFFER_MAX + 1
RestTypes ==
    /\ raised \in BOOLEAN /\ rx \in Bytes \cup {NoByte}
    /\ echoed \in Seq(Letters) /\ ran \in Commands \cup {<<>>} /\ torn \in BOOLEAN
PromptTypes == at \in {"check", "back", "prompt"} /\ cells \in 0 .. PROMPT_LENGTH

(* The four and a terminal are all. *)
LEMMA TypesAre ==
    TypeOK /\ Sound(Terminal)
      <=> PortTypes /\ ShellTypes /\ RestTypes /\ PromptTypes /\ Sound(Terminal)
  <1>1. Sound(Terminal) => line \in Seq(Cells) /\ column \in Nat
    BY TerminalIs DEF Sound
  <1>2. ASSUME TypeOK PROVE PortTypes /\ ShellTypes /\ RestTypes /\ PromptTypes
    BY <1>2, Types DEF PortTypes, ShellTypes, RestTypes, PromptTypes
  <1>3. ASSUME PortTypes, ShellTypes, RestTypes, PromptTypes, Sound(Terminal) PROVE TypeOK
    <2>1. {_input_masked, unmasked, raised, prompt_placed, has_buffer, torn} \subseteq BOOLEAN
      <3>1. /\ _input_masked \in BOOLEAN /\ unmasked \in BOOLEAN /\ raised \in BOOLEAN
            /\ prompt_placed \in BOOLEAN /\ has_buffer \in BOOLEAN /\ torn \in BOOLEAN
        BY <1>3 DEF PortTypes, ShellTypes, RestTypes
      <3> QED BY <3>1, Zenon
    <2>2. {output_port, shell_port} \subseteq 0 .. 7
      BY <1>3 DEF PortTypes, ShellTypes
    <2>3. line \in Seq(Cells) /\ column \in Nat
      BY <1>1, <1>3
    <2> QED BY <1>3, <2>1, <2>2, <2>3, Zenon
            DEF TypeOK, PortTypes, ShellTypes, RestTypes, PromptTypes, Cells, BufferBytes
  <1> QED BY <1>2, <1>3

(* A step shows a terminal that is sound. *)
LEMMA ShowsIs ==
    ASSUME NEW t, Sound(t), line' = t.line, column' = t.column
    PROVE  Sound(Terminal)'
  <1>1. Terminal' = [line |-> t.line, column |-> t.column]
    BY DEF Terminal
  <1>2. Terminal'.line = t.line /\ Terminal'.column = t.column
    BY <1>1
  <1> QED BY <1>2 DEF Sound, Cells

(* Nothing is held of an empty line. *)
LEMMA HeldEmpty == Held(<<>>) = <<>>
  <1>1. Len(<<>>) = 0 /\ UARTSH_BUFFER_MAX \in Nat
    BY Consts, EmptySeq
  <1>2. 0 <= UARTSH_BUFFER_MAX + 1
    BY <1>1
  <1> QED BY <1>1, <1>2 DEF Held

(* The empty line of a prompt. *)
LEMMA FreshLine ==
    ASSUME line' = Prompt, column' = PROMPT_LENGTH, echoed' = <<>>
    PROVE  line' = Prompt \o echoed' /\ column' = Len(line')
  BY PromptIs, ConcatEmptySeq

-----------------------------------------------------------------------------
(* serial_console_enable *)

(* The machine starts with nothing. *)
LEMMA InitInv == ASSUME Init PROVE IInv
  <1>1. /\ available_com_ports = {} /\ _input_masked = TRUE /\ input_port = 0
        /\ unmasked = FALSE /\ output_port = 0 /\ shell_port = 0
        /\ prompt_placed = FALSE /\ has_buffer = FALSE /\ command_buffer = <<>>
        /\ line = <<>> /\ column = 0 /\ rx = NoByte /\ raised = FALSE /\ ran = <<>>
        /\ pc = "scan" /\ echoed = <<>> /\ torn = FALSE /\ at = "check" /\ cells = 0
        /\ input_com_gsi = 0
    BY DEF Init
  <1>2. Len(<<>>) = 0 /\ <<>> \in Seq(Cells) /\ <<>> \in Seq(BufferBytes) /\ <<>> \in Seq(Letters)
    BY EmptySeq
  <1>3. Sound(Terminal)
    BY <1>1, <1>2, TerminalIs DEF Sound
  <1>4. PortTypes
    <2>1. _input_masked \in BOOLEAN /\ unmasked \in BOOLEAN
      BY <1>1, Zenon
    <2>2. /\ input_port \in {0, 1, 2} /\ output_port \in 0 .. 7
          /\ available_com_ports \in Ports \cup {{}} /\ input_com_gsi \in {0, 1}
      BY <1>1
    <2> QED BY <2>1, <2>2 DEF PortTypes
  <1>5. ShellTypes
    <2>1. prompt_placed \in BOOLEAN /\ has_buffer \in BOOLEAN
      BY <1>1, Zenon
    <2>2. /\ shell_port \in 0 .. 7 /\ command_buffer \in Seq(BufferBytes)
          /\ Len(command_buffer) <= UARTSH_BUFFER_MAX + 1
      BY <1>1, <1>2, Consts
    <2> QED BY <2>1, <2>2 DEF ShellTypes
  <1>6. RestTypes /\ PromptTypes
    <2>1. RestTypes
      BY <1>1, <1>2 DEF RestTypes
    <2>2. PromptTypes
      BY <1>1, Consts DEF PromptTypes
    <2> QED BY <2>1, <2>2
  <1>7. TypeOK
    BY <1>3, <1>4, <1>5, <1>6, TypesAre
  <1>8. PlaceInv
    BY <1>1 DEF PlaceInv, Places, Masked, BeforeShell, WithPage
  <1>9. Untouched
    BY <1>1 DEF Untouched
  <1>10. Editing /\ LastPrompt
    BY <1>1 DEF Editing, LastPrompt
  <1>11. Silent
    BY <1>1 DEF Silent
  <1> QED BY <1>3, <1>7, <1>8, <1>9, <1>10, <1>11 DEF IInv

(* A step that leaves the line alone, and does not bring the console up, only   *)
(* has to know its place.                                                  *)
LEMMA QuietStep ==
    ASSUME IInv, pc \notin {"up", "halted"}, pc' \notin {"up", "halted", "replace2"},
           PortTypes', ShellTypes', RestTypes', PromptTypes', PlaceInv',
           line' = line, column' = column, command_buffer = <<>> => command_buffer' = <<>>,
           echoed' = echoed, torn' = torn, shell_port = 0 \/ shell_port' = shell_port
    PROVE  IInv'
  <1>1. Sound(Terminal)'
    <2>1. Sound(Terminal) /\ Terminal' = Terminal
      BY DEF IInv, Terminal
    <2> QED BY <2>1 DEF Sound, Cells
  <1>2. TypeOK'
    BY <1>1, TypesAre, PTL
  <1>3. Untouched'
    BY DEF IInv, Untouched
  <1>4. Editing' /\ LastPrompt'
    BY DEF Editing, LastPrompt
  <1>5. Silent'
    BY DEF IInv, Silent
  <1> QED BY <1>1, <1>2, <1>3, <1>4, <1>5 DEF IInv

(* What the invariant says of the variables. *)
LEMMA Have ==
    ASSUME IInv
    PROVE  /\ PortTypes /\ ShellTypes /\ RestTypes /\ PromptTypes
           /\ Sound(Terminal) /\ PlaceInv
           /\ available_com_ports \in Ports \cup {{}}
  BY TypesAre DEF IInv, PortTypes

(* A step that leaves a part alone keeps its types: the ports'. *)
LEMMA PortsKept == ASSUME PortTypes, UNCHANGED ports PROVE PortTypes'
  BY Zenon DEF ports, PortTypes

(* The shell's. *)
LEMMA ShellKept == ASSUME ShellTypes, UNCHANGED shell PROVE ShellTypes'
  BY Zenon DEF shell, ShellTypes, BufferBytes

(* And the rest. *)
LEMMA RestKept == ASSUME RestTypes, UNCHANGED <<port, ran, echoed, torn>> PROVE RestTypes'
  BY Zenon DEF port, RestTypes, Bytes, Return, Control, NoByte

(* A step of serial_console_enable from one place to the next. *)
LEMMA AtIs ==
    ASSUME PromptTypes, NEW here, NEW next, At(here, next)
    PROVE  PromptTypes' /\ pc = here /\ pc' = next
  BY DEF At, PromptTypes

(* Every set of natural numbers that is not empty has a least member.        *)
LEMMA LeastMember ==
    ASSUME NEW T \in SUBSET Nat, T # {}
    PROVE  \E m \in T : \A k \in T : m <= k
  <1> DEFINE R == {ss \in Nat \X Nat : ss[1] < ss[2]}
  <1>1. IsWellFoundedOn(OpToRel(<, Nat), Nat)
    BY NatLessThanWellFounded
  <1>2. IsWellFoundedOn(R, Nat)
    BY <1>1 DEF OpToRel
  <1>3. PICK m \in T : \A k \in T : ~(<<k, m>> \in R)
    BY <1>2, WFMin
  <1>4. ASSUME NEW k \in T PROVE m <= k
    <2>1. k \in Nat /\ m \in Nat /\ <<k, m>> \in Nat \X Nat
      OBVIOUS
    <2> QED BY <1>3, <2>1
  <1> QED BY <1>4

(* The first of a set of ports is one of them. *)
LEMMA LowestIs == ASSUME NEW S \in SUBSET Nat, S # {} PROVE Lowest(S) \in S
  <1>1. PICK m \in S : \A k \in S : m <= k
    BY LeastMember
  <1> QED BY <1>1 DEF Lowest

(* The ports that answer are found. *)
LEMMA ScanInv == ASSUME IInv, scan_ports PROVE IInv'
  <1>1. /\ pc = "scan" /\ pc' = "input" /\ available_com_ports' \in Ports
        /\ UNCHANGED <<_input_masked, input_port, input_com_gsi, unmasked, output_port, shell,
                       terminal, port, ran, echoed, torn>>
    BY DEF scan_ports, At
  <1>2. PortTypes /\ ShellTypes /\ RestTypes /\ PromptTypes /\ PlaceInv
    BY Have
  <1>3. PortTypes'
    BY <1>1, <1>2, Zenon DEF PortTypes
  <1>4. ShellTypes' /\ RestTypes'
    BY <1>1, <1>2, ShellKept, RestKept
  <1>20. PromptTypes'
    BY <1>2, AtIs DEF scan_ports
  <1>5. PlaceInv'
    BY <1>1, <1>2 DEF PlaceInv, Places, Masked, BeforeShell, WithPage, shell
  <1> QED BY <1>1, <1>3, <1>4, <1>5, <1>20, QuietStep DEF shell, terminal

(* The first of the ports found with an interrupt becomes the input. *)
LEMMA InputInv == ASSUME IInv, serial_select_input_port PROVE IInv'
  <1>1. /\ pc = "input" /\ pc' = "output"
        /\ input_port' = IF available_com_ports \cap {1, 2} = {} THEN 0
                         ELSE Lowest(available_com_ports \cap {1, 2})
        /\ input_com_gsi' \in IF input_port' = 0 THEN {0} ELSE {0, 1}
        /\ unmasked' = (input_port' # 0 /\ ~_input_masked)
        /\ UNCHANGED <<available_com_ports, _input_masked, output_port, shell, terminal, port,
                       ran, echoed, torn>>
    BY DEF serial_select_input_port, At
  <1>2. PortTypes /\ ShellTypes /\ RestTypes /\ PromptTypes /\ PlaceInv
    BY Have
  <1>3. input_port' \in {0, 1, 2}
    <2>1. CASE available_com_ports \cap {1, 2} = {}
      BY <1>1, <2>1
    <2>2. CASE available_com_ports \cap {1, 2} # {}
      <3>1. Lowest(available_com_ports \cap {1, 2}) \in available_com_ports \cap {1, 2}
        BY <2>2, LowestIs
      <3>2. input_port' = Lowest(available_com_ports \cap {1, 2})
        BY <1>1, <2>2
      <3> QED BY <3>1, <3>2
    <2> QED BY <2>1, <2>2
  <1>4. unmasked' \in BOOLEAN /\ input_com_gsi' \in {0, 1}
    <2>1. unmasked' \in BOOLEAN
      BY <1>1, Zenon
    <2>2. input_com_gsi' \in {0, 1}
      BY <1>1
    <2> QED BY <2>1, <2>2
  <1>5. PortTypes'
    BY <1>1, <1>2, <1>3, <1>4, Zenon DEF PortTypes
  <1>6. ShellTypes' /\ RestTypes'
    BY <1>1, <1>2, ShellKept, RestKept
  <1>20. PromptTypes'
    BY <1>2, AtIs DEF serial_select_input_port
  <1>7. PlaceInv'
    BY <1>1, <1>2 DEF PlaceInv, Places, Masked, BeforeShell, WithPage, shell
  <1> QED BY <1>1, <1>5, <1>6, <1>7, <1>20, QuietStep DEF shell, terminal

(* The first of the ports found becomes the output. *)
LEMMA OutputInv == ASSUME IInv, serial_select_output_port PROVE IInv'
  <1>1. /\ pc = "output" /\ pc' = "unmask"
        /\ output_port' = IF available_com_ports = {} THEN 0 ELSE Lowest(available_com_ports)
        /\ UNCHANGED <<available_com_ports, _input_masked, input_port, input_com_gsi, unmasked,
                       shell, terminal, port, ran, echoed, torn>>
    BY DEF serial_select_output_port, At
  <1>2. PortTypes /\ ShellTypes /\ RestTypes /\ PromptTypes /\ PlaceInv /\ available_com_ports \in Ports \cup {{}}
    BY Have
  <1>3. output_port' \in 0 .. 7
    <2>1. CASE available_com_ports = {}
      BY <1>1, <2>1
    <2>2. CASE available_com_ports # {}
      <3>1. available_com_ports \in SUBSET (1 .. 7)
        BY <1>2, <2>2, Consts
      <3>2. Lowest(available_com_ports) \in available_com_ports
        BY <2>2, <3>1, LowestIs
      <3>3. output_port' = Lowest(available_com_ports)
        BY <1>1, <2>2
      <3>4. output_port' \in 1 .. 7
        BY <3>1, <3>2, <3>3, Zenon
      <3> QED BY <3>4
    <2> QED BY <2>1, <2>2
  <1>4. PortTypes'
    BY <1>1, <1>2, <1>3, Zenon DEF PortTypes
  <1>5. ShellTypes' /\ RestTypes'
    BY <1>1, <1>2, ShellKept, RestKept
  <1>20. PromptTypes'
    BY <1>2, AtIs DEF serial_select_output_port
  <1>6. PlaceInv'
    BY <1>1, <1>2 DEF PlaceInv, Places, Masked, BeforeShell, WithPage, shell
  <1> QED BY <1>1, <1>4, <1>5, <1>6, <1>20, QuietStep DEF shell, terminal

(* The input is unmasked before there is a shell. *)
LEMMA UnmaskInv == ASSUME IInv, serial_set_input_masked PROVE IInv'
  <1>1. /\ pc = "unmask" /\ pc' = "cancel1"
        /\ _input_masked' = FALSE /\ unmasked' = (unmasked \/ input_com_gsi # 0)
        /\ UNCHANGED <<available_com_ports, input_port, input_com_gsi, output_port, shell, terminal, port,
                       ran, echoed, torn>>
    BY DEF serial_set_input_masked, At
  <1>2. PortTypes /\ ShellTypes /\ RestTypes /\ PromptTypes /\ PlaceInv
    BY Have
  <1>3. _input_masked' \in BOOLEAN /\ unmasked' \in BOOLEAN
    BY <1>1, Zenon
  <1>4. PortTypes'
    BY <1>1, <1>2, <1>3, Zenon DEF PortTypes
  <1>5. ShellTypes' /\ RestTypes'
    BY <1>1, <1>2, ShellKept, RestKept
  <1>20. PromptTypes'
    BY <1>2, AtIs DEF serial_set_input_masked
  <1>6. PlaceInv'
    BY <1>1, <1>2 DEF PlaceInv, Places, Masked, BeforeShell, WithPage, shell
  <1> QED BY <1>1, <1>4, <1>5, <1>6, <1>20, QuietStep DEF shell, terminal

(* The shell's variables are set one by one, behind its port. *)
LEMMA StartInv ==
    ASSUME IInv, start_port \/ start_buffer \/ start_index \/ start_clear \/ start_unplaced
    PROVE  IInv'
  <1>1. PortTypes /\ ShellTypes /\ RestTypes /\ PromptTypes /\ PlaceInv
    BY Have
  <1>2. /\ UNCHANGED <<ports, terminal, port, ran, echoed, torn>>
        /\ pc \notin {"up", "halted"} /\ pc' \notin {"up", "halted", "replace2"}
    BY DEF start_port, start_buffer, start_index, start_clear, start_unplaced, At
  <1>3. PortTypes' /\ RestTypes' /\ PromptTypes'
    <2>1. PromptTypes'
      BY <1>1, AtIs DEF start_port, start_buffer, start_index, start_clear, start_unplaced
    <2> QED BY <1>1, <1>2, <2>1, PortsKept, RestKept
  <1>4. SUFFICES /\ ShellTypes' /\ PlaceInv' /\ (command_buffer = <<>> => command_buffer' = <<>>)
                 /\ shell_port = 0 \/ shell_port' = shell_port
    BY <1>2, <1>3, QuietStep DEF terminal
  <1>5. CASE start_port
    <2>1. /\ pc = "start" /\ pc' = "start_buffer" /\ shell_port' = output_port /\ output_port' = output_port
          /\ UNCHANGED <<prompt_placed, has_buffer, command_buffer>>
      BY <1>5 DEF start_port, At, ports
    <2>2. output_port \in 0 .. 7
      BY <1>1 DEF PortTypes
    <2>3. ShellTypes'
      BY <1>1, <2>1, <2>2, Zenon DEF ShellTypes, BufferBytes
    <2>4. PlaceInv'
      BY <2>1 DEF PlaceInv, Places, Masked, BeforeShell, WithPage
    <2>5. shell_port = 0
      BY <1>1, <2>1 DEF PlaceInv, BeforeShell
    <2> QED BY <2>1, <2>3, <2>4, <2>5
  <1>6. CASE start_buffer
    <2>1. /\ pc = "start_buffer" /\ pc' = "start_index" /\ has_buffer' = TRUE /\ output_port' = output_port
          /\ UNCHANGED <<shell_port, prompt_placed, command_buffer>>
      BY <1>6 DEF start_buffer, At, ports
    <2>2. has_buffer' \in BOOLEAN
      BY <2>1, Zenon
    <2>3. ShellTypes'
      BY <1>1, <2>1, <2>2, Zenon DEF ShellTypes, BufferBytes
    <2>4. PlaceInv'
      BY <1>1, <2>1 DEF PlaceInv, Places, Masked, BeforeShell, WithPage
    <2> QED BY <2>1, <2>3, <2>4
  <1>7. CASE start_index
    <2>1. /\ pc = "start_index" /\ pc' = "start_clear" /\ command_buffer' = <<>> /\ output_port' = output_port
          /\ UNCHANGED <<shell_port, prompt_placed, has_buffer>>
      BY <1>7 DEF start_index, At, ports
    <2>2. command_buffer' \in Seq(BufferBytes) /\ Len(command_buffer') <= UARTSH_BUFFER_MAX + 1
      <3>1. Len(<<>>) = 0 /\ <<>> \in Seq(BufferBytes)
        BY EmptySeq
      <3> QED BY <2>1, <3>1, Consts
    <2>3. ShellTypes'
      BY <1>1, <2>1, <2>2, Zenon DEF ShellTypes, BufferBytes
    <2>4. PlaceInv'
      BY <1>1, <2>1 DEF PlaceInv, Places, Masked, BeforeShell, WithPage
    <2> QED BY <2>1, <2>3, <2>4
  <1>8. CASE start_clear
    <2>1. /\ pc = "start_clear" /\ pc' = "start_unplaced" /\ output_port' = output_port
          /\ command_buffer' = [k \in DOMAIN command_buffer |-> Zero]
          /\ UNCHANGED <<shell_port, prompt_placed, has_buffer>>
      BY <1>8 DEF start_clear, At, ports
    <2>2. /\ command_buffer \in Seq(BufferBytes) /\ Len(command_buffer) <= UARTSH_BUFFER_MAX + 1
          /\ DOMAIN command_buffer = 1 .. Len(command_buffer) /\ Len(command_buffer) \in Nat
      <3>1. command_buffer \in Seq(BufferBytes) /\ Len(command_buffer) <= UARTSH_BUFFER_MAX + 1
        BY <1>1 DEF ShellTypes
      <3> QED BY <3>1
    <2>3. command_buffer' \in [1 .. Len(command_buffer) -> BufferBytes]
      BY <2>1, <2>2 DEF BufferBytes
    <2>4. command_buffer' \in Seq(BufferBytes) /\ Len(command_buffer') = Len(command_buffer)
      <3>1. command_buffer' \in Seq(BufferBytes)
        BY <2>2, <2>3, SeqDef
      <3>2. DOMAIN command_buffer' = 1 .. Len(command_buffer)
        BY <2>3
      <3> QED BY <2>2, <3>1, <3>2
    <2>5. Len(command_buffer') <= UARTSH_BUFFER_MAX + 1
      BY <2>2, <2>4
    <2>6. ShellTypes'
      BY <1>1, <2>1, <2>4, <2>5, Zenon DEF ShellTypes, BufferBytes
    <2>7. PlaceInv'
      BY <1>1, <2>1 DEF PlaceInv, Places, Masked, BeforeShell, WithPage
    <2>8. command_buffer = <<>> => command_buffer' = <<>>
      <3>1. Len(<<>>) = 0
        BY EmptySeq
      <3> QED BY <2>4, <3>1, EmptySeq
    <2> QED BY <2>1, <2>6, <2>7, <2>8
  <1>9. CASE start_unplaced
    <2>1. /\ pc = "start_unplaced" /\ pc' = "start_prompt" /\ prompt_placed' = FALSE /\ output_port' = output_port
          /\ UNCHANGED <<shell_port, has_buffer, command_buffer>>
      BY <1>9 DEF start_unplaced, At, ports
    <2>2. prompt_placed' \in BOOLEAN
      BY <2>1, Zenon
    <2>3. ShellTypes'
      BY <1>1, <2>1, <2>2, Zenon DEF ShellTypes, BufferBytes
    <2>4. PlaceInv'
      BY <1>1, <2>1 DEF PlaceInv, Places, Masked, BeforeShell, WithPage
    <2> QED BY <2>1, <2>3, <2>4
  <1> QED BY <1>5, <1>6, <1>7, <1>8, <1>9

(* A step of uart_shell_cancel_prompt or uart_shell_replace_prompt that does  *)
(* not bring the console up: the shell and what was echoed stay as they are,  *)
(* so what is shown of the last prompt is all there is to look at.           *)
LEMMA PromptStep ==
    ASSUME IInv, Sound(Terminal)', PromptTypes', prompt_placed' \in BOOLEAN, LastPrompt',
           pc \in Places \ {"up", "halted"}, pc' \in Places \ {"up", "halted"}, PlaceInv',
           UNCHANGED <<ports, shell_port, has_buffer, command_buffer, port, ran, echoed, torn>>,
           shell_port = 0 => UNCHANGED terminal
    PROVE  IInv'
  <1>1. PortTypes /\ ShellTypes /\ RestTypes
    BY Have
  <1>2. ShellTypes'
    BY <1>1, Zenon DEF ShellTypes, BufferBytes
  <1>3. PortTypes' /\ RestTypes'
    BY <1>1, PortsKept, RestKept
  <1>4. TypeOK'
    BY <1>2, <1>3, TypesAre, PTL
  <1>5. Untouched'
    BY DEF IInv, Untouched
  <1>6. Editing'
    BY DEF Editing
  <1>7. Silent'
    BY DEF IInv, Silent, terminal
  <1> QED BY <1>4, <1>5, <1>6, <1>7 DEF IInv

(* The places where a prompt is made or taken back. *)
Prompting == {"cancel1", "replace1", "start_prompt", "cancel2", "replace2"}
Behind(here) ==
    CASE here = "cancel1" -> "write1" [] here = "replace1" -> "start"
      [] here = "start_prompt" -> "cancel2" [] here = "cancel2" -> "write2"
      [] here = "replace2" -> "up"

(* There are as many characters of a prompt as its length. *)
LEMMA MoreIs ==
    ASSUME PromptTypes
    PROVE  /\ MoreCells => cells + 1 \in 0 .. PROMPT_LENGTH /\ cells < PROMPT_LENGTH /\ shell_port # 0
           /\ ~MoreCells /\ shell_port # 0 => cells = PROMPT_LENGTH
  BY Consts DEF MoreCells, PromptTypes

(* A prompt is looked for. *)
LEMMA FindsInv ==
    ASSUME IInv, NEW here \in Prompting,
           \/ finds_prompt(here)
           \/ finds_none(here, here, "prompt") /\ here \in {"replace1", "start_prompt", "replace2"}
           \/ finds_none(here, Behind(here), "check") /\ here \in {"cancel1", "cancel2"}
    PROVE  IInv'
  <1>1. /\ PortTypes /\ ShellTypes /\ RestTypes /\ PromptTypes /\ Sound(Terminal) /\ PlaceInv
        /\ LastPrompt
    BY Have DEF IInv
  <1>2. /\ pc = here /\ at = "check" /\ cells' = 0
        /\ UNCHANGED <<ports, shell, terminal, port, ran, echoed, torn>>
        /\ \/ prompt_placed /\ pc' = here /\ at' = "back"
           \/ ~prompt_placed /\ pc' = here /\ at' = "prompt"
           \/ pc' = "write1" /\ at' = "check" /\ here = "cancel1"
           \/ pc' = "write2" /\ at' = "check" /\ here = "cancel2"
    BY DEF finds_prompt, finds_none, GoesOn, Behind
  <1>3. PromptTypes'
    BY <1>2, Consts DEF PromptTypes
  <1>4. Sound(Terminal)'
    <2>1. Terminal' = Terminal
      BY <1>2 DEF Terminal, terminal
    <2> QED BY <1>1, <2>1 DEF Sound, Cells
  <1>5. PlaceInv'
    BY <1>1, <1>2 DEF PlaceInv, Places, Masked, BeforeShell, WithPage, Prompting, ports, shell
  <1>6. LastPrompt'
    <2> SUFFICES ASSUME pc' = "replace2", torn' = FALSE, shell_port' # 0
                 PROVE  /\ at' = "back" => TakenBack'
                        /\ at' = "prompt" => Written'
                        /\ at' # "check"
      BY DEF LastPrompt
    <2>1. pc = "replace2" /\ torn = FALSE /\ shell_port # 0 /\ at = "check" /\ at' # "check"
      BY <1>2 DEF shell
    <2>2. Checked /\ line' = line /\ column' = column /\ cells' = 0 /\ PROMPT_LENGTH \in Nat
      BY <1>1, <1>2, <2>1, Consts DEF LastPrompt, terminal
    <2>3. TakenBack'
      BY <2>2 DEF Checked, Empty, TakenBack
    <2>4. ASSUME at' = "prompt" PROVE Written'
      <3>1. ~prompt_placed
        BY <1>2, <2>1, <2>4
      <3>2. line = <<>> /\ column = 0
        BY <2>2, <3>1, Zenon DEF Checked, Empty
      <3> QED BY <2>2, <3>2, HashesIs DEF Written
    <2> QED BY <2>1, <2>3, <2>4
  <1>7. prompt_placed' \in BOOLEAN
    BY <1>1, <1>2, Zenon DEF ShellTypes, shell
  <1>8. pc \in Places \ {"up", "halted"} /\ pc' \in Places \ {"up", "halted"}
    BY <1>2 DEF Places, BeforeShell, Masked, WithPage, Prompting
  <1> QED BY <1>2, <1>3, <1>4, <1>5, <1>6, <1>7, <1>8, PromptStep DEF shell, terminal

(* One more character: of the backspaces or of the prompt. *)
LEMMA CellInv ==
    ASSUME IInv, NEW here \in Prompting,
           \/ write_cell(here, "back", Back(Terminal))
           \/ write_cell(here, "prompt", Cell(Terminal, "#"))
    PROVE  IInv'
  <1>1. /\ PortTypes /\ ShellTypes /\ RestTypes /\ PromptTypes /\ Sound(Terminal) /\ PlaceInv
        /\ LastPrompt
    BY Have DEF IInv
  <1>2. /\ pc = here /\ pc' = pc /\ at' = at /\ MoreCells /\ cells' = cells + 1
        /\ UNCHANGED <<ports, shell, port, ran, echoed, torn>>
    BY DEF write_cell
  <1>3. cells' \in 0 .. PROMPT_LENGTH /\ cells < PROMPT_LENGTH /\ shell_port # 0 /\ cells \in Nat
    BY <1>1, <1>2, MoreIs DEF PromptTypes
  <1>4. PromptTypes'
    BY <1>1, <1>2, <1>3 DEF PromptTypes
  <1>5. PlaceInv'
    BY <1>1, <1>2 DEF PlaceInv, ports, shell
  <1>6. prompt_placed' \in BOOLEAN
    BY <1>1, <1>2, Zenon DEF ShellTypes, shell
  <1>7. pc \in Places \ {"up", "halted"} /\ pc' \in Places \ {"up", "halted"}
    BY <1>2 DEF Places, BeforeShell, Masked, WithPage, Prompting
  <1>8. SUFFICES Sound(Terminal)' /\ LastPrompt'
    BY <1>2, <1>3, <1>4, <1>5, <1>6, <1>7, PromptStep DEF shell
  <1>9. CASE write_cell(here, "back", Back(Terminal))
    <2>1. at = "back" /\ line' = Back(Terminal).line /\ column' = Back(Terminal).column
      BY <1>9 DEF write_cell, Shows
    <2>2. /\ Sound(Back(Terminal)) /\ line' = line
          /\ column' = IF column = 0 THEN 0 ELSE column - 1
      BY <1>1, <2>1, BackIs, TerminalIs
    <2>3. Sound(Terminal)'
      BY <2>1, <2>2, ShowsIs
    <2>4. ASSUME pc' = "replace2", torn' = FALSE, shell_port' # 0 PROVE TakenBack'
      <3>1. TakenBack
        BY <1>1, <1>2, <1>3, <2>1, <2>4 DEF LastPrompt
      <3> QED BY <1>2, <1>3, <2>2, <3>1, Consts DEF TakenBack, Empty
    <2> QED BY <1>2, <2>1, <2>3, <2>4 DEF LastPrompt
  <1>10. CASE write_cell(here, "prompt", Cell(Terminal, "#"))
    <2> DEFINE w == Cell(Terminal, "#")
    <2>1. at = "prompt" /\ line' = w.line /\ column' = w.column
      BY <1>10 DEF write_cell, Shows
    <2>2. Sound(w)
      BY <1>1, CellIs DEF Cells
    <2>3. Sound(Terminal)'
      BY <2>1, <2>2, ShowsIs
    <2>4. ASSUME pc' = "replace2", torn' = FALSE, shell_port' # 0 PROVE Written'
      <3>1. column = cells /\ (line = Prompt \/ line = Hashes(cells))
        BY <1>1, <1>2, <1>3, <2>1, <2>4 DEF LastPrompt, Written
      <3>2. /\ w.column = column + 1
            /\ line = Prompt => w.line = Prompt
            /\ line = Hashes(column) => w.line = Hashes(column + 1)
        BY <1>1, <1>3, <3>1, HashCell, TerminalIs
      <3> HIDE DEF w
      <3> QED BY <1>2, <2>1, <3>1, <3>2 DEF Written
    <2> QED BY <1>2, <2>1, <2>3, <2>4 DEF LastPrompt
  <1> QED BY <1>9, <1>10

(* The prompt has been taken back. *)
LEMMA TakesInv ==
    ASSUME IInv, NEW here \in Prompting,
           \/ takes_back(here, here, "prompt") /\ here \in {"replace1", "start_prompt", "replace2"}
           \/ takes_back(here, Behind(here), "check") /\ here \in {"cancel1", "cancel2"}
    PROVE  IInv'
  <1>1. /\ PortTypes /\ ShellTypes /\ RestTypes /\ PromptTypes /\ Sound(Terminal) /\ PlaceInv
        /\ LastPrompt
    BY Have DEF IInv
  <1>2. /\ pc = here /\ at = "back" /\ ~MoreCells /\ cells' = 0 /\ prompt_placed' = FALSE
        /\ UNCHANGED <<ports, shell_port, has_buffer, command_buffer, terminal, port, ran, echoed, torn>>
        /\ \/ pc' = here /\ at' = "prompt"
           \/ pc' = "write1" /\ at' = "check" /\ here = "cancel1"
           \/ pc' = "write2" /\ at' = "check" /\ here = "cancel2"
    BY DEF takes_back, GoesOn, Behind
  <1>3. PromptTypes'
    BY <1>2, Consts DEF PromptTypes
  <1>4. Sound(Terminal)'
    <2>1. Terminal' = Terminal
      BY <1>2 DEF Terminal, terminal
    <2> QED BY <1>1, <2>1 DEF Sound, Cells
  <1>5. PlaceInv'
    BY <1>1, <1>2 DEF PlaceInv, Places, Masked, BeforeShell, WithPage, Prompting, ports
  <1>6. LastPrompt'
    <2> SUFFICES ASSUME pc' = "replace2", torn' = FALSE, shell_port' # 0
                 PROVE  at' = "prompt" /\ Written'
      BY DEF LastPrompt
    <2>1. pc = "replace2" /\ torn = FALSE /\ shell_port # 0 /\ at' = "prompt"
      BY <1>2
    <2>2. TakenBack /\ line' = line /\ column' = column /\ cells' = 0 /\ cells = PROMPT_LENGTH
      BY <1>1, <1>2, <2>1, MoreIs DEF LastPrompt, terminal
    <2>3. column = 0 /\ (line = <<>> \/ line = Prompt)
      BY <2>2, Consts DEF TakenBack, Empty
    <2> QED BY <2>1, <2>2, <2>3, HashesIs DEF Written
  <1>7. prompt_placed' \in BOOLEAN
    BY <1>2, Zenon
  <1>8. pc \in Places \ {"up", "halted"} /\ pc' \in Places \ {"up", "halted"}
    BY <1>2 DEF Places, BeforeShell, Masked, WithPage, Prompting
  <1> QED BY <1>2, <1>3, <1>4, <1>5, <1>6, <1>7, <1>8, PromptStep DEF terminal

(* A text of the kernel ends the line; without a port there is none. *)
LEMMA TextInv ==
    ASSUME IInv,
           \/ write_text("write1", "replace1", "start")
           \/ write_text("write2", "replace2", "up")
    PROVE  IInv'
  <1>1. PortTypes /\ ShellTypes /\ RestTypes /\ PromptTypes /\ PlaceInv /\ Sound(Terminal)
    BY Have
  <1> DEFINE t == IF output_port = 0 THEN Terminal ELSE NewLine
  <1>2. /\ line' = t.line /\ column' = t.column /\ at' = "check" /\ cells' = 0
        /\ echoed' = IF command_buffer = <<>> THEN <<>> ELSE echoed
        /\ torn' = (torn /\ command_buffer # <<>>)
        /\ UNCHANGED <<ports, shell, port, ran>>
        /\ \/ pc = "write1" /\ pc' = IF output_port = 0 THEN "start" ELSE "replace1"
           \/ pc = "write2" /\ pc' = IF output_port = 0 THEN "up" ELSE "replace2"
    BY DEF write_text, Shows, GoesOn
  <1>3. Sound(t) /\ ((t.line = <<>> /\ t.column = 0) \/ (t.line = line /\ t.column = column))
    <2>1. CASE output_port = 0
      BY <1>1, <2>1, TerminalIs
    <2>2. CASE output_port # 0
      <3>1. t = NewLine
        BY <2>2
      <3> HIDE DEF t
      <3> QED BY <3>1, NewLineIs
    <2> QED BY <2>1, <2>2
  <1> HIDE DEF t
  <1>4. Sound(Terminal)'
    BY <1>2, <1>3, ShowsIs
  <1>5. PortTypes' /\ ShellTypes' /\ RestTypes' /\ PromptTypes'
    <2>1. echoed' \in Seq(Letters)
      BY <1>1, <1>2, EmptySeq DEF RestTypes
    <2>2. torn' \in BOOLEAN
      BY <1>2, Zenon
    <2>3. RestTypes'
      BY <1>1, <1>2, <2>1, <2>2, Zenon DEF RestTypes, port, Bytes, Return, Control, NoByte
    <2>4. PromptTypes'
      BY <1>2, Consts DEF PromptTypes
    <2> QED BY <1>1, <1>2, <2>3, <2>4, PortsKept, ShellKept
  <1>6. TypeOK'
    BY <1>4, <1>5, TypesAre, PTL
  <1>7. PlaceInv'
    BY <1>1, <1>2 DEF PlaceInv, Places, Masked, BeforeShell, WithPage, ports, shell
  <1>8. torn' = FALSE => echoed' = <<>> /\ command_buffer' = <<>>
    <2>1. torn \in BOOLEAN
      BY <1>1 DEF RestTypes
    <2>2. ASSUME torn' = FALSE PROVE torn = FALSE \/ command_buffer = <<>>
      BY <1>2, <2>1, <2>2, Zenon
    <2>3. torn = FALSE => echoed = <<>> /\ command_buffer = <<>>
      BY <1>2 DEF IInv, Untouched
    <2> QED BY <1>2, <2>2, <2>3 DEF shell
  <1>9. Untouched'
    BY <1>8 DEF Untouched
  <1>10. LastPrompt'
    <2> SUFFICES ASSUME pc' = "replace2", torn' = FALSE, shell_port' # 0 PROVE Checked'
      BY <1>2 DEF LastPrompt
    <2>1. output_port # 0
      BY <1>2
    <2>2. t = NewLine
      BY <2>1 DEF t
    <2> QED BY <1>2, <2>2, NewLineIs DEF Checked, Empty
  <1>11. Editing'
    <2> SUFFICES ASSUME pc' = "up", torn' = FALSE
                 PROVE  command_buffer' = Held(echoed') /\ shell_port' = 0
      BY DEF Editing, Held
    <2>1. pc = "write2" /\ output_port = 0
      BY <1>2
    <2>2. shell_port = 0
      BY <1>1, <2>1 DEF PlaceInv
    <2> QED BY <1>2, <1>8, <2>2, HeldEmpty DEF shell
  <1>12. Silent'
    BY <1>2, <1>3 DEF IInv, Silent, shell
  <1> QED BY <1>4, <1>6, <1>7, <1>9, <1>10, <1>11, <1>12 DEF IInv

(* The prompt is placed: on an empty line it is the line.                     *)
LEMMA PlacesInv ==
    ASSUME IInv, \/ places("replace1", "start")
                 \/ places("start_prompt", "cancel2")
                 \/ places("replace2", "up")
    PROVE  IInv'
  <1>1. /\ PortTypes /\ ShellTypes /\ RestTypes /\ PromptTypes /\ Sound(Terminal) /\ PlaceInv
        /\ LastPrompt
    BY Have DEF IInv
  <1>2. /\ at = "prompt" /\ ~MoreCells /\ prompt_placed' = TRUE /\ at' = "check" /\ cells' = 0
        /\ UNCHANGED <<ports, shell_port, has_buffer, command_buffer, terminal, port, ran, echoed, torn>>
        /\ \/ pc = "replace1" /\ pc' = "start"
           \/ pc = "start_prompt" /\ pc' = "cancel2"
           \/ pc = "replace2" /\ pc' = "up"
    BY DEF places, GoesOn
  <1>3. PromptTypes'
    BY <1>2, Consts DEF PromptTypes
  <1>4. Sound(Terminal)'
    <2>1. Terminal' = Terminal
      BY <1>2 DEF Terminal, terminal
    <2> QED BY <1>1, <2>1 DEF Sound, Cells
  <1>5. ShellTypes'
    <2>1. prompt_placed' \in BOOLEAN
      BY <1>2, Zenon
    <2> QED BY <1>1, <1>2, <2>1, Zenon DEF ShellTypes, BufferBytes
  <1>6. PortTypes' /\ RestTypes'
    BY <1>1, <1>2, PortsKept, RestKept
  <1>7. TypeOK'
    BY <1>3, <1>4, <1>5, <1>6, TypesAre, PTL
  <1>8. PlaceInv'
    BY <1>1, <1>2 DEF PlaceInv, Places, Masked, BeforeShell, WithPage, ports
  <1>9. Untouched' /\ LastPrompt' /\ Silent'
    BY <1>2 DEF IInv, Untouched, LastPrompt, Silent, terminal
  <1>10. Editing'
    <2> SUFFICES ASSUME pc' = "up", torn' = FALSE
                 PROVE  /\ command_buffer' = Held(echoed')
                        /\ shell_port' # 0 =>
                             prompt_placed' = TRUE /\ line' = Prompt \o echoed' /\ column' = Len(line')
      BY DEF Editing, Held
    <2>1. pc = "replace2" /\ torn = FALSE
      BY <1>2
    <2>2. echoed' = <<>> /\ command_buffer' = <<>>
      BY <1>2, <2>1 DEF IInv, Untouched
    <2>3. ASSUME shell_port' # 0
          PROVE  line' = Prompt /\ column' = PROMPT_LENGTH
      <3>1. Written /\ cells = PROMPT_LENGTH
        BY <1>1, <1>2, <2>1, <2>3, MoreIs DEF LastPrompt
      <3> QED BY <1>2, <3>1, HashesIs DEF Written, terminal
    <2>4. command_buffer' = Held(echoed')
      BY <2>2, HeldEmpty
    <2>5. shell_port' # 0 => line' = Prompt \o echoed' /\ column' = Len(line')
      BY <2>2, <2>3, FreshLine
    <2> QED BY <1>2, <2>4, <2>5
  <1> QED BY <1>4, <1>7, <1>8, <1>9, <1>10 DEF IInv

(* uart_shell_cancel_prompt and uart_shell_replace_prompt, wherever they are   *)
(* called.                                                                 *)
LEMMA PromptInv ==
    ASSUME IInv,
           \/ uart_shell_cancel_prompt("cancel1", "write1", "check")
           \/ uart_shell_cancel_prompt("cancel2", "write2", "check")
           \/ uart_shell_replace_prompt("replace1", "start")
           \/ uart_shell_replace_prompt("start_prompt", "cancel2")
           \/ uart_shell_replace_prompt("replace2", "up")
    PROVE  IInv'
  <1>1. ASSUME NEW here \in {"cancel1", "cancel2"},
               uart_shell_cancel_prompt(here, Behind(here), "check")
        PROVE  IInv'
    <2>1. here \in Prompting
      BY DEF Prompting
    <2> QED BY <1>1, <2>1, FindsInv, CellInv, TakesInv DEF uart_shell_cancel_prompt
  <1>2. ASSUME NEW here \in {"replace1", "start_prompt", "replace2"},
               uart_shell_replace_prompt(here, Behind(here))
        PROVE  IInv'
    <2>1. here \in Prompting
      BY DEF Prompting
    <2>2. CASE uart_shell_cancel_prompt(here, here, "prompt")
      BY <2>1, <2>2, FindsInv, CellInv, TakesInv DEF uart_shell_cancel_prompt
    <2>3. CASE write_cell(here, "prompt", Cell(Terminal, "#"))
      BY <2>1, <2>3, CellInv
    <2>4. CASE places(here, Behind(here))
      BY <2>4, PlacesInv DEF Behind
    <2> QED BY <1>2, <2>2, <2>3, <2>4 DEF uart_shell_replace_prompt
  <1>3. /\ Behind("cancel1") = "write1" /\ Behind("cancel2") = "write2"
        /\ Behind("replace1") = "start" /\ Behind("start_prompt") = "cancel2"
        /\ Behind("replace2") = "up"
    BY DEF Behind
  <1> QED BY <1>1, <1>2, <1>3

-----------------------------------------------------------------------------
(* uart_input_irq *)

(* The end of a line: the prompt alone, on a line of its own. *)
LEMMA FinalizeInv ==
    ASSUME IInv, uart_shell_command_finalize, PortTypes', pc \in Places \ (Masked \cup {"halted"}),
           rx' \in Bytes \cup {NoByte}, raised' \in BOOLEAN, UNCHANGED ports
    PROVE  IInv'
  <1>1. PortTypes /\ ShellTypes /\ RestTypes /\ PromptTypes /\ PlaceInv /\ Sound(Terminal)
    BY Have
  <1> DEFINE w == PromptLine
             t == OnPort(w)
             run == CHOOSE c \in Commands : __uart_command_match(Text(command_buffer), c)
  <1>2. /\ line' = t.line /\ column' = t.column /\ prompt_placed' = TRUE
        /\ ran' = IF \E c \in Commands : __uart_command_match(Text(command_buffer), c)
                  THEN run ELSE <<>>
        /\ echoed' = <<>> /\ torn' = MidPrompt /\ command_buffer' = <<>>
        /\ UNCHANGED <<shell_port, has_buffer, pc, at, cells>>
    BY DEF uart_shell_command_finalize, Finalized, Shows, place
  <1>3. t = IF shell_port = 0 THEN Terminal ELSE w
    BY DEF OnPort
  <1>4. Sound(w) /\ w.line = Prompt /\ w.column = PROMPT_LENGTH
    BY PromptLineIs
  <1> HIDE DEF w, t
  <1>5. Sound(Terminal)'
    BY <1>1, <1>2, <1>3, <1>4, ShowsIs
  <1>6. Len(<<>>) = 0 /\ <<>> \in Seq(BufferBytes) /\ <<>> \in Seq(Letters)
    BY EmptySeq
  <1>7. ShellTypes'
    <2>1. prompt_placed' \in BOOLEAN
      BY <1>2, Zenon
    <2>2. command_buffer' \in Seq(BufferBytes) /\ Len(command_buffer') <= UARTSH_BUFFER_MAX + 1
      BY <1>2, <1>6, Consts
    <2> QED BY <1>1, <1>2, <2>1, <2>2, Zenon DEF ShellTypes, BufferBytes
  <1>8. ran' \in Commands \cup {<<>>}
    <2>1. CASE \E c \in Commands : __uart_command_match(Text(command_buffer), c)
      <3>1. run \in Commands
        BY <2>1, Zenon
      <3> HIDE DEF run
      <3> QED BY <1>2, <2>1, <3>1, Zenon
    <2>2. CASE ~(\E c \in Commands : __uart_command_match(Text(command_buffer), c))
      BY <1>2, <2>2, Zenon
    <2> QED BY <2>1, <2>2, Zenon
  <1> HIDE DEF run
  <1>9. RestTypes'
    <2>1. echoed' \in Seq(Letters) /\ torn' \in BOOLEAN
      BY <1>2, <1>6, Zenon DEF MidPrompt
    <2> QED BY <1>8, <2>1, Zenon DEF RestTypes, Bytes, Return, Control, NoByte
  <1>10. TypeOK'
    <2>1. PromptTypes'
      BY <1>1, <1>2 DEF PromptTypes
    <2> QED BY <1>5, <1>7, <1>9, <2>1, TypesAre, PTL
  <1>11. PlaceInv'
    BY <1>1, <1>2 DEF PlaceInv, Places, Masked, BeforeShell, WithPage, ports
  <1>12. shell_port = 0 => line' = <<>> /\ column' = 0
    BY <1>2, <1>3, TerminalIs DEF IInv, Silent
  <1>13. shell_port # 0 => line' = Prompt /\ column' = PROMPT_LENGTH
    BY <1>2, <1>3, <1>4
  <1>14. Untouched' /\ LastPrompt'
    <2>1. Untouched'
      BY <1>2 DEF Untouched
    <2> SUFFICES ASSUME pc' = "replace2", torn' = FALSE, shell_port' # 0
                 PROVE  /\ at' = "check" => Checked'
                        /\ at' = "back" => TakenBack'
                        /\ at' = "prompt" => Written'
      BY <2>1 DEF LastPrompt
    <2>2. ~MidPrompt /\ pc = "replace2" /\ shell_port # 0
      <3>1. ~MidPrompt
        <4>1. MidPrompt = FALSE
          BY <1>2
        <4> QED BY <4>1 DEF MidPrompt
      <3>2. pc' = pc /\ shell_port' = shell_port
        BY <1>2
      <3> QED BY <3>1, <3>2
    <2>3. (at = "back" => cells = 0) /\ (at = "prompt" => ~MoreCells)
      BY <1>1, <2>2 DEF MidPrompt, PromptTypes
    <2>4. line' = Prompt /\ column' = PROMPT_LENGTH /\ prompt_placed' = TRUE
      BY <1>2, <1>13, <2>2
    <2>5. at' = "prompt" => cells' = PROMPT_LENGTH
      BY <1>1, <1>2, <2>2, <2>3, MoreIs
    <2> QED BY <1>2, <2>3, <2>4, <2>5, Consts DEF Checked, TakenBack, Written
  <1>15. Editing'
    <2>1. command_buffer' = Held(echoed')
      BY <1>2, HeldEmpty
    <2>2. shell_port' # 0 => line' = Prompt \o echoed' /\ column' = Len(line')
      BY <1>2, <1>13, FreshLine
    <2>3. prompt_placed' = TRUE
      BY <1>2
    <2> QED BY <2>1, <2>2, <2>3 DEF Editing, Held
  <1>16. Silent'
    BY <1>2, <1>12 DEF Silent
  <1> QED BY <1>5, <1>10, <1>11, <1>14, <1>15, <1>16 DEF IInv

(* What is appended to a buffer that has room fits. *)
LEMMA AppendedIs ==
    ASSUME ShellTypes, NEW c \in Letters
    PROVE  Appended(c) \in Seq(BufferBytes) /\ Len(Appended(c)) <= UARTSH_BUFFER_MAX + 1
  <1>1. /\ command_buffer \in Seq(BufferBytes) /\ Len(command_buffer) <= UARTSH_BUFFER_MAX + 1
        /\ c \in BufferBytes /\ Len(command_buffer) \in Nat /\ UARTSH_BUFFER_MAX \in Nat
    BY Consts DEF ShellTypes, BufferBytes
  <1>2. /\ Append(command_buffer, c) \in Seq(BufferBytes)
        /\ Len(Append(command_buffer, c)) = Len(command_buffer) + 1
    BY <1>1, AppendProperties
  <1>3. CASE Len(command_buffer) <= UARTSH_BUFFER_MAX
    BY <1>1, <1>2, <1>3 DEF Appended
  <1>4. CASE ~(Len(command_buffer) <= UARTSH_BUFFER_MAX)
    BY <1>1, <1>4 DEF Appended
  <1> QED BY <1>3, <1>4

(* A letter is echoed and put behind what the buffer holds. *)
LEMMA EchoInv ==
    ASSUME IInv, NEW c \in Letters, echo_character(c), PortTypes',
           pc \in Places \ (Masked \cup {"halted"}),
           rx' \in Bytes \cup {NoByte}, raised' \in BOOLEAN, UNCHANGED ports
    PROVE  IInv'
  <1>1. PortTypes /\ ShellTypes /\ RestTypes /\ PromptTypes /\ PlaceInv /\ Sound(Terminal)
    BY Have
  <1> DEFINE w == Cell(Terminal, c)
             t == OnPort(w)
  <1>2. /\ line' = t.line /\ column' = t.column
        /\ IF has_buffer THEN command_buffer' = Appended(c) /\ pc' = pc
           ELSE command_buffer' = command_buffer /\ pc' = "halted"
        /\ echoed' = Append(echoed, c) /\ torn' = (torn \/ pc # "up")
        /\ UNCHANGED <<shell_port, prompt_placed, has_buffer, ran, at, cells>>
    BY DEF echo_character, Shows
  <1>3. t = IF shell_port = 0 THEN Terminal ELSE w
    BY DEF OnPort
  <1>4. /\ Sound(w)
        /\ Terminal.column = Len(Terminal.line) =>
             w.line = Append(Terminal.line, c) /\ w.column = Terminal.column + 1
    <2>1. c \in Cells
      BY DEF Cells
    <2> QED BY <1>1, <2>1, CellIs
  <1> HIDE DEF w, t
  <1>5. Sound(Terminal)'
    BY <1>1, <1>2, <1>3, <1>4, ShowsIs
  <1>6. has_buffer \in BOOLEAN /\ torn \in BOOLEAN /\ echoed \in Seq(Letters)
    BY <1>1 DEF ShellTypes, RestTypes
  <1>7. ShellTypes'
    <2>1. command_buffer' \in Seq(BufferBytes) /\ Len(command_buffer') <= UARTSH_BUFFER_MAX + 1
      <3>1. CASE has_buffer
        BY <1>1, <1>2, <3>1, AppendedIs
      <3>2. CASE ~has_buffer
        BY <1>1, <1>2, <3>2 DEF ShellTypes
      <3> QED BY <3>1, <3>2
    <2> QED BY <1>1, <1>2, <2>1, Zenon DEF ShellTypes, BufferBytes
  <1>8. RestTypes'
    <2>1. echoed' \in Seq(Letters)
      BY <1>2, <1>6, AppendProperties
    <2>2. torn' \in BOOLEAN
      BY <1>2, Zenon
    <2> QED BY <1>1, <1>2, <2>1, <2>2, Zenon DEF RestTypes, Bytes, Return, Control, NoByte
  <1>9. TypeOK'
    <2>1. PromptTypes'
      BY <1>1, <1>2 DEF PromptTypes
    <2> QED BY <1>5, <1>7, <1>8, <2>1, TypesAre, PTL
  <1>10. PlaceInv'
    <2>1. CASE has_buffer
      BY <1>1, <1>2, <2>1 DEF PlaceInv, Places, Masked, BeforeShell, WithPage, ports
    <2>2. CASE ~has_buffer
      BY <1>1, <1>2, <2>2 DEF PlaceInv, Places, Masked, BeforeShell, WithPage, ports
    <2> QED BY <2>1, <2>2
  <1>11. torn' = FALSE => pc = "up" /\ torn = FALSE
    BY <1>2, <1>6, Zenon
  <1>12. pc' = pc \/ pc' = "halted"
    BY <1>2
  <1>13. Untouched' /\ LastPrompt'
    BY <1>11, <1>12 DEF Untouched, LastPrompt
  <1>14. Editing'
    <2> SUFFICES ASSUME pc' = "up", torn' = FALSE
                 PROVE  /\ command_buffer' = Held(echoed')
                        /\ shell_port' # 0 =>
                             prompt_placed' = TRUE /\ line' = Prompt \o echoed' /\ column' = Len(line')
      BY DEF Editing, Held
    <2>1. pc = "up" /\ torn = FALSE
      BY <1>11
    <2>2. has_buffer = TRUE
      BY <1>1, <2>1 DEF PlaceInv, WithPage
    <2>3. command_buffer = Held(echoed)
      BY <2>1 DEF IInv, Editing
    <2>4. command_buffer' = Held(echoed')
      BY <1>2, <1>6, <2>2, <2>3, HeldIs
    <2>5. ASSUME shell_port' # 0
          PROVE  prompt_placed' = TRUE /\ line' = Prompt \o echoed' /\ column' = Len(line')
      <3>1. shell_port # 0
        BY <1>2, <2>5
      <3>2. prompt_placed = TRUE /\ line = Prompt \o echoed /\ column = Len(line)
        BY <2>1, <3>1 DEF IInv, Editing
      <3>3. line' = Append(line, c) /\ column' = column + 1
        BY <1>2, <1>3, <1>4, <3>1, <3>2, TerminalIs
      <3>4. line' = Prompt \o echoed'
        <4>1. Prompt \in Seq(Cells) /\ echoed \in Seq(Cells) /\ <<c>> \in Seq(Cells) /\ c \in Cells
          BY <1>6, PromptIs DEF Cells
        <4>2. line \in Seq(Cells)
          BY <3>2, <4>1, ConcatProperties
        <4>3. Append(line, c) = line \o <<c>> /\ Append(echoed, c) = echoed \o <<c>>
          BY <4>1, <4>2, AppendIsConcat
        <4>4. (Prompt \o echoed) \o <<c>> = Prompt \o (echoed \o <<c>>)
          BY <4>1, ConcatAssociative
        <4> QED BY <1>2, <3>2, <3>3, <4>3, <4>4
      <3>5. column' = Len(line')
        <4>1. line \in Seq(Cells) /\ c \in Cells
          BY <1>1, TerminalIs DEF Sound, Cells
        <4>2. Len(Append(line, c)) = Len(line) + 1
          BY <4>1, AppendProperties
        <4> QED BY <3>2, <3>3, <4>2
      <3> QED BY <1>2, <3>2, <3>4, <3>5
    <2> QED BY <2>4, <2>5
  <1>15. Silent'
    BY <1>2, <1>3, TerminalIs DEF IInv, Silent
  <1> QED BY <1>5, <1>9, <1>10, <1>13, <1>14, <1>15 DEF IInv

(* The handler, whatever it takes. *)
LEMMA IrqInv == ASSUME IInv, uart_input_irq PROVE IInv'
  <1>1. PortTypes /\ ShellTypes /\ RestTypes /\ PromptTypes /\ PlaceInv /\ Sound(Terminal)
    BY Have
  <1>2. /\ pc # "halted" /\ ~_input_masked /\ rx # NoByte
        /\ rx' = NoByte /\ raised' = FALSE /\ UNCHANGED ports
        /\ IF rx = Return THEN uart_shell_command_finalize
           ELSE IF rx = Control THEN ignore_character
           ELSE echo_character(rx)
    BY DEF uart_input_irq
  <1>3. PortTypes'
    BY <1>1, <1>2, PortsKept
  <1>4. rx' \in Bytes \cup {NoByte} /\ raised' \in BOOLEAN
    BY <1>2, Zenon
  <1>5. pc \in Places \ (Masked \cup {"halted"})
    <2>1. _input_masked # TRUE
      BY <1>2, Zenon
    <2> QED BY <1>1, <1>2, <2>1 DEF PlaceInv
  <1>6. CASE rx = Return
    BY <1>2, <1>3, <1>4, <1>5, <1>6, FinalizeInv
  <1>7. CASE rx # Return /\ rx = Control
    <2>1. UNCHANGED <<shell, terminal, ran, pc, at, cells, echoed, torn>>
      BY <1>2, <1>7 DEF ignore_character, place
    <2>2. Sound(Terminal)'
      <3>1. Terminal' = Terminal
        BY <2>1 DEF Terminal, terminal
      <3> QED BY <1>1, <3>1 DEF Sound, Cells
    <2>3. ShellTypes'
      BY <1>1, <2>1, ShellKept
    <2>4. RestTypes'
      BY <1>1, <1>4, <2>1, Zenon DEF RestTypes, Bytes, Return, Control, NoByte
    <2>5. TypeOK'
      <3>1. PromptTypes'
        BY <1>1, <2>1 DEF PromptTypes
      <3> QED BY <1>3, <2>2, <2>3, <2>4, <3>1, TypesAre, PTL
    <2>6. PlaceInv'
      BY <1>1, <1>2, <2>1 DEF PlaceInv, ports, shell
    <2>7. Untouched' /\ LastPrompt' /\ Editing' /\ Silent'
      BY <2>1 DEF IInv, Untouched, LastPrompt, Checked, TakenBack, Written, Empty, Editing, Silent, Held,
             shell, terminal
    <2> QED BY <2>2, <2>5, <2>6, <2>7 DEF IInv
  <1>8. CASE rx # Return /\ rx # Control
    <2>1. rx \in Letters
      BY <1>1, <1>2, <1>8 DEF RestTypes, Bytes
    <2>2. echo_character(rx)
      BY <1>2, <1>8
    <2> QED BY <1>2, <1>3, <1>4, <1>5, <2>1, <2>2, EchoInv
  <1> QED BY <1>6, <1>7, <1>8

(* The terminal's byte comes to the port. *)
LEMMA ReceiveInv == ASSUME IInv, Receive PROVE IInv'
  <1>1. PortTypes /\ ShellTypes /\ RestTypes /\ PromptTypes /\ PlaceInv /\ Sound(Terminal)
    BY Have
  <1>2. /\ rx' \in IF Len(echoed) <= UARTSH_BUFFER_MAX + 1 THEN Bytes ELSE {Return}
        /\ raised' = (raised \/ (rx = NoByte /\ unmasked))
        /\ UNCHANGED <<ports, shell, terminal, ran, place, echoed, torn>>
    BY DEF Receive
  <1>11. UNCHANGED <<shell, terminal, pc, at, cells, echoed, torn>>
    BY <1>2 DEF place
  <1>3. rx' \in Bytes \cup {NoByte}
    BY <1>2 DEF Bytes
  <1>4. raised' \in BOOLEAN
    BY <1>2, Zenon
  <1>5. Sound(Terminal)'
    <2>1. Terminal' = Terminal
      BY <1>2 DEF Terminal, terminal
    <2> QED BY <1>1, <2>1 DEF Sound, Cells
  <1>6. PortTypes' /\ ShellTypes'
    BY <1>1, <1>2, PortsKept, ShellKept
  <1>7. RestTypes'
    BY <1>1, <1>2, <1>3, <1>4, Zenon DEF RestTypes, Bytes, Return, Control, NoByte
  <1>8. TypeOK'
    <2>1. PromptTypes'
      BY <1>1, <1>11 DEF PromptTypes
    <2> QED BY <1>5, <1>6, <1>7, <2>1, TypesAre, PTL
  <1>9. PlaceInv'
    <2>1. UNCHANGED ports
      BY <1>2
    <2> QED BY <1>1, <1>11, <2>1 DEF PlaceInv, ports, shell
  <1>10. Untouched' /\ LastPrompt' /\ Editing' /\ Silent'
    BY <1>11 DEF IInv, Untouched, LastPrompt, Checked, TakenBack, Written, Empty, Editing, Silent, Held,
             shell, terminal
  <1> QED BY <1>5, <1>8, <1>9, <1>10 DEF IInv

(* Every step keeps the invariant. *)
LEMMA NextInv == ASSUME IInv, [Next]_vars PROVE IInv'
  <1>1. CASE serial_console_enable
    BY <1>1, ScanInv, InputInv, OutputInv, UnmaskInv, TextInv, PromptInv, StartInv
       DEF serial_console_enable
  <1>2. CASE uart_input_irq
    BY <1>2, IrqInv
  <1>3. CASE Receive
    BY <1>3, ReceiveInv
  <1>4. CASE UNCHANGED vars
    <2>1. UNCHANGED <<ports, shell, terminal, port, ran, pc, at, cells, echoed, torn>>
      BY <1>4 DEF vars, place
    <2>2. PortTypes /\ ShellTypes /\ RestTypes /\ PromptTypes /\ PlaceInv /\ Sound(Terminal)
      BY Have
    <2>3. Sound(Terminal)'
      <3>1. Terminal' = Terminal
        BY <2>1 DEF Terminal, terminal
      <3> QED BY <2>2, <3>1 DEF Sound, Cells
    <2>4. PortTypes' /\ ShellTypes' /\ RestTypes' /\ PromptTypes'
      <3>1. PromptTypes'
        BY <2>1, <2>2 DEF PromptTypes
      <3> QED BY <2>1, <2>2, <3>1, PortsKept, ShellKept, RestKept
    <2>5. TypeOK'
      BY <2>3, <2>4, TypesAre, PTL
    <2>6. PlaceInv'
      BY <2>1, <2>2 DEF PlaceInv, ports, shell
    <2>7. Untouched' /\ LastPrompt' /\ Editing' /\ Silent'
      BY <2>1 DEF IInv, Untouched, LastPrompt, Checked, TakenBack, Written, Empty, Editing, Silent, Held,
             shell, terminal
    <2> QED BY <2>3, <2>5, <2>6, <2>7 DEF IInv
  <1> QED BY <1>1, <1>2, <1>3, <1>4 DEF Next

-----------------------------------------------------------------------------
(* What the console promises *)

(* The ports, the buffer and the line are what they are said to be, and the   *)
(* places of serial_console_enable keep their order: uartsh.c:125-147.       *)
THEOREM ConsoleInvariant == Spec => []IInv
  <1>1. Init => IInv
    BY InitInv
  <1>2. IInv /\ [Next]_vars => IInv'
    BY NextInv
  <1> QED BY <1>1, <1>2, PTL DEF Spec

(* The index a command is ended at (shell.c:154) is inside the page, whatever   *)
(* is typed and however long the line.                                     *)
THEOREM TypeCorrect == Spec => []TypeOK
  <1>1. IInv => TypeOK
    BY DEF IInv
  <1> QED BY <1>1, ConsoleInvariant, PTL

(* Once the console is up the terminal shows a prompt and the line behind it,   *)
(* and the buffer holds what of it it reaches (shell.c:39-59, 148-167).      *)
THEOREM PromptAlwaysStands == Spec => []PromptStands
  <1>1. ASSUME IInv PROVE PromptStands
    <2>1. torn \in BOOLEAN /\ shell_port \in 0 .. 7
      BY <1>1, Have DEF RestTypes, ShellTypes
    <2> SUFFICES ASSUME Settled, shell_port # 0
                 PROVE  /\ prompt_placed
                        /\ line = Prompt \o echoed /\ column = Len(line)
                        /\ command_buffer = Held(echoed)
      BY DEF PromptStands, Held
    <2>2. pc = "up" /\ torn = FALSE
      BY <2>1 DEF Settled
    <2>3. command_buffer = Held(echoed) /\ prompt_placed = TRUE /\ line = Prompt \o echoed /\ column = Len(line)
      BY <1>1, <2>2 DEF IInv, Editing
    <2> QED BY <2>3
  <1> QED BY <1>1, ConsoleInvariant, PTL

(* What is held of a line is letters: its end is no earlier than the buffer's. *)
LEMMA TextIs ==
    ASSUME NEW b \in Seq(Letters)
    PROVE  Text(b) = b
  <1>1. \A k \in DOMAIN b : b[k] # Zero
    <2> SUFFICES ASSUME NEW k \in DOMAIN b PROVE b[k] # Zero
      OBVIOUS
    <2>1. DOMAIN b = 1 .. Len(b)
      OBVIOUS
    <2>2. b[k] \in Letters
      BY <2>1
    <2>3. Zero \notin Letters
      BY Consts
    <2> QED BY <2>2, <2>3
  <1> QED BY <1>1, Zenon DEF Text

(* A command is shorter than the buffer: what the buffer holds of a line is a   *)
(* command only if the line is.                                            *)
LEMMA HeldCommand ==
    ASSUME NEW s \in Seq(Letters)
    PROVE  /\ Held(s) \in Seq(Letters)
           /\ \A c \in Commands : Held(s) = c <=> s = c
  <1> DEFINE m == UARTSH_BUFFER_MAX + 1
             h == SubSeq(s, 1, m)
  <1>1. Len(s) \in Nat /\ UARTSH_BUFFER_MAX \in Nat /\ m \in Nat /\ m \in Int
    BY Consts
  <1>2. \A c \in Commands : c \in Seq(Letters) /\ Len(c) <= UARTSH_BUFFER_MAX
    BY Consts
  <1>3. CASE Len(s) <= m
    BY <1>3 DEF Held
  <1>4. CASE ~(Len(s) <= m)
    <2>1. Held(s) = h
      BY <1>4 DEF Held
    <2>2. \A k \in 1 .. m : s[k] \in Letters
      BY <1>1, <1>4
    <2>3. h \in Seq(Letters) /\ Len(h) = (IF 1 <= m THEN m - 1 + 1 ELSE 0)
      <3> HIDE DEF m
      <3> QED BY <1>1, <2>2, SubSeqProperties
    <2> HIDE DEF h
    <2>4. Len(h) = m
      BY <1>1, <2>3
    <2>5. \A c \in Commands : h # c /\ s # c
      <3> SUFFICES ASSUME NEW c \in Commands PROVE Len(c) < Len(h) /\ Len(c) < Len(s)
        OBVIOUS
      <3>1. Len(c) \in Nat /\ Len(c) <= UARTSH_BUFFER_MAX
        BY <1>2
      <3> QED BY <1>1, <1>4, <2>4, <3>1
    <2> QED BY <2>1, <2>3, <2>5
  <1> QED BY <1>3, <1>4

(* A line the terminal showed in full is run if it is a command, and it alone   *)
(* (shell.c:116-125, 148-167).                                             *)
THEOREM WhatIsShownIsRun == Spec => RunsWhatIsShown
  <1>1. ASSUME IInv, [Next]_vars, Settled, uart_input_irq, rx = Return
        PROVE  ran' = IF echoed \in Commands THEN echoed ELSE <<>>
    <2>1. torn \in BOOLEAN /\ echoed \in Seq(Letters)
      BY <1>1, Have DEF RestTypes
    <2>2. pc = "up" /\ torn = FALSE
      BY <1>1, <2>1 DEF Settled
    <2>3. command_buffer = Held(echoed)
      BY <1>1, <2>2 DEF IInv, Editing
    <2>4. Text(command_buffer) = Held(echoed)
      BY <2>1, <2>3, HeldCommand, TextIs
    <2>5. ran' = IF \E c \in Commands : Held(echoed) = c
                 THEN CHOOSE c \in Commands : Held(echoed) = c ELSE <<>>
      BY <1>1, <2>4 DEF uart_input_irq, uart_shell_command_finalize, Finalized, __uart_command_match
    <2>6. \A c \in Commands : Held(echoed) = c <=> echoed = c
      BY <2>1, HeldCommand
    <2>7. CASE echoed \in Commands
      <3>1. Held(echoed) = echoed
        BY <2>6, <2>7
      <3>2. (CHOOSE c \in Commands : Held(echoed) = c) = echoed
        BY <2>7, <3>1
      <3> QED BY <2>5, <2>7, <3>1, <3>2
    <2>8. CASE echoed \notin Commands
      BY <2>5, <2>6, <2>8
    <2> QED BY <2>7, <2>8
  <1>2. IInv /\ [Next]_vars
          => [(Settled /\ uart_input_irq /\ rx = Return) =>
                ran' = IF echoed \in Commands THEN echoed ELSE <<>>]_vars
    BY <1>1
  <1> QED BY <1>2, ConsoleInvariant, PTL DEF Spec, RunsWhatIsShown

(* The machine halts on a byte only between the unmasking of the input and the   *)
(* moment the shell has its page (uartsh.c:138-140, shell.c:171).              *)
THEOREM HaltsNowhereElse == Spec => HaltsOnlyAtStart
  <1>1. ASSUME IInv, [Next]_vars, pc' = "halted", pc # "halted"
        PROVE  pc \in {"cancel1", "write1", "replace1", "start", "start_buffer"}
    <2>1. PlaceInv
      BY <1>1 DEF IInv
    <2>2. CASE serial_console_enable
      BY <1>1, <2>2
         DEF serial_console_enable, scan_ports, serial_select_input_port, serial_select_output_port,
             serial_set_input_masked, uart_shell_cancel_prompt, uart_shell_replace_prompt,
             finds_prompt, finds_none, takes_back, places, write_cell, write_text, start_port,
             start_buffer, start_index, start_clear, start_unplaced, At, GoesOn
    <2>3. CASE uart_input_irq
      <3>1. pc' # pc /\ _input_masked # TRUE
        BY <1>1, <2>3, Zenon DEF uart_input_irq
      <3>2. has_buffer # TRUE
        BY <2>3, <3>1
           DEF uart_input_irq, uart_shell_command_finalize, Finalized, ignore_character,
              echo_character, place
      <3> QED BY <1>1, <2>1, <3>1, <3>2 DEF PlaceInv, Places, BeforeShell, Masked, WithPage
    <2>4. CASE Receive
      BY <1>1, <2>4 DEF Receive, place
    <2>5. CASE UNCHANGED vars
      BY <1>1, <2>5 DEF vars, place
    <2> QED BY <1>1, <2>2, <2>3, <2>4, <2>5 DEF Next
  <1>2. IInv /\ [Next]_vars
          => [pc' = "halted" /\ pc # "halted" =>
                pc \in {"cancel1", "write1", "replace1", "start", "start_buffer"}]_vars
    BY <1>1
  <1> QED BY <1>2, ConsoleInvariant, PTL DEF Spec, HaltsOnlyAtStart
=============================================================================
