# A TLA+ development of Skylight

Skylight is a small x86-64 operating system: a kernel that Limine boots, and one
program, the shell `prism`, that it loads and runs. This directory holds TLA+
modules of the parts of it whose correctness rests on many steps in the right
order, TLC configurations that check them on small instances, and TLAPS proofs.
Paths below are relative to `src/`; `k/` stands for `src/kernel/src/` and `p/`
for `src/apps/frames/prism/src/`.

## The system

One processor. It boots in `k/boot/limine/limine.s`: GDT, IDT, `sti`, the math
extensions, the boot protocol's tables, `pmm_start`, the kernel's page tables,
the TSS, the APIC, the serial console, the local timer, PCI, the system calls, the
ELF loader, the first task, the keyboard, and at last `task_select`. From there
on only the program, its system calls and interrupts run.

| part | state it keeps | operations | what makes it correct |
|---|---|---|---|
| page allocator, `k/mem/pmm/` | list of section headers in an array, list of pool nodes | `pmm_alloc_page`, `pmm_free_page`, `pmm_lock_page(s)`, `pmm_unlock_pages`, `pmm_alloc_pool`, `pmm_free_pool`, `pmm_recombine` | the list is a partition of memory; a page has one owner; reserved memory stays so; a refusal means there is nothing |
| kernel heap, `k/mem/heap/allocator.c` | list of segments, `heap_end`, `last_header` | `malloc`, `realloc`, `free`, `calloc` | blocks are disjoint and as long as asked, the list covers the heap, neighbours are merged, `malloc` ends |
| paging, `k/mem/paging/` | four levels of tables | map, unmap, remap, walk, edit | a mapping reads back; no other one changes; a table is not a data page |
| dispatch, `k/proc/calls/handler.s`, `k/cpu/interrupts/isr.s`, `k/proc/task/task.c`, `k/iodev/timer/local/` | GS bases, ds, cr3, saved contexts, task list | system call entry and exit, interrupts, `task_select_next` | a program gets back what it had; a handler knows its caller; a call returns |
| keyboard device, `k/iodev/hid/` | bytes of the code so far | interrupt, translation | a key comes through once, as what it is |
| keyboard page, `k/proc/calls/handlers/kb_man.c`, `p/kbd/kbd.c` | owner, page, count; what the shell has read | `kb_man`, `__kb_man_save_key`, `kbd_init`, `kbd_update`, `kbd_kill` | the interrupt writes to the owner's page only; keys arrive in order |
| memory and framebuffer calls, `k/proc/calls/handlers/` | holder of the framebuffer | `pmap`, `punmap`, `fb_req`, `fb_kill` | one holder; a page unmapped is not reachable |
| ELF loader, `k/proc/loader/elf.c` | loaded segments | `elf_load_program` | every byte lands where the program expects it |
| disk, `k/iodev/disk/ahci.c` | command slots, ports | configure, start, stop, read | the engine is stopped while its memory changes; a read ends |
| serial console, `k/iodev/uart/` | prompt, input line | input interrupt, print | output does not tear the prompt apart |
| shell, `p/ux/`, `p/kbd/`, `p/gfx/` | selection, listeners, modifiers, screen | keys, listeners, drawing, decoding | the menu shown is the one the keys act on; a key is decoded as typed |
| start of the allocator, `k/boot/limine/limine.c`, `pmm_start` | memory map, first section list | translate, protect, insert gaps, merge | free memory is usable memory, none is lost, the list is in order |
| vectors, `k/cpu/interrupts/idt.c` | vectors in use, their handlers | allocate, install, free | an interrupt that arrives finds the handler of its device |
| APICs, PIC, PIT, `k/iodev/apic/`, `8259/`, `timer/` | redirection table, lines of the IRQs, masks, ticks | initialize, redirect, mask, wait | each device has the line the firmware says; the wait for ticks ends |
| ACPI, `k/iodev/acpi/` | the firmware's tables | search | the table asked for is found |
| PCI, `k/iodev/pci/` | list of functions | load, find, read, write | the list is what is on the buses, also while it is made |
| GDT, TSS, library | tables | set up once | - |

How they interact. Nearly everything takes pages from the page allocator; the heap
maps them through paging, and paging takes its tables from the page allocator. The
allocator's own pool nodes come from the heap: `pmm_alloc_pool` calls `malloc`,
which may call `pmm_alloc_page`. A system call reaches its handler with the
caller's context behind gs; `pmap`, `kb_man` and `fb_req` use it. The timer's
interrupt calls `task_select_next`; the keyboard's writes into the page `kb_man`
gave to the shell, and the shell reads it with no lock in between. Neither of
these two interrupts calls the page allocator or the heap; the serial port's does, for
its disk commands run in the interrupt and allocate (`ahci.c:75`). While the boot wires one
interrupt after the other those wired before already arrive: the PIT's, whose
ticks the timer is measured by, the serial port's, whose commands read the list of PCI functions
and load the disk driver, and the keyboard's.

What is hard. Interrupts stay enabled in system calls, so they fall between any two
instructions of them. The header lists are changed while they are walked. The keyboard page
is shared between an interrupt and a program. The boot reads what firmware
says, and waits for devices. Bounds are tested in places and not
in others. `PROJECT.json` lists these hazards by line.

## Modules

| module | models | checked by |
|---|---|---|
| `BootMap` | from the firmware's memory map to the allocator's first list | `MCBootMap_maps`; `BootMapProofs` |
| `PageSet` | what a page allocator promises, without sections | `PageSetProofs` |
| `Pmm` | the page allocator from the end of `pmm_start` on; implements `PageSet` | `MCPmm_calls`, `MCPmm_freed`; `PmmProofs` |
| `Heap` | the kernel heap, with its first block | `MCHeap_calls`; `HeapProofs` |
| `Paging` | page tables, the tables of a task, and the system calls that map | `MCPaging_spaces` |
| `Elf` | the loader of programs | `MCElf_load`; `ProcProofs` |
| `Dispatch` | system calls, interrupts and the task list | `MCDispatch_tasks`; `ProcProofs` |
| `Acpi` | the search for a table, the walk over the MADT | `MCBoot_up` |
| `Interrupts` | PIC, APICs, vectors, lines, the timer's calibration | `MCBoot_up`; `BootProofs` |
| `Pci` | the load of the list of functions, and the searches in it | `MCBoot_up`; `BootProofs` |
| `Ahci` | the disk driver | `MCBoot_up`; `BootProofs` |
| `Ps2Kbd` | the keyboard's interrupt handler and translation | `MCBoot_up`; `BootProofs` |
| `Boot` | the five of them in the order of `limine.s`, with what interrupts meanwhile | `MCBoot_up`; `BootProofs` |
| `Keyboard` | a keystroke's way from the interrupt to the shell | `MCKeyboard_calls`; `KeyboardProofs` |
| `KeyTables`, `Menus` | the shell behind that: key decoding, listeners, the menu | `MCMenus_keys`, `MCMenus_shift`; `KeyboardProofs` |
| `Console` | the serial console and its command line | `MCConsole_boot`; `ConsoleProofs` |

`Boot` EXTENDS its five components and composes their actions. The other modules meet
at interfaces that both sides state: `ListIsInOrder` of `BootMap` is what
`BootsAssumption` of `Pmm` asks; `Paging`, `Keyboard` and `Elf` take pages from an
allocator that gives free pages, which is what `PageSet` says and `Pmm` implements;
`kbd_update` of `Menus` finds the keystrokes that `Keyboard` delivers.

Each module holds the mutants of its definitions: forms that a plausible slip in the
code would give them. They stand in front of the definition they are a mutant of,
marked `Mutant`, no specification uses them, and each breaks the property that
`PROJECT.json` pairs it with.

### BootMap

One action is one pass of `limine_reinterpret` over the map, or one iteration of a
loop of `pmm_start` or of `pmm_recombine`. Addresses count pages modulo `WORLD`, for the
code computes with 64 bits and lets them wrap: on a machine whose first entry is
shorter than a megabyte, the gap behind the first section runs backwards, and the
merge of the bad sections brings the addresses right again. (Its count of pages stays too large by
`WORLD`, which no address shows; `Pmm` begins without that.) What the code reads behind
an array is any value (`undefined`).

### PageSet, and Pmm as an implementation of it

`PageSet` is the allocator as its callers see it: a set of free pages and the runs of
pages that are owned. A call for pages is answered in one step, with free pages, or is
refused, which it may only be when nothing fits. A page handed back becomes free
again, or never does (finding 1): that is the liberty the promise leaves. And the allocator may
stop for good, with a call unanswered (`stopped`).

`ImplementsPageSet` of `Pmm` is `PageSet!Spec` under the mapping at the end of that module: `free`
is the pages of the sections marked free, less those a pool call has claimed already; `held` is the
ghost of the runs callers have, with the claim; `asked` is the call that is under way and has not
decided; `returning` is the page `pmm_free_page` was called with, until it is in a free section;
`stopped` is the fault a missing header ends in. All else that the detailed steps do, a split, a
merge, a pass of `pmm_recombine`, an empty section unlinked, is a stutter. On the machines in
`WholeApi` callers unlock what others own, which no specification of ownership survives; they are
mapped to the initial state and are there for the list's own invariants.

`sections` is the array `pmm_sections`, a function from slots to headers; a header
is in use if one of its links is not NULL, exactly as `pmm_section_manager_reindex`
tells. Addresses are page numbers. Every loop of the code walks the list with a
cursor, and one iteration is one action: `selected` is the cursor, `pc` the
function, `run` the pages `pmm_lock_pages` or `pmm_unlock_pages` have still to do.
A NULL that the code would dereference halts the machine (`pc = "halted"`), for
page 0 is not mapped and the exception handler never returns.

Who owns a page is not in the code. The ghost `held` collects the runs that calls
have returned, `claim` the run a pool is locking at the moment.

The machines are a parameter, `Boots`: the section lists that `pmm_start` may leave.
On all of them the calls are those the kernel makes: `pmm_alloc_page`,
`pmm_free_page` of a page so obtained, and `pmm_alloc_pool`. On those in `WholeApi`
the rest of `pmm.h` is called too: `pmm_free_pool`, `pmm_lock_pages` of free pages,
`pmm_unlock_pages`. These calls give up pages that have another owner, so
`ImplementsPageSet` and `HaltsOnlyAtLimits` are about the other machines. The first
thing in every behaviour is `pmm_start`'s own lock of the header array.

Left out: `free_memory`, which is only displayed, and `pmm_realloc_pool`.

### Heap

Addresses are counted in units of 16 bytes, to which `malloc` rounds. `hdr` maps the address of
every header of the list to the header. One action is one iteration of `malloc`'s search,
`heap_expand`, or a whole `free`. `realloc` is a `malloc`, then the copy and the `free`.

The kernel's first `malloc` is that of the first pool node (`tss_add_stack` asks for a pool).
`pmm_alloc_pool` clears a whole page from that 32 byte node on (`k/mem/pmm/pfa.c:249`), and with it
the header of the segment behind. The wiped header looks used, has no next, and is `last_header`:
the remaining part of the first megabyte of the heap is in no segment for ever. The model has it so:
`lost` names that header, and the properties say that nothing else is lost.

### Paging

Tables are sparse functions from indices to entries, on frames; there are four levels as in the
processor, with fewer entries each. `paging_map_page` is the whole recursion: a table that it makes
is entered and then itself mapped, in the same space, before the mapping asked for is made. Each
operation of `paging.c` and each system call that maps is one action, and the calls run with
interrupts enabled but nothing that an interrupt does touches tables. Programs name any page to
`pmap` and `punmap`, as the code lets them: one that is free in their space, one of the
heap's, one whose frame is given out later, and the same page again. The ghost `asked` is what
each space was told to map: the frames, since the page was last unmapped, and the last flags.

### Elf

Addresses count bytes of small pages. The kernel runs on frames mapped at their own numbers, so what
it writes to a program's address lands in that frame, not where the program will look. A pool is the
lowest free pages that are enough, and may have the numbers of a program's pages. One action is one
iteration of the copy into pages that are mapped already, or the placement of the rest. `Mappings`
is what `task_new_page_table` makes of `load_info`; that it maps the stack, the context and the gs
page afterwards, at their frames' own numbers (`task.c:33-45`), is in `Paging`.

### Dispatch

The system call entry does not mask interrupts (`k/proc/calls/setup.s` loads no flag mask), so each
instruction of `syscall_dispatch` that touches what an interrupt looks at is a step: `swapgs`, the
load of ds, the save with the switch of cr3, and the same one by one on the way back. Interrupt
gates clear IF and have their own stack: an interrupt is one action, which may run the timer's
handler or another one. Every handler writes to the local controller's window, and only the kernel's
page table maps it: the path of `irq_stub` for the kernel keeps the table it finds
(`isr.s:133-142`), so under a program's it is a fault. A call has a number that is served, one whose
entry of the table is NULL, which is called all the same, or a bad one: `generate_ud` saves nothing,
and the way out restores what was saved some time before. A context has two faces: the kernel's
table shows the heap's page, which keeps the cr3 that `task_create_new` wrote, and the tables of
programs show frame 0 there (`task.c:62`), where registers are saved and restored, and a copy of cr3
that only a bad number reads (`shown_cr3`). Register contents are one token. The ghosts are `want`,
what the program itself last put there, and `spoiled`, the tasks that made a call of a bad number.

### Boot, with Acpi, Interrupts, Pci, Ahci and Ps2Kbd

`Boot` is the kernel's way up behind `apic_initialize`. `pc` is the place in it; one action
is a step between two points where an interrupt makes a difference, and interrupts are
enabled throughout. An interrupt's handler is one action, for it runs with interrupts
disabled. A machine (`Machines`) is what the firmware says and what is plugged in: the
tables and their order, the MADT's records and what lies in memory behind them, the
segments of the MCFG with the functions on their buses, the drives, whether there is a
serial port and a keyboard.

`Acpi` has the search for a table, which of an RSDT sees the first half, and the walk over
the MADT, which misses the first record and takes in the one behind the last. `Interrupts`
has the vectors, the redirection table, the lines of the IRQs and the timer. A line is an
edge; a message goes from the I/O APIC to the processor and may be under way when its
vector is freed. A vector without a handler leads to the exception handler, which never returns: `dead`.
`died_in` remembers where.

`Pci` loads the list of functions, one function an action, in two steps: it is counted
before there is room for it. The serial commands read the list in between.

`Ahci` is the driver. In a serial command it runs with interrupts disabled, and `hlt` in
`ahci_drive_command_stop` never ends; what comes before is one action (`console_loads`), and with a
drive the machine hangs, if nobody has loaded the driver before. Its header also offers it to the
rest of the kernel, where `hlt` ends at the next interrupt: there every wait is a step of its own,
the controller's engines and the drives run in parallel (`EngineFollows`, `DriveAnswers`), and a
drive may report an error. Nothing in the kernel calls the driver yet; `kernel_reads` machines do.
On one that has a serial port too, `disktest` comes in between: it finds the driver loaded and reads
from every ATA drive registered so far, in its interrupt (`disktest`, `tests`), wherever the kernel
is, in the probe, in the `hlt` of a stop or in a wait. Nothing but the controller goes on until it
is done. Contents of memory, and the length of a read, are left out.

`Ps2Kbd` takes one byte from the wire in one action, exactly as one interrupt does: append, decide
with `ps2_kbd_needs_next_byte`, translate, clear. `MCBoot` has the whole table of
`ps2_translate_keycode`, in which every code has its release. The keyboard is external: it sends
codes one after the other, and the fake shifts `E0 12` and `E0 F0 12` of real keyboards among them.
Its line may be unmasked in the middle of a code, and `ps2_kbd_init` clears the buffer only
afterwards. A byte that waits at that moment has raised its edge before, and the keyboard is not
heard again (`hears`).

### Keyboard

`kb_man` is one action per assignment to what the interrupt reads; the interrupt,
`save_key`, is one action, and may fall between any two others. `pc` is where the
program is: in `kb_man`, in `kbd_init`, in `kbd_update`, or in its main loop.
Keystrokes are numbered, so that order and loss can be stated; `delivered` is what
the listener was called with. The size field of a page that was just allocated is
garbage. The shell calls `kbd_init` once; `Spec` has `kbd_kill` and further calls of
`kbd_init` besides.

### KeyTables and Menus

`KeyTables` has the eight tables of `p/kbd/tables.c` as functions from key codes to characters, put
together from the rows they share, and `kbd_char_decode`. `Menus` has the main loop of the shell,
one action for each keystroke that `kbd_update` finds, and one for the drawing behind it. The screen
is what each of the five texts looks like; they do not overlap, and `text_render_clear` blanks them
all. `kbd_init` may fail, and the shell ends; `fb_req` may fail, and it goes on without a screen.
The ghost `down` is which shift keys the keystrokes say are held.

### Console

`serial_console_enable` is one action per statement that an input interrupt could tell apart, since
it runs with interrupts enabled. `uart_shell_cancel_prompt` and `uart_shell_replace_prompt` are
followed from the look at `prompt_placed` over each character to its assignment (`at`, `cells`); a
text of the kernel is one action, because it ends its line and what comes in between two of its
characters might as well have come before it. The interrupt's handler, command and all, is one
action. The I/O APIC takes the port's line as an edge: `raised` is set when a byte comes to an empty
port while the input is unmasked. The terminal is external: a line of cells and a cursor.

## What the runs show

| run | instance | states | shows |
|---|---|---|---|
| `boot_maps` | every map of up to four entries over nine pages | 189,675 | what the allocator starts with |
| `pmm_calls` | eight machines of 4 to 8 pages, 6 headers, pools of 0 to 2 pages, two pool calls | 1,030,955 | all properties of `Pmm` below |
| `pmm_freed` | the kernel's machines | - | violated: finding 1 |
| `heap_calls` | two pages of 8 units, growing to 6; sizes 1, 3 and a page | 63,514 | all properties of `Heap` |
| `paging_spaces` | the kernel, two programs that name two pages, 36 free frames | 46,659 | all properties of `Paging` |
| `elf_load` | tables of two or three segments over four pages of three bytes | 176,142 | all properties of `Elf` |
| `dispatch_tasks` | three tasks, three register contents, each kind of number | 5,292 | all properties of `Dispatch` |
| `boot_up` | 21 machines, 5 lines, 6 vectors, two ports, buses of two devices with two functions | 49,557 | all properties of `Boot` and its components |
| `keyboard_calls` | three pages of three bytes, five keystrokes | 234,675 | the interrupt writes to its owner's page only; order, and no loss outside `kbd_update` |
| `menus_keys` | three listeners, two keystrokes to an update | 68,550 | all properties of `Menus` |
| `menus_shift` | the same | - | violated: finding 2 |
| `console_boot` | lines over two letters, a buffer of three, a prompt of two, a port on GSI 0 or not | 270,682 | all properties of `Console` |

Most modules have a type invariant, `TypeOK` (`LoadTypeOK` in `Elf`, `ShellTypeOK` in `Menus`).
Those of `BootMap`, `Console`, `Dispatch`, `Elf`, `Keyboard`, `Menus` and `Pmm` are proved; the
others hold too, and are checked by adding `INVARIANT TypeOK` to a configuration, but the runs are
kept for what follows from more than one assignment. (For `Boot` the types are part of the
invariants in `BootProofs`.) The properties, by module:

- `BootMap`. `FreeIsUsable`: what is free at the start is what the
  firmware called usable, less the kernel's copy of the map and the first entry, no more and no less.
  `ListIsInOrder`: the list is one that `Pmm` begins with.
- `Pmm`. `LinksAgree`: links are inverse, sections touch, unlinked headers are blank.
  `EveryPageInOneSection`: the list partitions memory at every step.
  `ImplementsPageSet`: no page is handed out twice, free memory was free at boot, a refusal of
  a page or a pool is justified, and nothing inside a call changes who owns what.
  `HaltsOnlyAtLimits`: what stops the machine is a full header array, or the end of a memory map whose last
  entry is not device memory.
  `CallsReturn`: every call ends.
- `Heap`. `BlocksAreApart`, `ListCoversHeap`, `FreeSegmentsMerged` and `CallsReturn`
  (malloc calls itself after the heap grew, and stops).
- `Paging`. `TablesAreTrees`: the tables of all spaces share nothing and none is free.
  `AskedIsTranslated`: a space translates what it was asked to, with the flags of the last request,
  and nothing else. `ProgramsApart`: what a program got for a page it asked for once is its own, and
  it reaches nothing else, a page that was asked for again with another frame apart. Of such a page
  neither property says anything: the code makes one address of both frames (see below). It is not
  only the program's doing: the kernel maps the keyboard's page and each new table at their frames'
  own numbers, where the program may have put a page.
- `Elf`. `PagesMappedOnce`. `PlacedExactly`: a segment has a record from its start on when it begins
  in no earlier record's range, and from where its record begins its bytes and then zeros are found
  at its addresses, but for the places that `elf.c:31` has written a later segment to. `LoadEnds`.
- `Dispatch`. `ProgramUndisturbed`: a program finds stack, page table and GS bases as it left them,
  and its registers unless it made a call of a bad number. `HandlerKnowsCaller`. `DiesOnlyInWindow`:
  a machine dies only by an interrupt between swapgs and the switch of cr3 on the way in, or between
  the switch of cr3 and swapgs on the way out, which for a bad number is the whole way; in the call
  of a NULL entry; or in a program that made a call of a bad number. `SyscallsReturn`.
- `Boot`. `LinesWired` (`Interrupts`, `Acpi`): at every step an open line leads to a handler, and
  when the boot is over a device is heard, by its own handler, exactly if the line the kernel found
  for it is the one the firmware says and, for COM1, is not line 0. So a record of the MADT that the
  walk misses costs the device it is about, and no other. No line is open but those found, and if
  the MADT was seen whole the NMI pins are right. `StopsOnlyInWindows`: a machine as the kernel
  expects it stops only when an old line rises while the PIC is set up, when a tick is under way
  while the PIT's vector is freed, or by a command that reads the list of PCI functions before it is
  there. `BootEnds`: the wait for ticks ends. `CacheIsTheBus` (`Pci`): the list is the functions on
  the buses that are visited, once each, and never has what is not there. `EngineIdleWhileSet`
  (`Ahci`): a port's memory changes only while both halves of its engine are off, as the controller
  reports them (`cr` and `fr`, which follow the driver's `st` and `fre` later); and a command goes
  only to an engine that was started with the driver's list, but for a `disktest` while the kernel
  is configuring or restarting that very port (`Untimely`). `ReadsEnd`: the kernel's read ends
  unless one failed on the port since it was started, or a `disktest` that came into it waits for
  ever. `InStep` (`Ps2Kbd`): whatever the keyboard was doing when it was enabled, only a fake shift
  puts the handler out of step, the eight bytes of its buffer suffice, and in step every key is
  registered once, as what it is. It is about the bytes that are heard; a keyboard that had raised
  its line before, and is not heard at all, is in the model and satisfies it.
- `Keyboard`. `WriterOwnsPage`, `StartedOwnsBuffer`, `DeliveredInOrder`, and
  `KeyInBufferIsDelivered`: a key that is in the page while the shell is outside
  `kbd_update` reaches the listener.
- `Menus`. `ShowsSelection`: whenever nothing is to be drawn, the screen has all
  options with the selected one highlighted. `ClearedIsDrawnAgain`. `CalledInOrder`: the
  listeners called are those added and not removed. `DecodesAsTyped`: as long as both shift
  keys were not held at once, letters have the case of shift and caps lock, and num lock
  governs the keypad.
- `Console`. `PromptStands`: the terminal shows one prompt and the line being edited, which is the
  buffer's, unless something was typed into the middle of what the kernel wrote: a letter while it
  boots, which stands there until the next Return, or a Return while the kernel's last prompt is
  made (`MidPrompt`), which leaves two until the next. `RunsWhatIsShown`. `HaltsOnlyAtStart`: a byte
  typed before the shell has its page halts the machine, and nothing else does. `ListensFromThenOn`:
  once the port was empty with the console up, each byte is taken.

### Bounds, and why they are enough

`BootMap`: four entries have one with neighbours on both sides, a hole and the IOMMU's block; the
megabyte ends inside, before and behind entries. The headers of nine pages need one page or two.
`Pmm`: the code looks at a section, its two neighbours and the type of each, and tells sections of
one page from longer ones. Two banks of free memory, the longer with three or four pages, give every
combination, with sections made empty and unlinked, headers reused, and the header array filled up
(the machine stops for both reasons of `HaltsOnlyAtLimits`): maps end with device memory, with
memory of the firmware (`UsedEnd`) and with free memory (`FreeEnd`). The number of pool calls is
bounded because nodes are never removed. `Heap`: the requests are smaller than a page, almost one,
and exactly one, the sizes around which `header_split` and `heap_expand` behave differently;
`MaxEnd` lets the heap grow by four pages, and `Room` stops calls beyond it, never a call under way.
`Paging`: each level of the tables has an index that is shared and one that is not, but the second,
which has one entry; frames do not run out, as the code assumes: three calls of `pmap` go before. A
program names a frame that is given out later, and the heap's first page, where the kernel has mapped
its own context in the program's space. `Elf`: a
segment of up to four bytes begins anywhere in a page of three, so it lies in one, two or three
pages, shares its first or last, or begins in the spare page of a record; free pages begin at page
1, in one piece or with gaps, so that a pool is where a program has addresses, and do not run out (a
segment is placed only while they do not, which is a bound of the model: the loader does not look).
`Dispatch`: it has no bound but its constants, and the proofs are for all of them. `Boot`: the
machines differ in one thing each that the code decides by: what an RSDT of three tables shows,
records in front of the MADT's walk and behind it, one, two and three I/O APICs with ids that are
found and are not, overrides of each device's line, one that is missed, one to line 0, no disk
controller, one without registers, each kind of drive, with and without the port and the keyboard, a
kernel that reads with and without a serial console beside it; five lines have one more than the
devices, six vectors have two exceptions and one to spare; the buses have a function behind an
absent one, a device without its function 0, a bus without device 0, a last bus that is not visited,
and a second segment; two ports let one be read while the other is configured. `DEADLINE` is two
ticks. The table of scan codes is whole. `Keyboard`: pages of three bytes are full after three
keystrokes, so the full page, the count whose low byte is cleared (`Byte` = 2 stands for 256) and
keys that arrive during all steps of `kbd_update` occur. `Menus`: three listeners fill their page,
and what `kbd_update` finds between two drawings is up to two keystrokes, so a Clear and a key
behind it occur. `Console`: a line may be longer than the buffer, and longer than the prompt.

Deadlock is not checked: in every run the system may stop, because a machine
has halted, a bound is reached, everything is loaded, or the shell has ended. That a call or the boot
does not stop on the way is stated as liveness.

### Fairness

`Pmm` and `Heap`: weak fairness of the running call. One program runs, and interrupts return.
`Dispatch`: weak fairness of the steps of a system call: after every interrupt the processor goes on
where it was. An interrupt leaves the step enabled. `Keyboard` and `Menus`: weak fairness of the
program, which has the processor but for interrupts. `Elf`: weak fairness of the loader, which
nothing competes with at boot. `Console`: weak fairness of the boot and of an interrupt that is
pending. `Boot`: weak fairness of the boot's own steps, and strong fairness of the driver's, which
have the processor but for interrupts (a `disktest` keeps it for many steps, but each has to be
typed, and the driver runs between two of them); of a `disktest` that runs; of the PIT, which ticks
for ever, and of a message under way; and of the controller, whose engines follow their bits and
whose drives answer, if only with an error. No fairness is asked of the keyboard, the terminal, new
calls, or the timer. `BootMap` and `Paging` state none.

### Findings

1. `pmm_free_page` does not free a page inside a larger used section, nor a section of
   one page that has a free neighbour. `pmm_alloc_page` makes larger used sections
   all the time, so freed pages are mostly lost, against `kb_man.c:12-13`.
2. `kbd.c` keeps one flag for two shift keys: with both held, the release of one ends
   shift, against `kbd.h:13`.

### Where the models follow code that surprises

These are in the models as the code has them; no run is made of them.

- `irq_stub` tells a program from the kernel by ds (`isr.s:94`), and `syscall_dispatch` runs with
  the user's ds and swapped bases for a few instructions at its beginning and end, and with the
  kernel's ds on the program's page table for a few more (`handler.s:14-33`, `47-51`). An interrupt
  there, the timer's included, kills the machine: in the first case swapgs takes away the base, in
  the second the handler faults at the local controller. These are the windows of
  `DiesOnlyInWindow`.
- A call of a bad number is meant to end in #UD (`handler.s:115`). Zeros are `add [rax], al`, and
  control does not come back to them: the registers restored, the return address among them, are
  those of an earlier call or interrupt, or what frame 0 held before there was one. Whatever comes
  of it, an exception halts the whole machine. The comparison is signed (`handler.s:84`): a negative
  number calls what lies before the table, which is not modelled.
- `kbd_kill` does not reset `listeners` (`kbd.c:92`), so `kbd_init` after it fails, with the keyboard taken.
- `task_select_next` never moves on in a list of more than one task
  (`task.c:217`), against `task.h:56`.
- After the fake shift `E0 12` the keyboard handler waits for a print screen, and a
  release that follows is registered as a press (`InStep` names the case).
- `pmap` maps over what is at the page it is given, and `paging_map_page` ors the new address into
  the entry (`pmap.c:20`, `paging.c:63`): the page of a program that asks twice, or for a page that
  the kernel has mapped in its space, the stack, the context or a table's own, leads to a frame that
  is neither's. Tables themselves stay as they are (`TablesAreTrees`), for the kernel walks them in
  its own space.
- `punmap` changes the kernel's tables, for those are loaded when it is called; the program's
  mapping stays. It unmaps any page there, of the heap or the image too, and maps the frame it
  found, NULL when there was none, at its own number (`punmap.c:10-12`). `fb_kill` does not compare
  the caller with the holder. A task's context is looked up in the table under construction and maps
  frame 0 (`task.c:62`).
- A segment that begins inside the range of another has its first part copied to the frame with the
  program's own address (`elf.c:31`), where the program does not find it, over whatever is there: a
  pool of another segment, too. A range is up to a page longer than its segment, for it counts whole
  pages from where the segment begins inside one (`elf.c:41-49`): a segment of 0x500 bytes at 0x15d0
  ranges to 0x35d0, and one at 0x2700, on a page of its own, is lost. When zeros lie in the shared
  part the copy never ends (`elf.c:25`).
- An entry of the memory map that ends exactly at the first megabyte hides the one
  behind it (`limine.c:207`; `HidesNext`), and the first entry is replaced whole by the
  first megabyte. The search for two neighbouring entries reads one entry
  behind the map (`limine.c:170`).
- When the memory map does not end with device memory the allocator faults at its end. If it ends
  with a free section, the `pmm_alloc_page` after the last page is gone unlinks the empty section
  and writes through its next (`pfa.c:69`), rather than return NULL, and a pool that locks the last
  page reads its next (`pfa.c:166`; `FreeEnd`, `OpenEnd`). If it ends with memory of the firmware, a
  pool that takes the last free page merges the used sections on both sides into the last one, and
  `pmm_free_page` of a page that is now inside it reads its next (`pfa.c:138`; `UsedEnd`).
  `StopsAtLimits` says that there is no other way to stop but a full header array.
- The codes of `p/kbd/kbd.h` give keypad plus the code of keypad minus
  (`kbd.h:69`), and the tables do not: from there on each table is one place behind, so
  enter decodes to nothing, tab to a new line and backspace to a tab. With caps lock the period is a comma
  (`tables.c:193`). `kbd_remove_listener` of the first listener does nothing, and of any in a full
  page it clears the entry behind the page. Nothing calls either function yet.
- With a drive in the machine, the first `lsdisks` or `disktest` never returns: it loads the driver,
  and the stop of the drive's engine halts in an interrupt handler (`ahci.c:244`), though the help
  offers both (`shell.c:194`). Once the kernel has loaded it, `disktest` works, but nothing keeps it
  from a port that the kernel is using: it issues a command to an engine the kernel has just
  stopped, and waits for ever (`ahci.c:309`), or clears the error that ends the kernel's read
  (`ahci.c:267`), with the same end. Without a controller they read through NULL (`ahci.c:63`).
- Behind an error the driver neither clears ST nor resets the port, so the next read on it waits
  for ever; there is no watchdog (`ahci.c:309`). The command tables get a
  pool of 256 / 4096 = 0 pages (`ahci.c:195`), so they lie in memory the allocator hands out again.
- The entries of an RSDT are counted as 8 bytes each, and they are 4: half of them are seen
  (`tables.c:19`). The walks over the MADT step on before they look (`initialize.c:41`). The last
  bus of a segment is not visited (`confrw.c:23`). The second I/O APIC's `next` is never set
  (`ioapic.c:19`).
- A byte that waits in the keyboard controller when its line is unmasked has raised it
  already: the keyboard is not heard any more (`ps2_kbd.c:221`).
- A Return behind `uart_shell_replace_prompt`'s look at the prompt (`shell.c:49`) places one, and
  the kernel's goes behind it: two on one line, until the next Return. It is open at boot only.
- The console never hears a port on GSI 0 (`uartsh.c:104`), which a firmware may give with an override.
- The serial console is deaf for ever when a byte came before its input was unmasked:
  the edge is lost (`uartsh.c:92`). `available_com_ports[8]` lies behind its array.

## What is proved

`ProcProofs` on `Dispatch`, for every number of tasks and every set of register contents (the
only assumptions are those of `DispatchAssumption`: at least one task, contents not
empty):

- `Inductive`: `Spec => []IInv`.
- `TypeCorrect`: `Spec => []TypeOK`.
- `ProgramsAreUndisturbed`: `Spec => []ProgramUndisturbed`.
- `HandlersKnowTheCaller`: `Spec => []HandlerKnowsCaller`.
- `DiesNowhereElse`: `Spec => DiesOnlyInWindow`.

The argument. `ProgramUndisturbed` is about user mode only and is not inductive. The invariant says
where each value is at every point of a system call: in the registers until `entry_save`, in the
saved context from there to `exit_restore`, in the registers again; which GS base leads to the
task's block; which table is loaded, for that decides what a context shows and whether an interrupt
is survived; in `BadCall`, that a bad number leaves the bases, the stack and a cr3 of the task's all
the same; and, in `Home`, that the block leads to the task that runs, which a timer interrupt at any
point must keep. An interrupt is the hard case: there is a lemma for each path of `irq_stub`, split
by what its routine did. Since `task_select_next` never moves on, the task is always the first: this
is in `Home` and is where the proof uses the code as it is.

`ProcProofs` on `Elf`, for every file whose table of headers is as the format asks
(`FilesAssumption`: load headers are in order, do not overlap, have no more bytes in the file than
in memory, and addresses that memory has), for every size of a page and any free pages:

- `LoadInvariant`: `LoadSpec => []LoadInv`; `LoadTypeCorrect`: `LoadSpec => []LoadTypeOK`.
- `MappedOnce`: `LoadSpec => []PagesMappedOnce`.
- `SegmentsPlaced`: `LoadSpec => []PlacedExactly`.

A record covers whole pages from an address inside a page, so it ends behind its segment, and two of
them could meet in a page. `RecordsInv` says that they do not: a record begins before the end of a
header that is passed, so not behind the next header, and that one is placed only from an address no
record covers (`BehindAll`). An address n pages behind another is in a page n pages behind
(`PagesBehind`), which makes it a fact about pages. For `PlacedExactly`, `ReadingInv` says that what
is left of a header is the rest of it, counted from its start (`RestOf`), and all of it when it
begins in no record's range (`CopyStep`: what is copied shares a range, `NotMapped`). `RecordsInv`
says, too, that pools are apart from each other and from what is free. `PlacedInv` is then that a
record holds the rest of its segment but for `CopiedOver`, the places a later header has been copied
to so far; `required_pages` is enough for it (`Required`), `StaysHeld` carries it over a step, and
when the loader is done `CopiedOver` is what `PlacedExactly` excepts.

`BootMapProofs`, for every set of memory maps of any length in which entries are in order, not empty and do
not overlap, and usable ones do not touch (`FirmwareAssumption`), and for all sizes:

- `MapInvariant`: `Spec => []IInv`, with the types.
- `OnlyUsableIsFree`: `Spec => []FreeIsUsable`.
- `StartsInOrder`: `Spec => []ListIsInOrder`.

Both properties are about the end of four loops, and the invariant says what each hands to the next.
The assumption orders neighbours; `FirmwareApart` orders all entries (the least one out of order
would not be). `Arranged` is that order for the map as `limine_reinterpret` changes it, with, of
each usable entry, the pages the firmware gave it less the kernel's copy: pages go from a free entry
to the end of one in use, so no two free entries come to touch. `Clipped` is what is left of it
behind the first megabyte: of two entries with the same base the first is the empty one that hides
the other. From there on everything hangs on one fact, that no two free sections are ever neighbours
(`Joined`): `add_entry` puts a gap between them, since their entries do not touch, and so
`pmm_recombine` merges none of them, and each free section is a free entry to the end
(`FromEntries`, `FreeKept`). `Tail_` says that the list ends in the entry before the next one, so an
entry is passed by only when it is hidden. That the sections that are merged still touch the next
one, gaps that run backwards included, is arithmetic with remainders (`ModOfSum`), and that there is
a page of headers at all is arithmetic with quotients (`DataPages`).

`PageSetProofs`, for every memory map and every set of pool sizes that are numbers:

- `PagesApart`: `Spec => []OwnedApart`: no page has two owners, none that is owned or on its way
  back is free, and reserved memory is neither. With `ImplementsPageSet` this is what `Pmm`
  gives its callers: `PagesHaveOneOwner` of `PmmProofs`.

`OwnedApart` is inductive as it stands, because it speaks of the pages on their way back too.

`PmmProofs`, for every machine of `Boots`, every number of headers and every size of a pool
(`BootsAssumption`: the list that `pmm_start` leaves begins at page 0 with a bad section, has no
hole and no empty section, neighbours differ in type, and the run of the headers begins a free
section):

- `Invariant`: `Spec => []IInv`; `TypeCorrect`: `Spec => []TypeOK`.
- `ListWhole`, `PagesDescribed`: `Spec => []` of `LinksAgree` and `EveryPageInOneSection`, on every machine,
  those of `WholeApi` included.
- `Implements`: `Spec => ImplementsPageSet`.
- `PagesHaveOneOwner`: `Spec => []NoPageOwnedTwice`: `PagesApart` brought back through the
  refinement to `held`, `claim` and the sections.
- `StopsAtLimits`: `Spec => []HaltsOnlyAtLimits`, for the calls of the kernel.

Neither property of the list is inductive, and each part of `IInv` is there for a step that would
break them. `Shape` is both of them and the order of addresses, for an arbitrary array. `Tidy`: what
is empty is free and no two free sections are neighbours. Without it an empty section could stand in
front of the page a scan looks for, and `pmm_free_page` and `pmm_lock_page`, which compare starts
only, would act on the wrong one. `RamKept`: what was free at boot is never in a bad section, so
what is locked can be locked. `CursorInv`: the cursor stands on a section of the list, after a
section was split or merged under it too. `LockInv` and `SearchInv` say what a scan has behind it:
the pages that `pmm_lock_pages` has not come to are free and the cursor is not past the next of
them; no section before the cursor of an allocation would have served. `ClaimInv` says whom the
pages of the running call are for. The proof has three layers. The operations on the header array
(split, the two merges, a border that moves, another type, an unlinked header) are brought to
predicates on two arrays (`Divided`, `NextSwallows`, `PrevSwallows`, `BorderMoved`, `Retyped`), each
of which keeps `Chained`, then `Shape`, then `Tidy`, and either keeps the type of every page or
changes one. Each branch of `pfa.c` is a few of them, and leaves a good list with the same free
pages, one more or one less. Then there is one lemma for each action, and one more that maps it to a
step of `PageSet` or a stutter.

`HaltsOnlyAtLimits` needs three more facts (`HaltInv`, `RunIsRam`). A list that ends with device
memory goes on doing so: each of the predicates above keeps it (`EndsBad`), because nothing the
kernel asks for retypes such a section or merges it into one of another type. What is left of a pool
begins a free section of that length (`HeadsFree`), so `pmm_lock_pages` never runs into the end of
the list. And a page that is freed was free at boot, so the section that holds it is not device
memory: that is not about the list but about the owners, and comes back through the refinement
(`OwnersApart`). Each place that may fault then has either no header left (`SplitFaults`) or a
cursor on a last section that is not device memory. `OwnedApart` is carried along there: that a page
handed back was not free is not a fact of the list, it holds because its owner was the only one.

The plan of this proof found an error in the specification. `ImplementsPageSet` did not let the machine stop
while a call is asked, and no machine of the run did so: one with device memory between
its banks does, for want of a header. `DeviceBetween` of `MCPmm` is such a machine, and `PageSet` has `stops`.

`BootProofs`, for every set of machines, ports, buses, lines and vectors:

- `DriverKnowsItsPorts`: `BootSpec => []DriverInv`.
- `EnginesIdleWhileSet`: `BootSpec => EngineIdleWhileSet`, with `disktest` wherever it may come.
- `EveryDeviceWired`: `BootSpec => []LinesWired`.
- `ListIsTheBus`: `BootSpec => []CacheIsTheBus`.
- `StopsInWindows`: `BootSpec => []StopsOnlyInWindows`.
- `HandlerInStep`: `BootSpec => []InStep`.

The disk. That a command meets an engine that was started with the driver's list is not about one
step: `DriverInv` says of each port what the driver knows of it at each place the driver can be. A
port registered and not in `todo` has the driver's list and ST, unless it is the one that is just
being restarted. A `disktest` takes its ports from those registered and changes nothing of that: it
clears the error bit and issues. So what is not untimely meets a port of the first kind. A serial
command that loads the driver does so only before the kernel's first use.

The lines. The kernel finds three different lines for the machines' devices, right or wrong
(`BootAssumption`), and three vectors lie behind the exceptions (`InterruptsAssumption`). The
invariant `LinesInv` says, for each place of the boot, which vectors are taken and what their
handlers are; that a line which is open leads to one of them, the PIT's vector from the PIT's line
only, which is masked before the vector is freed; and exactly which lines are open, for COM1 on line
0 none. The vectors in use are always the lowest, so what `idt_allocate_vector` returns is known
(`AllocatesNext`). There is a lemma for each step that changes a table; all other steps leave the
tables alone.

The list of functions, for any segments, any number of devices and functions, and any commands in
between; a function of a segment has an address that the loops can reach (`BootAssumption`). The
loops of `pci_conf_load_cache` skip: a device whose function 0 is absent, a bus whose device 0 is.
So the list is not what has been looked at but what is in front of the place where the load is, in
the order of segment, bus, device and function (`Before`): `PciInv` says that the list is the part
of `OnTheBuses` before `at`, and, of `at` itself, that the device and the bus it is on are there
(`Passed`). `Leads` is what each loop promises the one inside it: the next place has everything that
is left behind it and nothing between. It is proved from the outermost loop inwards, `FirstBusLeads`
to `NextFunctionLeads`; the outermost needs the least of the segments left (`LeastMember`, from the
well-foundedness of the numbers). For the second theorem `StopInv` adds what holds of a machine as
the kernel expects it: from `configure_io_apic` on the controller with id 0 is found, and a message
under way is a tick of the PIT, which by `LinesInv` gets through only from `pit_unmask` to
`pit_disable` and has a handler until its vector is freed. When the list is made, `PciInv` says that
a command finds the controller in it and that the count is the length.

The keyboard, for any tables of keys in which no key is a prefix and none behind `E0` is 12, 77 or
7C (`KbdAssumption`; with one of those `InStep` would be false, and `ps2_kbd.c` has none). `Came`
ties the bytes on the wire, the bytes held and the code together at any time, wherever in the code
the handler began. What is left is a fact about each code, kind by kind (`CodesAreWhole`): more is
expected until it is whole, then no more, and a part of it that begins with a prefix never leaves
the handler waiting at its end, but for a fake shift. `NothingYet` says that nothing was heard
before the line was opened.

`KeyboardProofs`, for every page size, width of the size field, number of pages and of keystrokes:

- `TypeCorrect`, `WriterOwns`, `ReaderOwns`, `InOrder`: `Spec => []` of `TypeOK`,
  `WriterOwnsPage`, `StartedOwnsBuffer` and `DeliveredInOrder`.

None of the three properties is inductive. `Places` says who has the page at each place in `kb_man`,
`kbd_init` and `kbd_kill`; `Ordered` says that, while the program may read the page, what it has not
read yet are keystrokes later than all it has delivered, in order, and that `kbd_update` never
counts more of them than there are. It holds from the moment `kbd_init` found the page empty,
because nothing but the interrupt writes to it.

The same module proves of the shell behind the page (`ShellSpec` of `Menus`), for every set of
listeners, every length of their page (`MenusAssumption`) and any number of keystrokes to an update:

- `ShellInvariant`: `ShellSpec => []ShellInv`; `ShellTypeCorrect`: `ShellSpec => []ShellTypeOK`,
  with the count of the listeners inside their page.
- `SelectionIsShown`, `ListenersInOrder`, `TypedIsDecoded`: `ShellSpec => []` of `ShowsSelection`,
  `CalledInOrder` and `DecodesAsTyped`.

`ShowsSelection` needs the types and `Begun`: before the main loop nothing is listened to, and in it
an option is selected, so that drawing the menu highlights one. `_menu_main_select_option` then
takes the light from the old option and gives it to the new one, and a menu that was cleared is
drawn from a blank screen (`Selecting`, `Drawing`). `CalledInOrder` is proved entry by entry
(`Listening`): entry 0 is the menu, which no one removes, and entry q is the q-th of those added.
`kbd_remove_listener` looks for the lowest index that has the callback, which is the first of its
kind among those added (`TargetIsFirst`), and moves up all that is behind it, so the rest is what
was added without it. For `DecodesAsTyped`, `Fingers` says that the one flag for both shift keys is
right as long as both were not held at once. The other half is about the tables: each is four rows
joined to a sequence with single keys between, and `TableIs` says which index a row comes to lie at
(`Laid`). The table without the keypad and the one with it then have the same letters and differ on
the keypad only (`Decent`), and the four pairs that `kbd_char_decode` chooses from are of the right
case (`TablesOf`).

`HeapProofs`, for every size of a page, of the first heap, of the pools' node and of the requests
(`HeapAssumption`: a heap of at least two pages, a node that fits a page with room for a header):

- `ListSound`: `Spec => []HeapInv`.
- `BlocksApart`, `ListCovers`, `FreeMerged`: `Spec => []` of `BlocksAreApart`, `ListCoversHeap` and
  `FreeSegmentsMerged`.

None of the three is inductive: that a split or a merge keeps one of them needs the links, their
order and the lengths at once. `List` says all of that about any list of headers, with the header
that was wiped as a parameter, whose own back link may be anything; `Apart` says which segments may
have a free neighbour behind them that is not merged yet. `Split`, `Expand`, `MarkedList`,
`CombineForward` and `CombineBackward` say what each operation of the list does to these two, and
`free` is then the marking of a segment, which leaves two exceptions, and two merges, each of which
removes one. Before the first block the heap is the one segment `Virgin` describes; `InvFirst` is
the step from there to the list with the wiped header. The proof never uses that the heap stays
below `MaxEnd`, the bound of the runs.

`ConsoleProofs`, for every set of letters, of commands and of ports, and every length of the buffer
and of the prompt (`ConsoleAssumption`: a command is not empty and fits the buffer):

- `ConsoleInvariant`: `Spec => []IInv`; `TypeCorrect`: `Spec => []TypeOK`, with the index of the
  buffer inside its page.
- `PromptAlwaysStands`: `Spec => []PromptStands`.
- `WhatIsShownIsRun`: `Spec => RunsWhatIsShown`.
- `HaltsNowhereElse`: `Spec => HaltsOnlyAtStart`.

`PromptStands` is about the console that is up, and not inductive: it begins with what the boot
leaves. Until then a byte that is echoed makes the line torn, so a line that is not torn has nothing
in it (`Untouched`). The kernel's last prompt is followed character by character (`LastPrompt`):
while it is looked for the line is empty or a Return's prompt, while it is taken back the cursor is
as far left as there were backspaces, and while it is written the line is the prompt or as many of
its characters as were written; a Return makes it the prompt again or, in between, the line torn.
Without a port the shell writes nothing (`Silent`), and a shell has the port the kernel writes to
(`PlaceInv`). From there on only the handler writes (`Editing`): what is held of a line and one
letter more is what is held of the longer line (`HeldIs`). A command is shorter than the buffer, so
what is held of a longer line is none (`HeldCommand`). `PlaceInv` says that the input is masked
before it is unmasked and that from `start_index` on there is a page, which leaves the places of
`HaltsOnlyAtStart`.

Only model-checked: all liveness (`BootEnds`, `ReadsEnd`, `CallsReturn`, `SyscallsReturn`,
`LoadEnds`, `KeyInBufferIsDelivered`, `ClearedIsDrawnAgain`, `ListensFromThenOn`: out of the
prover's reach under fairness), and `Paging`, whose addresses need `Bitwise`, which a module with
theorems cannot use. Every other property of the runs is a theorem.

## What is not modelled

`PROJECT.json` lists every part with its status.

- Of the disk: what a command and the memory behind it contain, and the length of a read. A
  `disktest` that comes into the kernel's read also overwrites its command table (`ahci.c:275`),
  which is not seen here. The command tables that lie in no page of their own, and the pages that a
  disk command allocates in an interrupt while the kernel may be in `pmm_alloc_page`, are hazards
  that no property covers: the second would corrupt the list of `Pmm`, which has one caller at a
  time, and nothing in the code keeps the two apart.
- Polarity and trigger mode of lines, the frequency the timer measures, the GDT, the TSS, descriptors:
  registers and tables that are written once and that no step of these modules reads.
- The commands to the keyboard and their answers, and `ps2_kbd_kill`, which nothing calls.
- Formatting (`printf`, `itoa`), glyphs, colours and pixels: layout.
- The shell's `malloc`: nothing calls it. `pmm_realloc_pool`: nothing calls it.

Assumed and worth knowing: callers use what `pmm_alloc_page` returns without looking at
it, and the models of the callers never run out of pages; `Pmm` shows when the
allocator refuses. An address that the kernel writes is taken to be mapped, but for NULL: page 0 is in no
entry of the map that Limine leaves, so an access through NULL faults.

## Plan

What would come next, in order.

1. `Shell`: `Keyboard` and `Menus` in one behaviour, so that what is lost while
   `kbd_update` runs reaches the modifiers.
2. `Console` within `Boot`, so that the line is typed while the boot goes on.
