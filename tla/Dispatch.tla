----------------------------- MODULE Dispatch -----------------------------
(***************************************************************************)
(* How the one processor moves between tasks, system calls and interrupts: *)
(* proc/calls/handler.s, cpu/interrupts/isr.s, the timer's handler and the *)
(* task list of proc/task/task.c, from task_select at boot on.             *)
(*                                                                         *)
(* A syscall runs with interrupts enabled (setup.s never loads the syscall *)
(* flag mask), so its instructions are steps of their own as far as they   *)
(* touch what an interrupt looks at: the two GS bases, ds, cr3, the        *)
(* registers and the task's saved context.  An interrupt gate clears IF    *)
(* and has a stack of its own, so a whole interrupt is one step.           *)
(*                                                                         *)
(* Registers are one token, their contents; the stack pointer and rip of a *)
(* task are known by the task they belong to.  A base of 0 that is used to *)
(* reach [gs:0x20] is a page fault, and the exception handler halts.  So is *)
(* the end of an interrupt under a program's page table: every handler     *)
(* writes to the local controller's window, which only the kernel's table  *)
(* maps.                                                                   *)
(*                                                                         *)
(* The number of a call is a served one, one whose entry of the table is   *)
(* NULL, or one of at least nsyscalls.  A negative one passes the signed   *)
(* comparison of handler.s:84 and calls what lies before the table: it is  *)
(* left out, and so are arguments a served call does not survive.          *)
(***************************************************************************)
EXTENDS Naturals

CONSTANTS
    NTasks,   \* tasks created before task_select; the kernel creates one
    Contents  \* what the registers of a program may hold

DispatchAssumption == NTasks \in Nat \ {0} /\ Contents # {}
ASSUME DispatchAssumption

Tid    == 1 .. NTasks   \* also names the task's gs page, context and page table
NoBase == 0
Kernel == 0             \* the kernel's own page table in cr3
First  == 1             \* head of the list `tasks'

TASK_STATE_EXECUTION == "EXEC"
TASK_STATE_WAITING   == "WAIT"
TASK_STATE_SLEEPING  == "SLEP"
State == {TASK_STATE_EXECUTION, TASK_STATE_WAITING, TASK_STATE_SLEEPING}

VARIABLES
    task,            \* tasks: state and gs_base of each
    block,           \* the gs pages: pid and ctx, and the user's rsp at 0x28
    ctx,             \* the context of each task: its cr3 as the kernel's table
                     \* shows it, the rest as the tables of programs do, which
                     \* map another frame there (task.c:62)
    current_task_id,
    GS, KGS,         \* IA32_GS_BASE and IA32_KERNEL_GS_BASE
    ds,              \* "user" (0x1B) or "kernel" (0x10)
    cr3, regs,
    rsp,             \* whose user stack is in rsp, NoBase for the kernel's
    pc,              \* where the processor is, "halted" for ever in the end
    rip,             \* the task whose program was interrupted or made the call
    number,          \* the number of the call
    want,            \* ghost: what each program last put into its registers
    spoiled          \* ghost: the tasks that made a call of a bad number

cpu    == <<GS, KGS, ds, cr3, regs, rsp>>
ghosts == <<want, spoiled>>
vars   == <<task, block, ctx, current_task_id, GS, KGS, ds, cr3, regs, rsp, pc,
            rip, number, want, spoiled>>

NoTable == NTasks + 1   \* what a context holds before a cr3 was stored there
Number  == {"served", "null", "bad"}

-----------------------------------------------------------------------------
(* task_select_next, with IA32_GS_BASE = g.  The list is left where it is    *)
(* unless the current task is the last of it.                              *)
Selected == IF current_task_id = NTasks THEN First ELSE current_task_id

TasksAfterSelect(g) ==
    [t \in Tid |->
        [state   |-> IF t = Selected THEN TASK_STATE_EXECUTION
                     ELSE IF t = current_task_id THEN TASK_STATE_WAITING
                     ELSE task[t].state,
         gs_base |-> IF t = current_task_id THEN g ELSE task[t].gs_base]]

task_select_next(g, newGS) ==
    /\ task' = TasksAfterSelect(g)
    /\ current_task_id' = Selected
    /\ newGS = TasksAfterSelect(g)[Selected].gs_base
    /\ block' = [block EXCEPT ![newGS].ctx = Selected, ![newGS].pid = Selected]

(* The routine of the interrupt, run with the GS bases g and kg: the local   *)
(* timer's, or one that has nothing to do with tasks.                      *)
Routine(g, kg, newGS) ==
    \/ /\ g # NoBase /\ kg = NoBase
       /\ task_select_next(g, newGS)
    \/ /\ newGS = g
       /\ UNCHANGED <<task, block, current_task_id>>

Fault == /\ pc' = "halted"
         /\ UNCHANGED <<task, block, ctx, current_task_id, cpu, rip, number, ghosts>>

-----------------------------------------------------------------------------
(* The program running in user mode changes its registers. *)
Compute ==
    /\ pc = "user"
    /\ \E v \in Contents : regs' = v /\ want' = [want EXCEPT ![rip] = v]
    /\ UNCHANGED <<task, block, ctx, current_task_id, GS, KGS, ds, cr3, rsp, pc, rip,
                   number, spoiled>>

(* isr_exception_handler: a program that came back to an old return address  *)
(* with old registers may do anything, and an exception halts.             *)
exception == pc = "user" /\ rip \in spoiled /\ Fault

(* syscall: the processor enters syscall_dispatch. *)
Syscall ==
    /\ pc = "user"
    /\ pc' = "entry"
    /\ number' \in Number
    /\ UNCHANGED <<task, block, ctx, current_task_id, cpu, rip, ghosts>>

entry_swapgs ==
    /\ pc = "entry"
    /\ pc' = "entry_swapped"
    /\ GS' = KGS /\ KGS' = GS
    /\ UNCHANGED <<task, block, ctx, current_task_id, ds, cr3, regs, rsp, rip, number,
                   ghosts>>

(* handler.s:78-81: the user's rsp is kept at [gs:0x28]. *)
KeepStack == block' = [block EXCEPT ![GS].rsp = rsp] /\ rsp' = NoBase

(* handler.s:78-84 and 9-15: the number is looked at, ds becomes the kernel's. *)
entry_load_ds ==
    /\ pc = "entry_swapped" /\ number # "bad"
    /\ IF GS = NoBase THEN Fault
       ELSE /\ pc' = "entry_ds"
            /\ KeepStack
            /\ ds' = "kernel"
            /\ UNCHANGED <<task, ctx, current_task_id, GS, KGS, cr3, regs, rip, number,
                           ghosts>>

(* handler.s:83-84 and 113-116: a zero at the return address, and straight to *)
(* the way out: nothing was saved, and ds and cr3 are still the program's.   *)
generate_ud ==
    /\ pc = "entry_swapped" /\ number = "bad"
    /\ IF GS = NoBase THEN Fault
       ELSE /\ pc' = "exit"
            /\ KeepStack
            /\ spoiled' = spoiled \cup {rip}
            /\ UNCHANGED <<task, ctx, current_task_id, GS, KGS, ds, cr3, regs, rip, number,
                           want>>

\* Mutant: the registers are not saved.
entry_save_nothing ==
    /\ pc = "entry_ds"
    /\ pc' = "handler"
    /\ cr3' = Kernel
    /\ UNCHANGED <<task, block, ctx, current_task_id, GS, KGS, ds, regs, rsp, rip, number,
                   ghosts>>

(* handler.s:17-33: the registers go to the context, cr3 becomes the kernel's. *)
entry_save ==
    /\ pc = "entry_ds"
    /\ pc' = "handler"
    /\ ctx' = [ctx EXCEPT ![block[GS].ctx].regs = regs]
    /\ cr3' = Kernel
    /\ UNCHANGED <<task, block, current_task_id, GS, KGS, ds, regs, rsp, rip, number,
                   ghosts>>

(* The call's own work leaves anything in the registers; a NULL entry of the *)
(* table is called all the same.                                           *)
handle ==
    /\ pc = "handler"
    /\ IF number = "null" THEN Fault
       ELSE /\ pc' = "exit"
            /\ regs' \in Contents
            /\ UNCHANGED <<task, block, ctx, current_task_id, GS, KGS, ds, cr3, rsp, rip,
                           number, ghosts>>

(* handler.s:45-47: the cr3 of the context, as the table in use shows it. *)
ShownCr3(c) == IF cr3 = Kernel THEN ctx[c].cr3 ELSE ctx[c].shown_cr3

exit_load_cr3 ==
    /\ pc = "exit"
    /\ IF ShownCr3(block[GS].ctx) = NoTable THEN Fault
       ELSE /\ pc' = "exit_cr3"
            /\ cr3' = ShownCr3(block[GS].ctx)
            /\ UNCHANGED <<task, block, ctx, current_task_id, GS, KGS, ds, regs, rsp, rip,
                           number, ghosts>>

(* handler.s:49-52 *)
exit_load_ds ==
    /\ pc = "exit_cr3"
    /\ pc' = "exit_ds"
    /\ ds' = "user"
    /\ UNCHANGED <<task, block, ctx, current_task_id, GS, KGS, cr3, regs, rsp, rip, number,
                   ghosts>>

(* handler.s:54-74 and 109 *)
exit_restore ==
    /\ pc = "exit_ds"
    /\ pc' = "exit_restored"
    /\ regs' = ctx[block[GS].ctx].regs
    /\ rsp' = block[GS].rsp
    /\ UNCHANGED <<task, block, ctx, current_task_id, GS, KGS, ds, cr3, rip, number, ghosts>>

\* Mutant: the way out forgets swapgs.
exit_no_swapgs ==
    /\ pc = "exit_restored"
    /\ pc' = "exit_swapped"
    /\ UNCHANGED <<task, block, ctx, current_task_id, cpu, rip, number, ghosts>>

exit_swapgs ==
    /\ pc = "exit_restored"
    /\ pc' = "exit_swapped"
    /\ GS' = KGS /\ KGS' = GS
    /\ UNCHANGED <<task, block, ctx, current_task_id, ds, cr3, regs, rsp, rip, number,
                   ghosts>>

\* Mutant: the return address is that of the syscall instruction.
sysret_repeats ==
    /\ pc = "exit_swapped"
    /\ pc' = "entry"
    /\ UNCHANGED <<task, block, ctx, current_task_id, cpu, rip, number, ghosts>>

sysret ==
    /\ pc = "exit_swapped"
    /\ pc' = "user"
    /\ UNCHANGED <<task, block, ctx, current_task_id, cpu, rip, number, ghosts>>

-----------------------------------------------------------------------------
(* irq_stub, .yes_task: swapgs, save into the context gs leads to, run the   *)
(* routine under the kernel's table, restore from the context gs leads to by *)
(* then, swapgs.                                                           *)
interrupt_task ==
    /\ pc # "halted"
    /\ ds # "kernel"
    /\ IF KGS = NoBase THEN Fault
       ELSE \E newGS \in Tid :
              /\ Routine(KGS, GS, newGS)
              /\ ctx' = [ctx EXCEPT ![block[KGS].ctx].regs = regs,
                                    ![block[KGS].ctx].shown_cr3 = cr3]
              /\ KGS' = newGS
              /\ GS' = IF newGS = KGS THEN GS ELSE NoBase
              /\ regs' = ctx'[block'[newGS].ctx].regs
              /\ cr3' = ctx'[block'[newGS].ctx].cr3
              /\ UNCHANGED <<ds, rsp, pc, rip, number, ghosts>>

\* Mutant: swapgs on this path, too.
interrupt_kernel_swaps ==
    /\ pc # "halted"
    /\ ds = "kernel"
    /\ IF cr3 # Kernel THEN Fault
       ELSE /\ \E newGS \in Tid \cup {NoBase} :
                 Routine(GS, KGS, newGS) /\ GS' = KGS /\ KGS' = newGS
            /\ UNCHANGED <<ctx, ds, cr3, regs, rsp, pc, rip, number, ghosts>>

(* irq_stub, .no_task: the registers are kept on the stack, and the routine  *)
(* runs under the table that is there.                                     *)
interrupt_kernel ==
    /\ pc # "halted"
    /\ ds = "kernel"
    /\ IF cr3 # Kernel THEN Fault
       ELSE /\ \E newGS \in Tid \cup {NoBase} : Routine(GS, KGS, newGS) /\ GS' = newGS
            /\ UNCHANGED <<ctx, KGS, ds, cr3, regs, rsp, pc, rip, number, ghosts>>

-----------------------------------------------------------------------------
(* task_create_new left every task sleeping; task_select(First) has run, and *)
(* loaded its registers from the frame the program's table shows, whatever  *)
(* that held.                                                              *)
Init ==
    /\ task = [t \in Tid |-> [state |-> TASK_STATE_SLEEPING, gs_base |-> t]]
    /\ block = [t \in Tid |-> [pid |-> t, ctx |-> t, rsp |-> t]]
    /\ \E v \in Contents :
         /\ ctx = [t \in Tid |-> [regs |-> v, cr3 |-> t, shown_cr3 |-> NoTable]]
         /\ want = [t \in Tid |-> v]
         /\ regs = v
    /\ current_task_id = First
    /\ GS = NoBase /\ KGS = First
    /\ ds = "user" /\ cr3 = First /\ rsp = First
    /\ pc = "user" /\ rip = First
    /\ number = "served" /\ spoiled = {}

SyscallStep == entry_swapgs \/ entry_load_ds \/ generate_ud \/ entry_save \/ handle
               \/ exit_load_cr3 \/ exit_load_ds \/ exit_restore \/ exit_swapgs \/ sysret
Next == Compute \/ exception \/ Syscall \/ SyscallStep \/ interrupt_task \/ interrupt_kernel

(* The processor goes on with a system call after every interrupt. *)
Spec == Init /\ [][Next]_vars /\ WF_vars(SyscallStep)

-----------------------------------------------------------------------------
Pc == {"user", "entry", "entry_swapped", "entry_ds", "handler", "exit", "exit_cr3",
       "exit_ds", "exit_restored", "exit_swapped", "halted"}

(* Every variable has its type. *)
TypeOK ==
    /\ task \in [Tid -> [state : State, gs_base : Tid]]
    /\ block \in [Tid -> [pid : Tid, ctx : Tid, rsp : Tid \cup {NoBase}]]
    /\ ctx \in [Tid -> [regs : Contents, cr3 : Tid, shown_cr3 : Tid \cup {NoTable}]]
    /\ current_task_id \in Tid
    /\ GS \in Tid \cup {NoBase} /\ KGS \in Tid \cup {NoBase}
    /\ ds \in {"user", "kernel"}
    /\ cr3 \in Tid \cup {Kernel} /\ regs \in Contents /\ rsp \in Tid \cup {NoBase}
    /\ pc \in Pc /\ rip \in Tid /\ number \in Number
    /\ want \in [Tid -> Contents] /\ spoiled \subseteq Tid

(* Whatever system calls and interrupts came in between, a program that runs *)
(* finds its stack, its page table and the GS bases as it left them, and its *)
(* registers too unless it made a call of a bad number: handler.s and isr.s  *)
(* save and restore through the same context, and the path of a bad number   *)
(* (handler.s:113-116) restores what an earlier call or interrupt saved.    *)
ProgramUndisturbed ==
    pc = "user" => /\ cr3 = rip /\ rsp = rip
                   /\ GS = NoBase /\ KGS = rip /\ block[KGS].pid = rip
                   /\ regs = want[rip] \/ rip \in spoiled

(* While ds is the kernel's, the caller's pid and context are reached through *)
(* gs, also after a timer interrupt rewrote them (fb_req, kb_man, pmap and   *)
(* pid read them so).  From the switch of cr3 on until it is switched back,  *)
(* the caller's registers lie in its context.                              *)
HandlerKnowsCaller ==
    ds = "kernel" /\ pc # "halted" =>
        /\ GS = rip /\ KGS = NoBase
        /\ block[GS].pid = rip /\ block[GS].ctx = rip
        /\ ctx[rip].cr3 = rip
        /\ pc \in {"handler", "exit"} =>
             cr3 = Kernel /\ (ctx[rip].regs = want[rip] \/ rip \in spoiled)

(* The machine dies only where the bases, ds and cr3 disagree: between swapgs *)
(* and the switch of cr3 on the way in, and between the switch of cr3 and     *)
(* swapgs on the way out, the whole way for a bad number; in the call of a   *)
(* NULL entry; and in a program that made a call of a bad number.           *)
DiesOnlyInWindow ==
    [][pc' = "halted" =>
         \/ pc \in {"entry_swapped", "entry_ds", "exit_cr3", "exit_ds", "exit_restored",
                    "halted"}
         \/ pc = "exit" /\ number = "bad"
         \/ pc = "handler" /\ number = "null"
         \/ pc = "user" /\ rip \in spoiled]_vars

(* A system call comes back to its program, or the machine has halted. *)
SyscallsReturn == (pc \notin {"user", "halted"}) ~> (pc \in {"user", "halted"})
=============================================================================
