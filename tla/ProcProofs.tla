----------------------------- MODULE ProcProofs -----------------------------
(***************************************************************************)
(* Programs, from their file to their registers: what proc/loader puts into   *)
(* memory, and what system calls and interrupts leave of what a program has.   *)
(* Dispatch and Elf share no state; each part has an argument of its own.     *)
(***************************************************************************)
EXTENDS Dispatch, Elf, TLAPS, SequenceTheorems

-----------------------------------------------------------------------------
(***************************************************************************)
(* Dispatch, for any number of tasks and any registers.                    *)
(*                                                                         *)
(* ProgramUndisturbed speaks of user mode only.  That it holds there rests *)
(* on where every value is kept on the way through a system call, which is *)
(* what AtEntry, InKernel, BadCall and AtExit say of each point of it; Home *)
(* says that the path through gs leads to the one task that runs, and that *)
(* no table shows a cr3 there that is not the task's.                      *)
(***************************************************************************)
Home ==
    /\ current_task_id = First /\ rip = First
    /\ task[First].gs_base = First
    /\ block[First].pid = First /\ block[First].ctx = First
    /\ ctx[First].cr3 = First /\ ctx[First].shown_cr3 \in {First, NoTable}

OutsideBases == GS = NoBase /\ KGS = First
InsideBases  == GS = First /\ KGS = NoBase

Known(r)    == r = want[First] \/ First \in spoiled
Undisturbed == Known(regs) /\ cr3 = First /\ rsp = First
Saved       == Known(ctx[First].regs) /\ block[First].rsp = First

InUser ==
    pc \in {"user", "entry", "exit_swapped"} =>
        OutsideBases /\ ds = "user" /\ Undisturbed

AtEntry ==
    /\ pc = "entry_swapped" => InsideBases /\ ds = "user" /\ Undisturbed
    /\ pc = "entry_ds" => /\ InsideBases /\ ds = "kernel" /\ cr3 = First
                          /\ block[First].rsp = First /\ Known(regs) /\ number # "bad"

InKernel ==
    pc = "handler" \/ (pc = "exit" /\ number # "bad") =>
        InsideBases /\ ds = "kernel" /\ cr3 = Kernel /\ Saved

BadCall ==
    pc = "exit" /\ number = "bad" =>
        InsideBases /\ ds = "user" /\ cr3 = First /\ Saved /\ First \in spoiled

AtExit ==
    /\ pc = "exit_cr3" => InsideBases /\ cr3 = First /\ Saved
    /\ pc = "exit_ds" => InsideBases /\ ds = "user" /\ cr3 = First /\ Saved
    /\ pc = "exit_restored" => InsideBases /\ ds = "user" /\ Undisturbed

AtHandler == pc = "handler" => number # "bad"

IInv == TypeOK /\ Home /\ InUser /\ AtEntry /\ AtHandler /\ InKernel /\ BadCall /\ AtExit

LEMMA FirstIsTask ==
  /\ First \in Tid /\ NoBase \notin Tid /\ Kernel \notin Tid /\ NoTable \notin Tid
  /\ First # NoBase /\ First # Kernel /\ First # NoTable
  BY DispatchAssumption DEF DispatchAssumption, First, Tid, NoBase, Kernel, NoTable

(* A context whose registers, or whose registers and cr3 as programs see it, *)
(* are stored.                                                             *)
LEMMA RegistersStored ==
  ASSUME TypeOK, ctx' = [ctx EXCEPT ![First].regs = regs]
  PROVE  /\ ctx' \in [Tid -> [regs : Contents, cr3 : Tid, shown_cr3 : Tid \cup {NoTable}]]
         /\ ctx'[First].regs = regs /\ ctx'[First].cr3 = ctx[First].cr3
         /\ ctx'[First].shown_cr3 = ctx[First].shown_cr3
<1> USE FirstIsTask
<1>1. /\ ctx \in [Tid -> [regs : Contents, cr3 : Tid, shown_cr3 : Tid \cup {NoTable}]]
      /\ ctx[First] \in [regs : Contents, cr3 : Tid, shown_cr3 : Tid \cup {NoTable}]
      /\ regs \in Contents
  BY DEF TypeOK
<1>. QED
  BY <1>1

LEMMA ContextStored ==
  ASSUME TypeOK, ctx' = [ctx EXCEPT ![First].regs = regs, ![First].shown_cr3 = First]
  PROVE  /\ ctx' \in [Tid -> [regs : Contents, cr3 : Tid, shown_cr3 : Tid \cup {NoTable}]]
         /\ ctx'[First].regs = regs /\ ctx'[First].cr3 = ctx[First].cr3
         /\ ctx'[First].shown_cr3 = First
<1> USE FirstIsTask
<1>1. /\ ctx \in [Tid -> [regs : Contents, cr3 : Tid, shown_cr3 : Tid \cup {NoTable}]]
      /\ ctx[First] \in [regs : Contents, cr3 : Tid, shown_cr3 : Tid \cup {NoTable}]
      /\ regs \in Contents
  BY DEF TypeOK
<1>. QED
  BY <1>1

LEMMA InitIInv == Init => IInv
<1> SUFFICES ASSUME Init PROVE IInv
  OBVIOUS
<1>1. TypeOK
  BY FirstIsTask DEF Init, TypeOK, Pc, Number, State, TASK_STATE_SLEEPING
<1>2. Home /\ InUser
  BY FirstIsTask DEF Init, Home, InUser, OutsideBases, Undisturbed, Known
<1>3. AtEntry /\ AtHandler /\ InKernel /\ BadCall /\ AtExit
  BY DEF Init, AtEntry, AtHandler, InKernel, BadCall, AtExit
<1>. QED
  BY <1>1, <1>2, <1>3 DEF IInv

(* A machine that has died has nothing left to keep. *)
LEMMA FaultKeeps == IInv /\ Fault => IInv'
  BY DEF Fault, cpu, ghosts, IInv, TypeOK, Pc, Home, InUser, AtEntry, AtHandler, InKernel,
         BadCall, AtExit

-----------------------------------------------------------------------------
(* A program computes, or makes a call. *)
LEMMA UserStep == IInv /\ (Compute \/ exception \/ Syscall) => IInv'
<1> SUFFICES ASSUME IInv, Compute \/ exception \/ Syscall PROVE IInv'
  OBVIOUS
<1> USE FirstIsTask DEF IInv
<1>1. CASE Compute
  <2>1. TypeOK' /\ Home'
    BY <1>1 DEF Compute, TypeOK, Home, Pc
  <2>2. InUser'
    BY <1>1 DEF Compute, TypeOK, Home, InUser, OutsideBases, Undisturbed, Known
  <2>3. (AtEntry /\ AtHandler /\ InKernel /\ BadCall /\ AtExit)'
    BY <1>1 DEF Compute, AtEntry, AtHandler, InKernel, BadCall, AtExit
  <2>. QED
    BY <2>1, <2>2, <2>3
<1>2. CASE Syscall
  BY <1>2 DEF Syscall, cpu, ghosts, TypeOK, Pc, Home, InUser, AtEntry, AtHandler, InKernel,
              BadCall, AtExit, OutsideBases, Undisturbed, Known
<1>3. CASE exception
  BY <1>3, FaultKeeps DEF exception
<1>. QED
  BY <1>1, <1>2, <1>3

(* The user's stack is kept in the gs page. *)
LEMMA StackKept ==
  ASSUME TypeOK, Home, InsideBases, rsp = First, KeepStack
  PROVE  /\ block' \in [Tid -> [pid : Tid, ctx : Tid, rsp : Tid \cup {NoBase}]]
         /\ block'[First].pid = First /\ block'[First].ctx = First
         /\ block'[First].rsp = First /\ rsp' = NoBase
<1> USE FirstIsTask
<1>1. /\ block \in [Tid -> [pid : Tid, ctx : Tid, rsp : Tid \cup {NoBase}]]
      /\ block[First] \in [pid : Tid, ctx : Tid, rsp : Tid \cup {NoBase}]
  BY DEF TypeOK
<1>2. block' = [block EXCEPT ![First].rsp = First] /\ rsp' = NoBase
  BY DEF KeepStack, InsideBases
<1>. QED
  BY <1>1, <1>2 DEF Home

(* The way into the kernel. *)
LEMMA EntryStep ==
  IInv /\ (entry_swapgs \/ entry_load_ds \/ generate_ud \/ entry_save) => IInv'
<1> SUFFICES ASSUME IInv, entry_swapgs \/ entry_load_ds \/ generate_ud \/ entry_save
             PROVE  IInv'
  OBVIOUS
<1> USE FirstIsTask DEF IInv
<1>1. CASE entry_swapgs
  BY <1>1 DEF entry_swapgs, ghosts, TypeOK, Pc, Home, InUser, AtEntry, AtHandler, InKernel,
              BadCall, AtExit, OutsideBases, InsideBases, Undisturbed, Known
<1>2. ASSUME pc = "entry_swapped"
      PROVE  InsideBases /\ Undisturbed /\ GS # NoBase
  BY <1>2 DEF AtEntry, InsideBases
<1>3. CASE entry_load_ds
  <2>1. /\ InsideBases /\ Undisturbed /\ KeepStack
        /\ pc' = "entry_ds" /\ ds' = "kernel" /\ number # "bad"
        /\ UNCHANGED <<task, ctx, current_task_id, GS, KGS, cr3, regs, rip, number, want,
                       spoiled>>
    BY <1>2, <1>3 DEF entry_load_ds, ghosts
  <2>2. /\ block' \in [Tid -> [pid : Tid, ctx : Tid, rsp : Tid \cup {NoBase}]]
        /\ block'[First].pid = First /\ block'[First].ctx = First
        /\ block'[First].rsp = First /\ rsp' = NoBase
    BY <2>1, StackKept DEF Undisturbed
  <2>3. TypeOK' /\ Home'
    BY <2>1, <2>2 DEF TypeOK, Pc, Home
  <2>. QED
    BY <2>1, <2>2, <2>3 DEF InUser, AtEntry, AtHandler, InKernel, BadCall, AtExit,
                            InsideBases, Undisturbed, Known
<1>4. CASE generate_ud
  <2>1. /\ InsideBases /\ Undisturbed /\ KeepStack /\ ds = "user"
        /\ pc' = "exit" /\ number = "bad" /\ spoiled' = spoiled \cup {rip}
        /\ UNCHANGED <<task, ctx, current_task_id, GS, KGS, ds, cr3, regs, rip, number, want>>
    BY <1>2, <1>4 DEF generate_ud, AtEntry
  <2>2. /\ block' \in [Tid -> [pid : Tid, ctx : Tid, rsp : Tid \cup {NoBase}]]
        /\ block'[First].pid = First /\ block'[First].ctx = First
        /\ block'[First].rsp = First /\ rsp' = NoBase
    BY <2>1, StackKept DEF Undisturbed
  <2>3. TypeOK' /\ Home' /\ First \in spoiled'
    BY <2>1, <2>2 DEF TypeOK, Pc, Home
  <2>. QED
    BY <2>1, <2>2, <2>3 DEF InUser, AtEntry, AtHandler, InKernel, BadCall, AtExit,
                            InsideBases, Undisturbed, Saved, Known
<1>5. CASE entry_save
  <2>1. /\ InsideBases /\ ds = "kernel" /\ block[First].rsp = First /\ Known(regs)
        /\ number # "bad" /\ block[GS].ctx = First
    BY <1>5 DEF entry_save, AtEntry, Home, InsideBases
  <2>2. /\ ctx' = [ctx EXCEPT ![First].regs = regs] /\ pc' = "handler" /\ cr3' = Kernel
        /\ UNCHANGED <<task, block, current_task_id, GS, KGS, ds, regs, rsp, rip, number,
                       want, spoiled>>
    BY <1>5, <2>1 DEF entry_save, ghosts
  <2>3. /\ ctx' \in [Tid -> [regs : Contents, cr3 : Tid, shown_cr3 : Tid \cup {NoTable}]]
        /\ ctx'[First].regs = regs /\ ctx'[First].cr3 = ctx[First].cr3
        /\ ctx'[First].shown_cr3 = ctx[First].shown_cr3
    BY <2>2, RegistersStored
  <2>4. TypeOK' /\ Home'
    BY <2>2, <2>3 DEF TypeOK, Pc, Home
  <2>5. InsideBases' /\ Saved'
    BY <2>1, <2>2, <2>3 DEF InsideBases, Saved, Known
  <2>. QED
    BY <2>1, <2>2, <2>4, <2>5 DEF InUser, AtEntry, AtHandler, InKernel, BadCall, AtExit
<1>. QED
  BY <1>1, <1>3, <1>4, <1>5

(* The call itself and the way out of the kernel. *)
LEMMA ExitStep ==
  IInv /\ (handle \/ exit_load_cr3 \/ exit_load_ds \/ exit_restore \/ exit_swapgs \/ sysret)
    => IInv'
<1> SUFFICES ASSUME IInv,
                    handle \/ exit_load_cr3 \/ exit_load_ds \/ exit_restore \/ exit_swapgs
                    \/ sysret
             PROVE  IInv'
  OBVIOUS
<1> USE FirstIsTask DEF IInv
<1>1. CASE handle
  <2>1. CASE Fault
    BY <2>1, FaultKeeps
  <2>2. CASE ~Fault
    BY <1>1, <2>2 DEF handle, ghosts, TypeOK, Pc, Home, InUser, AtEntry, AtHandler, InKernel,
                      BadCall, AtExit, InsideBases, Saved, Known
  <2>. QED
    BY <2>1, <2>2
<1>2. CASE exit_load_cr3
  <2>1. CASE Fault
    BY <2>1, FaultKeeps
  <2>2. CASE ~Fault
    <3>1. pc = "exit" /\ InsideBases /\ Saved /\ cr3 \in {First, Kernel}
      BY <1>2 DEF exit_load_cr3, InKernel, BadCall
    <3>2. /\ cr3' = ShownCr3(First) /\ cr3' # NoTable /\ pc' = "exit_cr3"
          /\ UNCHANGED <<task, block, ctx, current_task_id, GS, KGS, ds, regs, rsp, rip,
                         number, want, spoiled>>
      BY <1>2, <2>2, <3>1 DEF exit_load_cr3, ghosts, InsideBases, Home
    <3>3. cr3' = First
      BY <3>2 DEF ShownCr3, Home
    <3>4. TypeOK' /\ Home'
      BY <3>2, <3>3 DEF TypeOK, Pc, Home
    <3>5. InsideBases' /\ Saved'
      BY <3>1, <3>2 DEF InsideBases, Saved, Known
    <3>. QED
      BY <3>2, <3>3, <3>4, <3>5 DEF InUser, AtEntry, AtHandler, InKernel, BadCall, AtExit
  <2>. QED
    BY <2>1, <2>2
<1>3. CASE exit_load_ds
  BY <1>3 DEF exit_load_ds, ghosts, TypeOK, Pc, Home, InUser, AtEntry, AtHandler, InKernel,
              BadCall, AtExit, InsideBases, Saved, Known
<1>4. CASE exit_restore
  BY <1>4 DEF exit_restore, ghosts, TypeOK, Pc, Home, InUser, AtEntry, AtHandler, InKernel,
              BadCall, AtExit, InsideBases, Saved, Undisturbed, Known
<1>5. CASE exit_swapgs
  BY <1>5 DEF exit_swapgs, ghosts, TypeOK, Pc, Home, InUser, AtEntry, AtHandler, InKernel,
              BadCall, AtExit, OutsideBases, InsideBases, Undisturbed, Known
<1>6. CASE sysret
  BY <1>6 DEF sysret, cpu, ghosts, TypeOK, Pc, Home, InUser, AtEntry, AtHandler, InKernel,
              BadCall, AtExit, OutsideBases, Undisturbed, Known
<1>. QED
  BY <1>1, <1>2, <1>3, <1>4, <1>5, <1>6

(* The timer finds the one task that runs and selects it again. *)
LEMMA RoutineKeepsTask ==
  ASSUME TypeOK, Home, NEW STATE kg, NEW newGS, Routine(First, kg, newGS)
  PROVE  /\ newGS = First
         /\ task' \in [Tid -> [state : State, gs_base : Tid]]
         /\ block' \in [Tid -> [pid : Tid, ctx : Tid, rsp : Tid \cup {NoBase}]]
         /\ current_task_id' = First
         /\ task'[First].gs_base = First
         /\ block'[First].pid = First /\ block'[First].ctx = First
         /\ block'[First].rsp = block[First].rsp
<1> USE FirstIsTask
<1>1. CASE UNCHANGED <<task, block, current_task_id>> /\ newGS = First
  BY <1>1 DEF TypeOK, Home
<1>2. CASE task_select_next(First, newGS)
  <2>1. Selected = First
    BY DEF Selected, Home
  <2>2. /\ task' \in [Tid -> [state : State, gs_base : Tid]]
        /\ task'[First].gs_base = First
    BY <1>2, <2>1 DEF task_select_next, TasksAfterSelect, TypeOK, Home, State
  <2>3. newGS = First
    BY <1>2, <2>1, <2>2 DEF task_select_next
  <2>4. block' = [block EXCEPT ![First].ctx = First, ![First].pid = First]
    BY <1>2, <2>1, <2>3 DEF task_select_next
  <2>5. /\ block' \in [Tid -> [pid : Tid, ctx : Tid, rsp : Tid \cup {NoBase}]]
        /\ block'[First].pid = First /\ block'[First].ctx = First
        /\ block'[First].rsp = block[First].rsp
    <3>1. /\ block \in [Tid -> [pid : Tid, ctx : Tid, rsp : Tid \cup {NoBase}]]
          /\ block[First] \in [pid : Tid, ctx : Tid, rsp : Tid \cup {NoBase}]
      BY DEF TypeOK
    <3>2. DOMAIN block' = Tid /\ \A t \in Tid \ {First} : block'[t] = block[t]
      BY <2>4, <3>1
    <3>3. block'[First] = [pid |-> First, ctx |-> First, rsp |-> block[First].rsp]
      BY <2>4, <3>1
    <3>4. block' = [t \in Tid |-> block'[t]]
      BY <2>4, <3>1
    <3>. QED
      BY <3>1, <3>2, <3>3, <3>4
  <2>6. current_task_id' = First
    BY <1>2, <2>1 DEF task_select_next
  <2>. QED
    BY <2>2, <2>3, <2>5, <2>6
<1>. QED
  BY <1>1, <1>2 DEF Routine

(* An interrupt on the path for tasks.  Where GS and KGS are already swapped *)
(* it dies; elsewhere it saves and restores through the same context.      *)
LEMMA TaskInterrupt == IInv /\ interrupt_task => IInv'
<1> SUFFICES ASSUME IInv, interrupt_task PROVE IInv'
  OBVIOUS
<1> USE FirstIsTask DEF IInv
<1>1. CASE KGS = NoBase
  BY <1>1, FaultKeeps DEF interrupt_task
<1>2. CASE KGS # NoBase
  <2>1. pc \in {"user", "entry", "exit_swapped"} /\ OutsideBases /\ Undisturbed
    BY <1>2 DEF interrupt_task, TypeOK, Pc, Number, InUser, AtEntry, InKernel, BadCall,
                AtExit, InsideBases
  <2>2. PICK newGS \in Tid :
          /\ Routine(KGS, GS, newGS)
          /\ ctx' = [ctx EXCEPT ![block[KGS].ctx].regs = regs,
                                ![block[KGS].ctx].shown_cr3 = cr3]
          /\ KGS' = newGS
          /\ GS' = IF newGS = KGS THEN GS ELSE NoBase
          /\ regs' = ctx'[block'[newGS].ctx].regs
          /\ cr3' = ctx'[block'[newGS].ctx].cr3
          /\ UNCHANGED <<ds, rsp, pc, rip, number, ghosts>>
    BY <1>2 DEF interrupt_task
  <2>3. KGS = First /\ GS = NoBase /\ block[KGS].ctx = First /\ cr3 = First
    BY <2>1 DEF OutsideBases, Home, Undisturbed
  <2>4. Routine(First, GS, newGS)
    BY <2>2, <2>3
  <2>5. /\ newGS = First
        /\ task' \in [Tid -> [state : State, gs_base : Tid]]
        /\ block' \in [Tid -> [pid : Tid, ctx : Tid, rsp : Tid \cup {NoBase}]]
        /\ current_task_id' = First
        /\ task'[First].gs_base = First
        /\ block'[First].pid = First /\ block'[First].ctx = First
    BY <2>4, RoutineKeepsTask
  <2>6. /\ ctx' \in [Tid -> [regs : Contents, cr3 : Tid, shown_cr3 : Tid \cup {NoTable}]]
        /\ ctx'[First].regs = regs /\ ctx'[First].cr3 = First
        /\ ctx'[First].shown_cr3 = First
    <3>1. ctx' = [ctx EXCEPT ![First].regs = regs, ![First].shown_cr3 = First]
      BY <2>2, <2>3
    <3>. QED
      BY <3>1, ContextStored DEF Home
  <2>7. /\ regs' = regs /\ cr3' = First /\ GS' = NoBase /\ KGS' = First
        /\ UNCHANGED <<ds, rsp, pc, rip, number, want, spoiled>>
    BY <2>2, <2>3, <2>5, <2>6 DEF ghosts
  <2>8. TypeOK' /\ Home'
    BY <2>5, <2>6, <2>7 DEF TypeOK, Home
  <2>. QED
    BY <2>1, <2>7, <2>8 DEF InUser, AtEntry, AtHandler, InKernel, BadCall, AtExit,
                            OutsideBases, Undisturbed, Known
<1>. QED
  BY <1>1, <1>2

(* An interrupt of the kernel proper: it dies under a program's table. *)
LEMMA KernelInterrupt == IInv /\ interrupt_kernel => IInv'
<1> SUFFICES ASSUME IInv, interrupt_kernel PROVE IInv'
  OBVIOUS
<1> USE FirstIsTask DEF IInv
<1>1. CASE cr3 # Kernel
  BY <1>1, FaultKeeps DEF interrupt_kernel
<1>2. CASE cr3 = Kernel
  <2>1. pc \in {"handler", "exit"} /\ InsideBases /\ number # "bad"
    BY <1>2 DEF interrupt_kernel, TypeOK, Pc, InUser, AtEntry, AtHandler, InKernel, BadCall,
                AtExit, Undisturbed
  <2>2. PICK newGS \in Tid \cup {NoBase} : Routine(GS, KGS, newGS) /\ GS' = newGS
    BY <1>2 DEF interrupt_kernel
  <2>3. Routine(First, KGS, newGS)
    BY <2>1, <2>2 DEF InsideBases
  <2>4. /\ newGS = First
        /\ task' \in [Tid -> [state : State, gs_base : Tid]]
        /\ block' \in [Tid -> [pid : Tid, ctx : Tid, rsp : Tid \cup {NoBase}]]
        /\ current_task_id' = First
        /\ task'[First].gs_base = First
        /\ block'[First].pid = First /\ block'[First].ctx = First
        /\ block'[First].rsp = block[First].rsp
    BY <2>3, RoutineKeepsTask
  <2>5. /\ GS' = First
        /\ UNCHANGED <<ctx, KGS, ds, cr3, regs, rsp, pc, rip, number, want, spoiled>>
    BY <1>2, <2>2, <2>4 DEF interrupt_kernel, ghosts
  <2>6. TypeOK' /\ Home'
    BY <2>4, <2>5 DEF TypeOK, Home
  <2>. QED
    BY <2>1, <2>4, <2>5, <2>6 DEF InUser, AtEntry, AtHandler, InKernel, BadCall, AtExit,
                                  InsideBases, Saved, Known
<1>. QED
  BY <1>1, <1>2

LEMMA StutterIInv == IInv /\ UNCHANGED vars => IInv'
  BY DEF vars, IInv, TypeOK, Home, InUser, AtEntry, AtHandler, InKernel, BadCall, AtExit,
         OutsideBases, InsideBases, Undisturbed, Saved, Known

(* Where every value is kept, at every moment of every run: handler.s and    *)
(* isr.s, with an interrupt between any two of their steps.                *)
THEOREM Inductive == Spec => []IInv
<1>1. IInv /\ [Next]_vars => IInv'
  BY UserStep, EntryStep, ExitStep, TaskInterrupt, KernelInterrupt, StutterIInv
     DEF Next, SyscallStep
<1>. QED
  BY InitIInv, <1>1, PTL DEF Spec

-----------------------------------------------------------------------------
(* Every variable has its type, for any number of tasks. *)
THEOREM TypeCorrect == Spec => []TypeOK
<1>1. IInv => TypeOK
  BY DEF IInv
<1>. QED
  BY Inductive, <1>1, PTL

(* handler.s and isr.s give a program back everything they took from it, its *)
(* registers excepted once it made a call of a bad number.                 *)
THEOREM ProgramsAreUndisturbed == Spec => []ProgramUndisturbed
<1>1. IInv => ProgramUndisturbed
  BY DEF IInv, Home, InUser, OutsideBases, Undisturbed, Known, ProgramUndisturbed
<1>. QED
  BY Inductive, <1>1, PTL

(* The handlers of system calls always find the caller's pid and context.   *)
THEOREM HandlersKnowTheCaller == Spec => []HandlerKnowsCaller
<1>1. IInv => HandlerKnowsCaller
  <2> SUFFICES ASSUME IInv, ds = "kernel", pc # "halted"
               PROVE  /\ GS = rip /\ KGS = NoBase
                      /\ block[GS].pid = rip /\ block[GS].ctx = rip
                      /\ ctx[rip].cr3 = rip
                      /\ pc \in {"handler", "exit"} =>
                           cr3 = Kernel /\ (ctx[rip].regs = want[rip] \/ rip \in spoiled)
    BY DEF HandlerKnowsCaller
  <2>1. InsideBases
    BY DEF IInv, TypeOK, Pc, Number, InUser, AtEntry, InKernel, BadCall, AtExit
  <2>2. pc \in {"handler", "exit"} => cr3 = Kernel /\ Saved
    BY DEF IInv, AtHandler, InKernel, BadCall
  <2>. QED
    BY <2>1, <2>2 DEF IInv, Home, InsideBases, Saved, Known
<1>. QED
  BY Inductive, <1>1, PTL

(* Where the machine may die in this code: the points at which the bases, ds *)
(* and cr3 disagree, a NULL entry, and a program after a bad number.       *)
MayDie ==
    \/ pc \in {"entry_swapped", "entry_ds", "exit_cr3", "exit_ds", "exit_restored",
               "halted"}
    \/ pc = "exit" /\ number = "bad"
    \/ pc = "handler" /\ number = "null"
    \/ pc = "user" /\ rip \in spoiled

(* The machine dies in this code nowhere else. *)
THEOREM DiesNowhereElse == Spec => DiesOnlyInWindow
<1> USE FirstIsTask
<1>1. ASSUME IInv, [Next]_vars, pc' = "halted"
      PROVE  MayDie
  <2>1. CASE interrupt_task
    <3>1. CASE KGS = NoBase
      BY <1>1, <2>1, <3>1 DEF interrupt_task, MayDie, IInv, TypeOK, Pc, InUser, InKernel,
                              AtEntry, OutsideBases, Number
    <3>2. CASE KGS # NoBase
      BY <1>1, <2>1, <3>2 DEF interrupt_task, MayDie
    <3>. QED
      BY <3>1, <3>2
  <2>2. CASE interrupt_kernel
    <3>1. CASE cr3 # Kernel
      BY <1>1, <2>2, <3>1 DEF interrupt_kernel, MayDie, IInv, TypeOK, Pc, InUser, InKernel,
                              AtEntry, Number
    <3>2. CASE cr3 = Kernel
      BY <1>1, <2>2, <3>2 DEF interrupt_kernel, MayDie
    <3>. QED
      BY <3>1, <3>2
  <2>3. CASE exit_load_cr3
    <3>1. CASE number = "bad"
      BY <2>3, <3>1 DEF exit_load_cr3, MayDie
    <3>2. CASE number # "bad"
      BY <1>1, <2>3, <3>2 DEF exit_load_cr3, IInv, InKernel, InsideBases, Home, ShownCr3
    <3>. QED
      BY <3>1, <3>2
  <2>4. CASE handle
    BY <1>1, <2>4 DEF handle, MayDie
  <2>5. CASE entry_load_ds \/ generate_ud
    BY <2>5 DEF entry_load_ds, generate_ud, MayDie
  <2>6. CASE exception
    BY <2>6 DEF exception, MayDie
  <2>7. CASE Compute \/ Syscall \/ entry_swapgs \/ entry_save \/ exit_load_ds
             \/ exit_restore \/ exit_swapgs \/ sysret
    BY <1>1, <2>7 DEF Compute, Syscall, entry_swapgs, entry_save, exit_load_ds,
                      exit_restore, exit_swapgs, sysret, MayDie
  <2>8. CASE UNCHANGED vars
    BY <1>1, <2>8 DEF vars, MayDie
  <2>. QED
    BY <1>1, <2>1, <2>2, <2>3, <2>4, <2>5, <2>6, <2>7, <2>8 DEF Next, SyscallStep
<1>2. IInv /\ [Next]_vars => [pc' = "halted" => MayDie]_vars
  BY <1>1
<1>. QED
  BY Inductive, <1>2, PTL DEF Spec, DiesOnlyInWindow, MayDie

-----------------------------------------------------------------------------
(***************************************************************************)
(* Elf, for every table of headers the format allows, any size of a page and *)
(* any pages that are free.                                                *)
(*                                                                         *)
(* A record of load_info begins where nothing was mapped, and before the end *)
(* of a header that is passed.  The headers are in order, so every record     *)
(* begins behind the ranges of all others, its pages are its own, and so is   *)
(* its pool (RecordsInv).  What is left of a header is counted from its start *)
(* on, all of it when that is in no range (ReadingInv), so that its record    *)
(* has the rest, and keeps it but for what later headers are copied to        *)
(* (PlacedInv).                                                            *)
(***************************************************************************)
(* A record of load_info, elf_loaded_page_t. *)
segment == [loaded_at : Nat, located_at : Nat, length : Nat \ {0}]

(* The header that is being loaded, while one is. *)
Reading == stage \in {"copy", "place"}
Current == pheader - 1

(* The load headers that are done with. *)
Passed == {h \in Loads(file.table) : h < pheader /\ (Reading => h < Current)}

(* h is s from an address on that still has, or just had, bytes in the file.  *)
RestOf(h, s) ==
    /\ s.p_vaddr <= h.p_vaddr
    /\ h.p_vaddr + h.p_filesz = s.p_vaddr + s.p_filesz
    /\ EndOf(h) = EndOf(s)
    /\ h.p_offset + s.p_vaddr = s.p_offset + h.p_vaddr

ReadingInv ==
    Reading =>
      /\ Current \in Loads(file.table)
      /\ header_copy.p_memsz > 0
      /\ header_copy.p_filesz <= header_copy.p_memsz
      /\ RestOf(header_copy, file.table[Current])
      /\ ~Shares(Current) => header_copy.p_vaddr = file.table[Current].p_vaddr
      /\ stage = "place" => ~elf_is_page_mapped(header_copy.p_vaddr)

(* The pool of record i is n pages from page q on, none of them free. *)
PoolIs(i, q, n) ==
    /\ segments[i].located_at = q * PAGING_PAGE_SIZE
    /\ segments[i].length = n * PAGING_PAGE_SIZE
    /\ n > 0 /\ q + n <= MemoryPages
    /\ \A p \in free : p < q \/ q + n <= p

(* The pool of record i ends before that of record j. *)
PoolBefore(i, j) == segments[i].located_at + segments[i].length <= segments[j].located_at

RecordsInv ==
    /\ \A i \in DOMAIN segments :
        /\ \E h \in Passed : segments[i].loaded_at < EndOf(file.table[h])
        /\ \E q, n \in Nat : PoolIs(i, q, n)
    /\ \A i, j \in DOMAIN segments :
        i < j => /\ segments[i].loaded_at + segments[i].length <= segments[j].loaded_at
                 /\ PoolBefore(i, j) \/ PoolBefore(j, i)

(* Where elf.c:31 has copied bytes of header k to. *)
CopiedTo(k) ==
    IF Reading /\ k = Current
    THEN file.table[k].p_vaddr .. header_copy.p_vaddr - 1
    ELSE CopiedAway(file.table[k])

(* A header behind h was copied to the place. *)
CopiedOver(h, place) ==
    \E k \in Loads(file.table) : h < k /\ k < pheader /\ place \in CopiedTo(k)

(* Record i has what is left of header h, or what was copied over it. *)
Holds(i, h) ==
    /\ Offset(segments[i].loaded_at) + (EndOf(file.table[h]) - segments[i].loaded_at)
          <= segments[i].length
    /\ \A a \in segments[i].loaded_at .. EndOf(file.table[h]) - 1 :
         \/ mem[PlaceOf(i, a)] = Byte(file.table[h], a)
         \/ CopiedOver(h, PlaceOf(i, a))

Recorded(h) ==
    file.table[h].p_memsz # 0 /\ ~Shares(h) =>
      \E i \in DOMAIN segments : segments[i].loaded_at = file.table[h].p_vaddr

PlacedInv ==
    \A h \in Passed :
      /\ Recorded(h)
      /\ \A i \in DOMAIN segments : RecordOf(file.table[h], i) => Holds(i, h)

(* The headers are all passed in the end. *)
DoneInv == stage = "done" => pheader = Len(file.table) + 1

LoadInv == LoadTypeOK /\ DoneInv /\ ReadingInv /\ RecordsInv /\ PlacedInv

-----------------------------------------------------------------------------

(* The constants are numbers. *)
LEMMA PageSize == PAGING_PAGE_SIZE \in Nat \ {0} /\ MemoryPages \in Nat
  BY FilesAssumption DEF FilesAssumption


(* An address is so many bytes into a page. *)
LEMMA PageOf ==
    ASSUME NEW a \in Nat
    PROVE  /\ Page(a) \in Nat /\ Offset(a) \in 0 .. PAGING_PAGE_SIZE - 1
           /\ a = Page(a) * PAGING_PAGE_SIZE + Offset(a)
  <1>1. a \div PAGING_PAGE_SIZE \in Nat /\ a % PAGING_PAGE_SIZE \in 0 .. PAGING_PAGE_SIZE - 1
    BY PageSize, SMT
  <1>2. a = (a \div PAGING_PAGE_SIZE) * PAGING_PAGE_SIZE + (a % PAGING_PAGE_SIZE)
    BY PageSize, SMT
  <1> QED BY <1>1, <1>2 DEF Page, Offset

(* Whole pages are a number of bytes. *)
LEMMA Product == ASSUME NEW n \in Nat PROVE n * PAGING_PAGE_SIZE \in Nat
  BY PageSize, SMT

(* More pages are more bytes. *)
LEMMA MorePages ==
    ASSUME NEW p \in Nat, NEW n \in Nat, NEW q \in Nat, p + n <= q
    PROVE  p * PAGING_PAGE_SIZE + n * PAGING_PAGE_SIZE <= q * PAGING_PAGE_SIZE
  <1> DEFINE d == q - (p + n)
  <1>1. d \in Nat /\ q = p + n + d
    OBVIOUS
  <1> HIDE DEF d
  <1>2. q * PAGING_PAGE_SIZE = p * PAGING_PAGE_SIZE + n * PAGING_PAGE_SIZE + d * PAGING_PAGE_SIZE
    BY <1>1, PageSize, SMT
  <1>3. /\ d * PAGING_PAGE_SIZE \in Nat /\ p * PAGING_PAGE_SIZE \in Nat
        /\ n * PAGING_PAGE_SIZE \in Nat /\ q * PAGING_PAGE_SIZE \in Nat
    BY <1>1, Product
  <1> DEFINE a == p * PAGING_PAGE_SIZE
             b == n * PAGING_PAGE_SIZE
             c == q * PAGING_PAGE_SIZE
             e == d * PAGING_PAGE_SIZE
  <1>4. c = a + b + e /\ a \in Nat /\ b \in Nat /\ c \in Nat /\ e \in Nat
    BY <1>2, <1>3
  <1> HIDE DEF a, b, c, e
  <1>5. a + b <= c
    BY <1>4
  <1> QED BY <1>5 DEF a, b, c

(* An address that is n pages behind another is in a page n pages behind. *)
LEMMA PagesBehind ==
    ASSUME NEW a \in Nat, NEW b \in Nat, NEW n \in Nat, a + n * PAGING_PAGE_SIZE <= b
    PROVE  Page(a) + n <= Page(b)
  <1> DEFINE pa == Page(a)
             pb == Page(b)
             x == pa * PAGING_PAGE_SIZE
             y == pb * PAGING_PAGE_SIZE
             z == n * PAGING_PAGE_SIZE
  <1>1. pa \in Nat /\ pb \in Nat /\ x \in Nat /\ y \in Nat /\ z \in Nat
    BY PageOf, Product
  <1>2. x <= a /\ b < y + PAGING_PAGE_SIZE /\ a + z <= b
    <2>1. a = x + Offset(a) /\ b = y + Offset(b)
      BY PageOf
    <2>2. Offset(a) \in 0 .. PAGING_PAGE_SIZE - 1 /\ Offset(b) \in 0 .. PAGING_PAGE_SIZE - 1
      BY PageOf
    <2> HIDE DEF x, y
    <2> QED BY <1>1, <2>1, <2>2, PageSize
  <1>3. ASSUME pb < pa + n PROVE FALSE
    <2>1. y + 1 * PAGING_PAGE_SIZE <= (pa + n) * PAGING_PAGE_SIZE
      BY <1>1, <1>3, MorePages
    <2>2. (pa + n) * PAGING_PAGE_SIZE = x + z
      BY <1>1, PageSize, SMT
    <2> HIDE DEF x, y, z
    <2> QED BY <1>1, <1>2, <2>1, <2>2, PageSize
  <1> QED BY <1>1, <1>3 DEF pa, pb

(* Fewer bytes of whole pages are fewer pages. *)
LEMMA FewerPages ==
    ASSUME NEW m \in Nat, NEW n \in Nat, m * PAGING_PAGE_SIZE < n * PAGING_PAGE_SIZE
    PROVE  m < n
  <1>1. ASSUME n <= m PROVE FALSE
    <2>1. n * PAGING_PAGE_SIZE + 0 * PAGING_PAGE_SIZE <= m * PAGING_PAGE_SIZE
      BY <1>1, MorePages
    <2> QED BY <2>1, Product, PageSize
  <1> QED BY <1>1

(* The pages of a header are enough for its bytes, from where it begins in a page. *)
LEMMA Required ==
    ASSUME NEW h \in elf_program_header_t
    PROVE  /\ required_pages(h) \in Nat
           /\ h.p_memsz > 0 => required_pages(h) > 0
           /\ Offset(h.p_vaddr) + h.p_memsz <= required_pages(h) * PAGING_PAGE_SIZE
  <1> DEFINE m == h.p_memsz
             q == Page(m)
             r == Offset(m)
             o == Offset(h.p_vaddr)
             u == IF r = 0 THEN 0 ELSE 1
             v == IF o # 0 THEN 1 ELSE 0
             P == PAGING_PAGE_SIZE
  <1>1. m \in Nat /\ h.p_vaddr \in Nat
    BY DEF elf_program_header_t
  <1>2. q \in Nat /\ r \in 0 .. P - 1 /\ o \in 0 .. P - 1 /\ m = q * P + r /\ P \in Nat \ {0}
    BY <1>1, PageOf, PageSize
  <1>3. required_pages(h) = q + u + v
    BY DEF required_pages, Page, Offset
  <1> HIDE DEF m, q, r, o
  <1>4. u \in 0 .. 1 /\ v \in 0 .. 1 /\ (r # 0 => u = 1) /\ (o # 0 => v = 1)
    OBVIOUS
  <1> HIDE DEF u, v, P
  <1>5. q + u + v \in Nat
    BY <1>2, <1>4
  <1>6. m > 0 => q + u + v > 0
    <2>1. q = 0 => m = r
      BY <1>2
    <2> QED BY <1>2, <1>4, <2>1
  <1>7. o + m <= (q + u + v) * P
    <2>1. (q + u + v) * P = q * P + u * P + v * P
      BY <1>2, <1>4, SMT
    <2>2. r <= u * P /\ o <= v * P
      <3>1. CASE r = 0 /\ u = 0
        BY <1>2, <1>4, <3>1
      <3> QED BY <1>2, <1>4
    <2> DEFINE a == q * P
               b == u * P
               c == v * P
    <2>3. a \in Int /\ b \in Int /\ c \in Int
      BY <1>2, <1>4
    <2>4. m = a + r /\ r <= b /\ o <= c /\ (q + u + v) * P = a + b + c
      BY <1>2, <2>1, <2>2
    <2> HIDE DEF a, b, c
    <2> QED BY <1>2, <2>3, <2>4
  <1> QED BY <1>3, <1>5, <1>6, <1>7 DEF m, o, P

-----------------------------------------------------------------------------
(* What the format of the file says of a load header. *)
LEMMA Headers ==
    ASSUME file \in Files, NEW i \in Loads(file.table)
    PROVE  /\ file.table \in Seq(elf_program_header_t)
           /\ file.table[i] \in elf_program_header_t
           /\ i \in 1 .. Len(file.table)
           /\ file.table[i].p_filesz <= file.table[i].p_memsz
           /\ EndOf(file.table[i]) <= MemoryPages * PAGING_PAGE_SIZE
           /\ \A j \in Loads(file.table) :
                i < j => EndOf(file.table[i]) <= file.table[j].p_vaddr
  <1>1. file.table \in Seq(elf_program_header_t)
    BY FilesAssumption DEF FilesAssumption
  <1>2. i \in DOMAIN file.table
    BY DEF Loads
  <1>3. i \in 1 .. Len(file.table) /\ file.table[i] \in elf_program_header_t
    BY <1>1, <1>2
  <1>4. /\ file.table[i].p_filesz <= file.table[i].p_memsz
        /\ EndOf(file.table[i]) <= MemoryPages * PAGING_PAGE_SIZE
        /\ \A j \in Loads(file.table) :
             i < j => EndOf(file.table[i]) <= file.table[j].p_vaddr
    BY FilesAssumption DEF FilesAssumption
  <1> QED BY <1>1, <1>3, <1>4

(* The fields of a header are numbers. *)
LEMMA Fields ==
    ASSUME NEW h \in elf_program_header_t
    PROVE  /\ h.p_offset \in Nat /\ h.p_vaddr \in Nat /\ h.p_filesz \in Nat /\ h.p_memsz \in Nat
           /\ EndOf(h) = h.p_vaddr + h.p_memsz
  BY DEF elf_program_header_t, EndOf

(* The fields of a record are numbers. *)
LEMMA Records ==
    ASSUME LoadTypeOK, NEW i \in DOMAIN segments
    PROVE  /\ i \in Nat /\ i \in 1 .. Len(segments)
           /\ segments[i].loaded_at \in Nat /\ segments[i].located_at \in Nat
           /\ segments[i].length \in Nat
  <1>1. segments \in Seq(segment)
    BY DEF LoadTypeOK, segment
  <1>2. i \in 1 .. Len(segments) /\ segments[i] \in segment
    BY <1>1
  <1> QED BY <1>2 DEF segment

(* The records of the headers that are passed begin before the next header.  *)
LEMMA RecordsBefore ==
    ASSUME LoadInv, NEW h \in Loads(file.table), \A k \in Passed : k < h,
           NEW i \in DOMAIN segments
    PROVE  segments[i].loaded_at < file.table[h].p_vaddr
  <1> DEFINE v == file.table[h].p_vaddr
             l == segments[i].loaded_at
  <1>1. PICK k \in Passed : l < EndOf(file.table[k])
    BY DEF LoadInv, RecordsInv
  <1>2. k \in Loads(file.table) /\ k < h /\ file \in Files
    BY DEF Passed, LoadInv, LoadTypeOK
  <1>3. EndOf(file.table[k]) <= v
    BY <1>2, Headers
  <1>4. file.table[k] \in elf_program_header_t /\ file.table[h] \in elf_program_header_t
    BY <1>2, Headers
  <1>5. EndOf(file.table[k]) \in Nat /\ v \in Nat
    BY <1>4, Fields
  <1>6. l \in Nat
    BY Records DEF LoadInv
  <1> HIDE DEF v, l
  <1>7. l < v
    BY <1>1, <1>3, <1>5, <1>6
  <1> QED BY <1>7 DEF v, l

(* A segment that shares no record's range begins in none.                 *)
LEMMA NotMapped ==
    ASSUME LoadInv, NEW h \in Loads(file.table), \A k \in Passed : k < h,
           ~Shares(h)
    PROVE  ~elf_is_page_mapped(file.table[h].p_vaddr)
  <1> SUFFICES ASSUME NEW i \in DOMAIN segments,
                      segments[i].loaded_at + segments[i].length > file.table[h].p_vaddr
               PROVE  FALSE
    BY DEF elf_is_page_mapped
  <1>1. segments[i].loaded_at < file.table[h].p_vaddr
    BY RecordsBefore
  <1>2. file.table[h].p_vaddr \in Nat
    BY Headers, Fields DEF LoadInv, LoadTypeOK
  <1>3. segments[i].loaded_at \in Nat /\ segments[i].length \in Nat
    BY Records DEF LoadInv
  <1>4. file.table[h].p_vaddr < segments[i].loaded_at + segments[i].length
    BY <1>2, <1>3
  <1> QED BY <1>1, <1>4 DEF Shares

(* Where the segment that is next to be placed goes: behind every record. *)
LEMMA BehindAll ==
    ASSUME LoadInv, stage = "place", NEW i \in DOMAIN segments
    PROVE  segments[i].loaded_at + segments[i].length <= header_copy.p_vaddr
  <1> DEFINE v == header_copy.p_vaddr
             s == file.table[Current]
             l == segments[i].loaded_at
             n == segments[i].length
  <1>1. ReadingInv /\ LoadTypeOK /\ file \in Files /\ header_copy \in elf_program_header_t
    BY DEF LoadInv, LoadTypeOK
  <1>2. Current \in Loads(file.table) /\ s.p_vaddr <= v /\ ~elf_is_page_mapped(v)
    BY <1>1 DEF ReadingInv, Reading, RestOf
  <1>3. l < s.p_vaddr
    BY <1>2, RecordsBefore DEF Passed, Reading
  <1>4. s.p_vaddr \in Nat /\ v \in Nat /\ l \in Nat /\ n \in Nat
    BY <1>1, <1>2, Headers, Fields, Records
  <1>5. ~(l <= v /\ l + n > v)
    BY <1>2 DEF elf_is_page_mapped
  <1> HIDE DEF v, s, l, n
  <1>6. l + n <= v
    BY <1>2, <1>3, <1>4, <1>5
  <1> QED BY <1>6 DEF v, l, n

(* Where a record has what the program finds at an address is in its pool.    *)
LEMMA InPool ==
    ASSUME LoadInv, NEW i \in DOMAIN segments, NEW a \in Nat,
           segments[i].loaded_at <= a,
           Offset(segments[i].loaded_at) + (a - segments[i].loaded_at) < segments[i].length
    PROVE  /\ PlaceOf(i, a) \in Nat /\ PlaceOf(i, a) \in Places
           /\ segments[i].located_at <= PlaceOf(i, a)
           /\ PlaceOf(i, a) < segments[i].located_at + segments[i].length
  <1> DEFINE l == segments[i].loaded_at
             p == segments[i].located_at
             z == segments[i].length
             o == Offset(l)
             b == p + o + (a - l)
             m == MemoryPages * PAGING_PAGE_SIZE
  <1>1. l \in Nat /\ p \in Nat /\ z \in Nat
    BY Records DEF LoadInv
  <1>2. o \in Nat
    <2>1. o \in 0 .. PAGING_PAGE_SIZE - 1
      BY <1>1, PageOf
    <2> QED BY <2>1, PageSize
  <1>3. PICK q, n \in Nat : PoolIs(i, q, n)
    BY DEF LoadInv, RecordsInv
  <1>4. p + z <= m
    BY <1>3, MorePages, PageSize DEF PoolIs
  <1>5. m \in Nat /\ Places = 0 .. m - 1
    BY PageSize, Product DEF Places
  <1>6. l <= a /\ o + (a - l) < z
    OBVIOUS
  <1> HIDE DEF l, p, z, o, m
  <1>7. b \in Nat /\ p <= b /\ b < p + z /\ b \in Places
    BY <1>1, <1>2, <1>4, <1>5, <1>6
  <1>8. PlaceOf(i, a) = b
    BY DEF PlaceOf, l, p, o
  <1> QED BY <1>7, <1>8 DEF p, z

(* What Written leaves in memory. *)
LEMMA WrittenIs ==
    ASSUME NEW memory \in [Places -> Nat \cup {Old}],
           NEW place \in Nat, NEW offset \in Nat, NEW size \in Nat
    PROVE  /\ Written(memory, place, offset, size) \in [Places -> Nat \cup {Old}]
           /\ \A a \in Places :
                Written(memory, place, offset, size)[a] =
                  IF a \in place .. place + size - 1 THEN offset + (a - place) + 1 ELSE memory[a]
  <1>1. DOMAIN memory = Places
    OBVIOUS
  <1>2. \A a \in Places :
          a \in place .. place + size - 1 => offset + (a - place) + 1 \in Nat
    OBVIOUS
  <1>3. \A a \in Places : memory[a] \in Nat \cup {Old}
    OBVIOUS
  <1> QED BY <1>1, <1>2, <1>3 DEF Written

(* What Zeroed leaves in memory. *)
LEMMA ZeroedIs ==
    ASSUME NEW memory \in [Places -> Nat \cup {Old}], NEW place \in Nat, NEW size \in Nat
    PROVE  /\ Zeroed(memory, place, size) \in [Places -> Nat \cup {Old}]
           /\ \A a \in Places :
                Zeroed(memory, place, size)[a] =
                  IF a \in place .. place + size - 1 THEN 0 ELSE memory[a]
  <1>1. DOMAIN memory = Places
    OBVIOUS
  <1>2. \A a \in Places : memory[a] \in Nat \cup {Old}
    OBVIOUS
  <1> QED BY <1>1, <1>2 DEF Zeroed

(* A header that is counted down is still the rest of what it was. *)
LEMMA Less ==
    ASSUME header_copy \in elf_program_header_t,
           header_copy.p_filesz <= header_copy.p_memsz,
           NEW s \in elf_program_header_t, RestOf(header_copy, s)
    PROVE  /\ next_page_offset \in Nat
           /\ next_page_offset <= header_copy.p_filesz
           /\ header_less(next_page_offset) \in elf_program_header_t
           /\ header_less(next_page_offset).p_vaddr = header_copy.p_vaddr + next_page_offset
           /\ header_less(next_page_offset).p_filesz <= header_less(next_page_offset).p_memsz
           /\ RestOf(header_less(next_page_offset), s)
  <1> DEFINE h == header_copy
             n == next_page_offset
             g == header_less(n)
  <1>1. h.type \in Nat /\ h.p_offset \in Nat /\ h.p_vaddr \in Nat /\ h.p_filesz \in Nat /\ h.p_memsz \in Nat
    BY DEF elf_program_header_t
  <1>2. n \in Nat /\ n <= h.p_filesz
    <2>1. Offset(h.p_vaddr) \in 0 .. PAGING_PAGE_SIZE - 1
      BY <1>1, PageOf
    <2>2. PAGING_PAGE_SIZE - Offset(h.p_vaddr) \in Nat
      BY <2>1, PageSize
    <2> QED BY <1>1, <2>2 DEF next_page_offset, Smaller
  <1> HIDE DEF n
  <1>3. /\ g.type = h.type /\ g.p_offset = h.p_offset + n /\ g.p_vaddr = h.p_vaddr + n
        /\ g.p_filesz = h.p_filesz - n /\ g.p_memsz = h.p_memsz - n
        /\ g = [type |-> g.type, p_offset |-> g.p_offset, p_vaddr |-> g.p_vaddr,
                p_filesz |-> g.p_filesz, p_memsz |-> g.p_memsz]
    BY DEF header_less
  <1>4. /\ s.p_vaddr <= h.p_vaddr
        /\ h.p_vaddr + h.p_filesz = s.p_vaddr + s.p_filesz
        /\ h.p_vaddr + h.p_memsz = s.p_vaddr + s.p_memsz
        /\ h.p_offset + s.p_vaddr = s.p_offset + h.p_vaddr
    BY DEF RestOf, EndOf
  <1>5. s.p_offset \in Nat /\ s.p_vaddr \in Nat /\ s.p_filesz \in Nat /\ s.p_memsz \in Nat
    BY Fields
  <1> HIDE DEF g, h
  <1>6. h.p_filesz <= h.p_memsz
    BY DEF h
  <1>7. /\ g.type \in Nat /\ g.p_offset \in Nat /\ g.p_vaddr \in Nat
        /\ g.p_filesz \in Nat /\ g.p_memsz \in Nat
    BY <1>1, <1>2, <1>3, <1>6
  <1>8. g \in elf_program_header_t
    <2>1. [type |-> g.type, p_offset |-> g.p_offset, p_vaddr |-> g.p_vaddr,
           p_filesz |-> g.p_filesz, p_memsz |-> g.p_memsz] \in elf_program_header_t
      BY <1>7 DEF elf_program_header_t
    <2> QED BY <1>3, <2>1
  <1>9. g.p_filesz <= g.p_memsz
    BY <1>1, <1>2, <1>3, <1>6
  <1>10. RestOf(g, s)
    BY <1>1, <1>2, <1>3, <1>4, <1>5 DEF RestOf, EndOf
  <1> QED BY <1>2, <1>3, <1>8, <1>9, <1>10 DEF g, n, h

(* What a record holds stays, when memory changes only outside its pool and    *)
(* where a later header is copied to.                                       *)
LEMMA StaysHeld ==
    ASSUME LoadInv, NEW h \in Passed, NEW i \in DOMAIN segments, Holds(i, h),
           file' = file, segments'[i] = segments[i],
           \A a \in Nat : CopiedOver(h, a) => CopiedOver(h, a)',
           \A a \in Places :
             segments[i].located_at <= a /\ a < segments[i].located_at + segments[i].length
                => mem'[a] = mem[a] \/ CopiedOver(h, a)'
    PROVE  Holds(i, h)'
  <1> DEFINE l == segments[i].loaded_at
             s == file.table[h]
             e == EndOf(s)
             z == segments[i].length
  <1>1. l \in Nat /\ z \in Nat /\ e \in Nat
    <2>1. s \in elf_program_header_t
      BY Headers DEF LoadInv, LoadTypeOK, Passed
    <2> QED BY <2>1, Fields, Records DEF LoadInv
  <1>2. Offset(l) + (e - l) <= z
    BY DEF Holds
  <1>3. Offset(l) \in Nat
    <2>1. Offset(l) \in 0 .. PAGING_PAGE_SIZE - 1
      BY <1>1, PageOf
    <2> QED BY <2>1, PageSize
  <1>4. ASSUME NEW a \in l .. e - 1
        PROVE  (mem[PlaceOf(i, a)] = Byte(s, a) \/ CopiedOver(h, PlaceOf(i, a)))'
    <2>1. a \in Nat /\ l <= a /\ Offset(l) + (a - l) < z
      <3> HIDE DEF l, e, z
      <3> QED BY <1>1, <1>2, <1>3
    <2>2. PICK p \in Places : p = PlaceOf(i, a)
      BY <2>1, InPool
    <2>3. /\ p \in Nat
          /\ segments[i].located_at <= p
          /\ p < segments[i].located_at + segments[i].length
      BY <2>1, <2>2, InPool
    <2>4. mem[p] = Byte(s, a) \/ CopiedOver(h, p)
      BY <2>2 DEF Holds
    <2>5. mem'[p] = mem[p] \/ CopiedOver(h, p)'
      BY <2>3
    <2>6. mem'[p] = Byte(s, a) \/ CopiedOver(h, p)'
      BY <2>3, <2>4, <2>5
    <2>7. PlaceOf(i, a)' = p /\ Byte(s, a)' = Byte(s, a)
      BY <2>2 DEF PlaceOf, Byte
    <2> QED BY <2>6, <2>7 DEF CopiedOver
  <1>5. l' = l /\ e' = e /\ z' = z /\ Offset(l)' = Offset(l)
    BY DEF EndOf
  <1> QED BY <1>2, <1>4, <1>5 DEF Holds

(* A header that has its record keeps it. *)
LEMMA StaysRecorded ==
    ASSUME NEW h, Recorded(h), file' = file,
           \A i \in DOMAIN segments : i \in DOMAIN segments' /\ segments'[i] = segments[i]
    PROVE  Recorded(h)'
  <1>1. Shares(h) => Shares(h)'
    BY DEF Shares
  <1> QED BY <1>1 DEF Recorded

(* The records, with the name of their type. *)
LEMMA IsSegments == ASSUME LoadTypeOK PROVE segments \in Seq(segment)
  BY DEF LoadTypeOK, segment

-----------------------------------------------------------------------------
(* The steps. *)

(* The invariant holds at first. *)
LEMMA InvAtInit == LoadInit => LoadInv
  <1> SUFFICES ASSUME LoadInit PROVE LoadInv
    OBVIOUS
  <1> USE DEF LoadInit
  <1>1. LoadTypeOK
    <2>1. file.table \in Seq(elf_program_header_t)
      BY FilesAssumption DEF FilesAssumption
    <2>2. pheader \in 1 .. Len(file.table) + 1
      BY <2>1
    <2>3. header_copy \in elf_program_header_t
      BY DEF NoHeader, elf_program_header_t
    <2>4. segments \in Seq([loaded_at : Nat, located_at : Nat, length : Nat \ {0}])
      OBVIOUS
    <2>5. free \subseteq 0 .. MemoryPages - 1
      BY FilesAssumption DEF FilesAssumption
    <2>6. mem \in [Places -> Nat \cup {Old}]
      OBVIOUS
    <2> QED BY <2>2, <2>3, <2>4, <2>5, <2>6 DEF LoadTypeOK
  <1>2. ReadingInv
    BY DEF ReadingInv, Reading
  <1>3. DOMAIN segments = {}
    OBVIOUS
  <1>4. RecordsInv
    BY <1>3 DEF RecordsInv
  <1>5. Passed = {}
    <2>1. \A h \in Loads(file.table) : h \in 1 .. Len(file.table)
      BY Headers
    <2> QED BY <2>1 DEF Passed
  <1>6. PlacedInv
    BY <1>5 DEF PlacedInv
  <1> QED BY <1>1, <1>2, <1>4, <1>6 DEF LoadInv, DoneInv

(* What the invariant says stays when only the step changes, and no header is  *)
(* begun or ended.                                                         *)
LEMMA Quiet ==
    ASSUME LoadInv, UNCHANGED <<file, pheader, header_copy, segments, free, mem>>,
           stage' \in {"check", "next", "copy", "place", "refused", "done"},
           Reading' = Reading,
           stage' = "place" => ~elf_is_page_mapped(header_copy.p_vaddr),
           stage' = "done" => pheader = Len(file.table) + 1
    PROVE  LoadInv'
  <1>1. LoadTypeOK'
    BY DEF LoadInv, LoadTypeOK
  <1>2. ReadingInv'
    BY DEF LoadInv, ReadingInv, Current, Shares, elf_is_page_mapped, RestOf, EndOf
  <1>3. Passed' = Passed
    BY DEF Passed, Current
  <1>4. RecordsInv'
    BY <1>3 DEF LoadInv, RecordsInv, PoolIs, PoolBefore
  <1>5. \A k : CopiedTo(k)' = CopiedTo(k)
    BY DEF CopiedTo, CopiedAway, Current, RecordOf, EndOf
  <1>6. PlacedInv'
    <2> SUFFICES ASSUME NEW h \in Passed
                 PROVE  /\ Recorded(h)'
                        /\ \A i \in DOMAIN segments : RecordOf(file.table[h], i) => Holds(i, h)'
      BY <1>3 DEF PlacedInv, RecordOf, EndOf
    <2>1. Recorded(h) /\ \A i \in DOMAIN segments : RecordOf(file.table[h], i) => Holds(i, h)
      BY DEF LoadInv, PlacedInv
    <2>2. Recorded(h)'
      BY <2>1, StaysRecorded
    <2>3. ASSUME NEW a \in Nat, CopiedOver(h, a) PROVE CopiedOver(h, a)'
      BY <1>5, <2>3 DEF CopiedOver
    <2>4. ASSUME NEW i \in DOMAIN segments, RecordOf(file.table[h], i) PROVE Holds(i, h)'
      BY <2>1, <2>3, <2>4, StaysHeld
    <2> QED BY <2>2, <2>4
  <1> QED BY <1>1, <1>2, <1>4, <1>6 DEF LoadInv, DoneInv

(* The next header is taken: one that is not loaded is passed. *)
LEMMA NextHeaderStep ==
    ASSUME LoadInv, next_header
    PROVE  LoadInv'
  <1> DEFINE h == file.table[pheader]
             t == file.table
  <1> USE DEF next_header
  <1>1. LoadTypeOK /\ ReadingInv /\ RecordsInv /\ PlacedInv /\ file \in Files
    BY DEF LoadInv, LoadTypeOK
  <1>2. t \in Seq(elf_program_header_t) /\ pheader \in 1 .. Len(t)
    <2>1. t \in Seq(elf_program_header_t)
      BY <1>1, FilesAssumption DEF FilesAssumption
    <2>2. pheader \in 1 .. Len(t) + 1 /\ pheader <= Len(t)
      BY <1>1 DEF LoadTypeOK
    <2> QED BY <2>1, <2>2
  <1>3. h \in elf_program_header_t
    BY <1>2
  <1>4. pheader' = pheader + 1 /\ pheader' \in 1 .. Len(t) + 1 /\ Current' = pheader
    BY <1>2 DEF Current
  <1>5. ~Reading
    BY DEF Reading
  <1>6. Passed = {k \in Loads(t) : k < pheader}
    BY <1>5 DEF Passed
  <1>7. \A k \in Loads(t) : k \in Nat
    BY <1>1, Headers
  <1>10. ASSUME NEW k \in Passed
         PROVE  /\ Recorded(k)'
                /\ \A i \in DOMAIN segments : RecordOf(t[k], i) => Holds(i, k)'
    <2>1. Recorded(k) /\ \A i \in DOMAIN segments : RecordOf(t[k], i) => Holds(i, k)
      BY <1>1 DEF PlacedInv
    <2>2. Recorded(k)'
      BY <2>1, StaysRecorded
    <2>3. ASSUME NEW a \in Nat, CopiedOver(k, a) PROVE CopiedOver(k, a)'
      <3>1. PICK j \in Loads(t) : k < j /\ j < pheader /\ a \in CopiedTo(j)
        BY <2>3 DEF CopiedOver
      <3>2. j < pheader' /\ j # Current'
        BY <1>2, <1>4, <1>7, <3>1
      <3>3. a \in CopiedTo(j)'
        BY <1>5, <3>1, <3>2 DEF CopiedTo, CopiedAway, RecordOf, EndOf
      <3> QED BY <3>1, <3>2, <3>3 DEF CopiedOver
    <2>4. ASSUME NEW i \in DOMAIN segments, RecordOf(t[k], i) PROVE Holds(i, k)'
      BY <2>1, <2>3, <2>4, StaysHeld
    <2> QED BY <2>2, <2>4
  <1>8. CASE h.type = ELF_SEGMENT_LOAD /\ h.p_memsz # 0
    <2>1. stage' = "copy" /\ header_copy' = h
      BY <1>8
    <2>2. LoadTypeOK'
      BY <1>1, <1>3, <1>4, <2>1 DEF LoadTypeOK
    <2>3. pheader \in Loads(t)
      BY <1>2, <1>8 DEF Loads
    <2>4. ReadingInv'
      <3>1. h.p_memsz > 0 /\ h.p_vaddr <= h.p_vaddr
        BY <1>3, <1>8, Fields
      <3>2. h.p_filesz <= h.p_memsz
        BY <1>1, <2>3, Headers
      <3>3. RestOf(h, h)
        BY <3>1 DEF RestOf
      <3>4. file' = file /\ stage' # "place" /\ Current' = pheader
        BY <1>4, <2>1
      <3> HIDE DEF h
      <3>5. RestOf(header_copy, file.table[Current])' /\ header_copy'.p_vaddr = h.p_vaddr
        BY <2>1, <3>3, <3>4 DEF h, RestOf, EndOf
      <3> QED BY <2>1, <2>3, <3>1, <3>2, <3>4, <3>5 DEF ReadingInv, h
    <2>5. Passed' = Passed
      <3>1. Passed' = {k \in Loads(t) : k < pheader + 1 /\ k < pheader}
        BY <1>4, <2>1 DEF Passed, Reading
      <3> QED BY <1>2, <1>6, <1>7, <3>1
    <2>6. RecordsInv'
      BY <1>1, <2>5 DEF RecordsInv, PoolIs, PoolBefore
    <2>7. PlacedInv'
      <3> SUFFICES ASSUME NEW k \in Passed
                   PROVE  /\ Recorded(k)'
                          /\ \A i \in DOMAIN segments : RecordOf(t[k], i) => Holds(i, k)'
        BY <2>5 DEF PlacedInv, RecordOf, EndOf
      <3> QED BY <1>10
    <2> QED BY <2>1, <2>2, <2>4, <2>6, <2>7 DEF LoadInv, DoneInv
  <1>9. CASE ~(h.type = ELF_SEGMENT_LOAD /\ h.p_memsz # 0)
    <2>1. stage' = stage /\ header_copy' = header_copy
      BY <1>9
    <2>2. LoadTypeOK'
      BY <1>1, <1>4, <2>1 DEF LoadTypeOK
    <2>3. ReadingInv'
      BY <2>1 DEF ReadingInv, Reading
    <2>4. Passed' = {k \in Loads(t) : k < pheader + 1}
      BY <2>1 DEF Passed, Reading
    <2>5. Passed \subseteq Passed' /\ \A k \in Passed' : k \in Passed \/ k = pheader
      BY <1>2, <1>6, <1>7, <2>4
    <2>6. pheader \in Passed' => h.p_memsz = 0
      BY <1>9, <2>4 DEF Loads
    <2>7. RecordsInv'
      BY <1>1, <2>5 DEF RecordsInv, PoolIs, PoolBefore
    <2>8. PlacedInv'
      <3> SUFFICES ASSUME NEW k \in Passed'
                   PROVE  /\ Recorded(k)'
                          /\ \A i \in DOMAIN segments : RecordOf(t[k], i) => Holds(i, k)'
        BY DEF PlacedInv, RecordOf, EndOf
      <3>1. CASE k \in Passed
        BY <1>10, <3>1
      <3>2. CASE k = pheader
        <4>1. h.p_memsz = 0 /\ t[k] = h
          BY <2>6, <3>2
        <4>2. Recorded(k)'
          BY <4>1 DEF Recorded
        <4>3. ASSUME NEW i \in DOMAIN segments, RecordOf(t[k], i) PROVE FALSE
          <5>1. h.p_vaddr <= segments[i].loaded_at /\ segments[i].loaded_at < h.p_vaddr + 0
            BY <4>1, <4>3 DEF RecordOf, EndOf
          <5>2. h.p_vaddr \in Nat /\ segments[i].loaded_at \in Nat
            BY <1>1, <1>3, Fields, Records
          <5> HIDE DEF h
          <5> QED BY <5>1, <5>2
        <4> QED BY <4>2, <4>3
      <3> QED BY <2>5, <3>1, <3>2
    <2> QED BY <2>1, <2>2, <2>3, <2>7, <2>8 DEF LoadInv, DoneInv
  <1> QED BY <1>8, <1>9

(* A segment that is copied into mapped pages begins in a record's range. *)
LEMMA CopyStep ==
    ASSUME LoadInv, copy_into_mapped
    PROVE  LoadInv'
  <1> DEFINE t == file.table
             n == next_page_offset
             g == header_less(n)
  <1>1. /\ stage = "copy" /\ elf_is_page_mapped(header_copy.p_vaddr)
        /\ mem' = Written(mem, header_copy.p_vaddr, header_copy.p_offset, n)
        /\ header_copy' = g
        /\ stage' = IF header_copy'.p_memsz = 0 THEN "next" ELSE "copy"
        /\ UNCHANGED <<file, pheader, segments, free>>
    BY DEF copy_into_mapped
  <1>2. /\ LoadTypeOK /\ ReadingInv /\ RecordsInv /\ PlacedInv /\ Reading
        /\ file \in Files /\ header_copy \in elf_program_header_t
    BY <1>1 DEF LoadInv, LoadTypeOK, Reading
  <1>3. PICK c \in Loads(t) : c = Current
    BY <1>2 DEF ReadingInv
  <1>4. PICK s \in elf_program_header_t : s = t[c]
    BY <1>2, Headers
  <1>5. /\ header_copy.p_memsz > 0 /\ header_copy.p_filesz <= header_copy.p_memsz
        /\ RestOf(header_copy, s) /\ (~Shares(c) => header_copy.p_vaddr = s.p_vaddr)
    BY <1>2, <1>3, <1>4 DEF ReadingInv
  <1>6. /\ n \in Nat /\ g \in elf_program_header_t
        /\ g.p_vaddr = header_copy.p_vaddr + n
        /\ g.p_filesz <= g.p_memsz /\ RestOf(g, s)
    BY <1>2, <1>5, Less
  <1> HIDE DEF n
  <1>7. PICK v, e \in Nat : v = header_copy.p_vaddr /\ e = g.p_vaddr
    BY <1>2, <1>6, Fields
  <1>8. s.p_vaddr \in Nat /\ s.p_filesz \in Nat /\ s.p_vaddr <= v /\ e = v + n
    BY <1>5, <1>6, <1>7, Fields DEF RestOf
  <1>9. \A k \in Passed : k < c
    BY <1>2, <1>3 DEF Passed
  <1>10. \A i \in DOMAIN segments :
           segments[i].loaded_at < s.p_vaddr /\ ~RecordOf(s, i)
    <2> SUFFICES ASSUME NEW i \in DOMAIN segments
                 PROVE  segments[i].loaded_at < s.p_vaddr /\ ~RecordOf(s, i)
      OBVIOUS
    <2>1. segments[i].loaded_at < s.p_vaddr
      BY <1>4, <1>9, RecordsBefore
    <2>2. segments[i].loaded_at \in Nat
      BY <1>2, Records
    <2>3. ~(s.p_vaddr <= segments[i].loaded_at)
      BY <1>8, <2>1, <2>2
    <2> QED BY <2>1, <2>3 DEF RecordOf
  <1>11. Shares(c)
    <2>1. ASSUME ~Shares(c) PROVE FALSE
      <3>1. ~elf_is_page_mapped(t[c].p_vaddr)
        BY <1>9, <2>1, NotMapped
      <3> QED BY <1>1, <1>4, <1>5, <2>1, <3>1
    <2> QED BY <2>1
  <1>12. c \in Nat /\ pheader \in Nat /\ c = pheader - 1 /\ c < pheader
    BY <1>2, <1>3, Headers DEF LoadTypeOK, Current
  <1>13. Current' = c /\ file' = file
    BY <1>1, <1>3 DEF Current
  <1>14. g.p_memsz = 0 => e = s.p_vaddr + s.p_filesz
    <2>1. g.p_filesz \in Nat /\ g.p_memsz \in Nat
      BY <1>6, Fields
    <2>2. g.p_vaddr + g.p_filesz = s.p_vaddr + s.p_filesz
      BY <1>6 DEF RestOf
    <2> HIDE DEF g
    <2> QED BY <1>6, <1>7, <1>8, <2>1, <2>2
  <1> HIDE DEF g
  <1>15. CopiedTo(c)' = s.p_vaddr .. e - 1
    <2>1. CASE g.p_memsz # 0
      <3>1. Reading' /\ header_copy'.p_vaddr = e /\ file'.table[c].p_vaddr = s.p_vaddr
        BY <1>1, <1>4, <1>7, <2>1 DEF Reading
      <3> QED BY <1>13, <3>1 DEF CopiedTo
    <2>2. CASE g.p_memsz = 0
      <3>1. ~Reading'
        BY <1>1, <2>2 DEF Reading
      <3>2. CopiedTo(c)' = CopiedAway(s)
        BY <1>1, <1>4, <1>13, <3>1 DEF CopiedTo, CopiedAway, RecordOf, EndOf
      <3>3. CopiedAway(s) = s.p_vaddr .. s.p_vaddr + s.p_filesz - 1
        BY <1>10 DEF CopiedAway
      <3>4. e = s.p_vaddr + s.p_filesz
        BY <1>14, <2>2
      <3> QED BY <3>2, <3>3, <3>4, <1>8
    <2> QED BY <2>1, <2>2
  <1>16. CopiedTo(c) = s.p_vaddr .. v - 1
    BY <1>2, <1>3, <1>4, <1>7 DEF CopiedTo
  <1>17. \A k \in Loads(t) : k # c => CopiedTo(k)' = CopiedTo(k)
    <2> SUFFICES ASSUME NEW k \in Loads(t), k # c PROVE CopiedTo(k)' = CopiedTo(k)
      OBVIOUS
    <2>1. CopiedTo(k) = CopiedAway(t[k])
      BY <1>3 DEF CopiedTo
    <2>2. CopiedTo(k)' = CopiedAway(t[k])'
      BY <1>13 DEF CopiedTo
    <2>3. CopiedAway(t[k])' = CopiedAway(t[k])
      BY <1>1 DEF CopiedAway, RecordOf, EndOf
    <2> QED BY <2>1, <2>2, <2>3
  <1>18. mem \in [Places -> Nat \cup {Old}] /\ header_copy.p_offset \in Nat
    BY <1>2, Fields DEF LoadTypeOK
  <1>19. /\ mem' \in [Places -> Nat \cup {Old}]
         /\ \A a \in Places : ~(a \in v .. v + n - 1) => mem'[a] = mem[a]
    <2> DEFINE offset == header_copy.p_offset
               place == Written(mem, v, offset, n)
    <2>1. offset \in Nat /\ mem' = place
      BY <1>1, <1>7, <1>18
    <2> HIDE DEF offset
    <2>2. /\ place \in [Places -> Nat \cup {Old}]
          /\ \A a \in Places :
               place[a] = IF a \in v .. v + n - 1 THEN offset + (a - v) + 1 ELSE mem[a]
      BY <1>6, <1>18, <2>1, WrittenIs
    <2> HIDE DEF place
    <2> QED BY <2>1, <2>2
  <1>20. LoadTypeOK'
    <2>1. stage' \in {"check", "next", "copy", "place", "refused", "done"}
      BY <1>1
    <2> QED BY <1>1, <1>2, <1>6, <1>19, <2>1 DEF LoadTypeOK
  <1>21. ReadingInv'
    <2> SUFFICES ASSUME Reading' PROVE ReadingInv'
      BY DEF ReadingInv
    <2>1. stage' = "copy" /\ g.p_memsz # 0
      BY <1>1 DEF Reading
    <2>2. g.p_memsz > 0
      BY <1>6, <2>1, Fields
    <2>3. Shares(c)'
      BY <1>1, <1>11 DEF Shares
    <2>4. RestOf(header_copy, file.table[Current])'
      BY <1>1, <1>4, <1>6, <1>13 DEF RestOf, EndOf
    <2>5. (~Shares(Current) => header_copy.p_vaddr = file.table[Current].p_vaddr)'
      BY <1>13, <2>3 DEF Shares
    <2>6. Current' \in Loads(file'.table)
      BY <1>13
    <2>7. header_copy'.p_memsz > 0 /\ header_copy'.p_filesz <= header_copy'.p_memsz
      BY <1>1, <1>6, <2>2
    <2> QED BY <2>1, <2>4, <2>5, <2>6, <2>7 DEF ReadingInv
  <1>22. Passed \subseteq Passed' /\ \A k \in Passed' : k \in Passed \/ k = c
    <2>1. Passed = {k \in Loads(t) : k < pheader /\ k < c}
      BY <1>2, <1>3 DEF Passed
    <2>2. Passed' \in {{k \in Loads(t) : k < pheader /\ k < c}, {k \in Loads(t) : k < pheader}}
      BY <1>1, <1>13 DEF Passed, Reading
    <2>3. \A k \in Loads(t) : k \in Nat
      BY <1>2, Headers
    <2> QED BY <1>12, <2>1, <2>2, <2>3
  <1>23. RecordsInv'
    BY <1>1, <1>2, <1>22 DEF RecordsInv, PoolIs, PoolBefore
  <1>24. ASSUME NEW k \in Passed
         PROVE  /\ Recorded(k)'
                /\ \A i \in DOMAIN segments : RecordOf(t[k], i) => Holds(i, k)'
    <2>1. Recorded(k) /\ \A i \in DOMAIN segments : RecordOf(t[k], i) => Holds(i, k)
      BY <1>2 DEF PlacedInv
    <2>2. Recorded(k)'
      BY <1>1, <2>1, StaysRecorded
    <2>3. ASSUME NEW a \in Nat, a \in s.p_vaddr .. e - 1 PROVE CopiedOver(k, a)'
      BY <1>1, <1>9, <1>12, <1>15, <2>3 DEF CopiedOver
    <2>4. ASSUME NEW a \in Nat, CopiedOver(k, a) PROVE CopiedOver(k, a)'
      <3>1. PICK j \in Loads(t) : k < j /\ j < pheader /\ a \in CopiedTo(j)
        BY <2>4 DEF CopiedOver
      <3>2. CASE j = c
        <4>1. a \in s.p_vaddr .. e - 1
          BY <1>6, <1>8, <1>16, <3>1, <3>2
        <4> QED BY <2>3, <4>1
      <3>3. CASE j # c
        BY <1>1, <1>17, <3>1, <3>3 DEF CopiedOver
      <3> QED BY <3>2, <3>3
    <2>5. ASSUME NEW a \in Places PROVE mem'[a] = mem[a] \/ CopiedOver(k, a)'
      <3>1. CASE a \in v .. v + n - 1
        <4>1. a \in Nat /\ a \in s.p_vaddr .. e - 1
          BY <1>6, <1>8, <3>1
        <4> QED BY <2>3, <4>1
      <3>2. CASE ~(a \in v .. v + n - 1)
        BY <1>19, <3>2
      <3> QED BY <3>1, <3>2
    <2>6. ASSUME NEW i \in DOMAIN segments, RecordOf(t[k], i) PROVE Holds(i, k)'
      <3>1. Holds(i, k) /\ segments'[i] = segments[i] /\ file' = file
        BY <1>1, <2>1, <2>6
      <3> QED BY <2>4, <2>5, <3>1, StaysHeld
    <2> QED BY <2>2, <2>6
  <1>25. PlacedInv'
    <2> SUFFICES ASSUME NEW k \in Passed'
                 PROVE  /\ Recorded(k)'
                        /\ \A i \in DOMAIN segments : RecordOf(t[k], i) => Holds(i, k)'
      BY <1>1 DEF PlacedInv, RecordOf, EndOf
    <2>1. CASE k \in Passed
      BY <1>24, <2>1
    <2>2. CASE k = c
      <3>1. Shares(c)'
        BY <1>1, <1>11 DEF Shares
      <3>2. Recorded(k)'
        BY <2>2, <3>1 DEF Recorded
      <3> QED BY <1>4, <1>10, <2>2, <3>2
    <2> QED BY <1>22, <2>1, <2>2
  <1>26. stage' # "done"
    BY <1>1
  <1> QED BY <1>20, <1>21, <1>23, <1>25, <1>26 DEF LoadInv, DoneInv

(* A segment that is placed has a pool that no other record has. *)
LEMMA PlaceStep ==
    ASSUME LoadInv, place_segment
    PROVE  LoadInv'
  <1> DEFINE t == file.table
             P == PAGING_PAGE_SIZE
  <1>1. /\ stage = "place" /\ stage' = "next" /\ Reading /\ ~Reading'
        /\ UNCHANGED <<file, pheader, header_copy>>
    BY DEF place_segment, Reading
  <1>2. /\ LoadTypeOK /\ ReadingInv /\ RecordsInv /\ PlacedInv
        /\ file \in Files /\ header_copy \in elf_program_header_t
    BY DEF LoadInv, LoadTypeOK
  <1>3. PICK h \in elf_program_header_t : h = header_copy
    BY <1>2
  <1>4. PICK c \in Loads(t) : c = Current
    BY <1>1, <1>2 DEF ReadingInv
  <1>5. PICK s \in elf_program_header_t : s = t[c]
    BY <1>2, Headers
  <1>6. /\ h.p_memsz > 0 /\ h.p_filesz <= h.p_memsz
        /\ RestOf(h, s) /\ (~Shares(c) => h.p_vaddr = s.p_vaddr)
    BY <1>1, <1>2, <1>3, <1>4, <1>5 DEF ReadingInv
  <1>7. /\ h.p_offset \in Nat /\ h.p_vaddr \in Nat /\ h.p_filesz \in Nat /\ h.p_memsz \in Nat
        /\ s.p_offset \in Nat /\ s.p_vaddr \in Nat /\ s.p_filesz \in Nat /\ s.p_memsz \in Nat
        /\ EndOf(h) = h.p_vaddr + h.p_memsz /\ EndOf(s) = EndOf(h)
        /\ s.p_vaddr <= h.p_vaddr
        /\ h.p_vaddr + h.p_filesz = s.p_vaddr + s.p_filesz
        /\ h.p_offset + s.p_vaddr = s.p_offset + h.p_vaddr
    BY <1>6, Fields DEF RestOf
  <1> DEFINE v == h.p_vaddr
             o == Offset(v)
             r == required_pages(h)
             z == r * P
  <1>8. PICK base \in pmm_alloc_pool(r) :
          LET start == base * P + o
          IN  /\ segments' = Append(segments, Record(h, base * P))
              /\ free' = free \ (base .. base + r - 1)
              /\ mem' = Written(Zeroed(mem, start, h.p_memsz), start, h.p_offset, h.p_filesz)
    BY <1>3 DEF place_segment
  <1> DEFINE x == base * P
             start == x + o
             new == Record(h, x)
             m == MemoryPages * P
  <1>9. r \in Nat /\ r > 0 /\ o + h.p_memsz <= z /\ o \in Nat
    <2>1. o \in 0 .. P - 1
      BY <1>7, PageOf
    <2> QED BY <1>6, <2>1, Required, PageSize
  <1>10. base \in free /\ base .. base + r - 1 \subseteq free
    BY <1>8 DEF pmm_alloc_pool, Runs
  <1>11. free \subseteq 0 .. MemoryPages - 1 /\ MemoryPages \in Nat
    BY <1>2, PageSize DEF LoadTypeOK
  <1>12. base \in Nat /\ base + r <= MemoryPages
    <2> HIDE DEF r
    <2>1. base \in Nat
      BY <1>10, <1>11
    <2>2. base + r - 1 \in base .. base + r - 1
      BY <1>9, <2>1
    <2>3. base + r - 1 \in 0 .. MemoryPages - 1
      BY <1>10, <1>11, <2>2
    <2> QED BY <1>9, <1>11, <2>1, <2>3
  <1>13. x \in Nat /\ z \in Nat /\ m \in Nat /\ x + z <= m /\ Places = 0 .. m - 1
    <2> HIDE DEF r
    <2> QED BY <1>9, <1>11, <1>12, Product, MorePages DEF Places
  <1>14. z > 0
    <2> HIDE DEF v, o, z
    <2> QED BY <1>6, <1>7, <1>9, <1>13
  <1>15. new.loaded_at = v /\ new.located_at = x /\ new.length = z /\ new \in segment
    BY <1>7, <1>13, <1>14 DEF Record, segment
  <1>16. segments \in Seq(segment)
    BY <1>2, IsSegments
  <1> HIDE DEF new
  <1>17. /\ segments' \in Seq(segment) /\ Len(segments) \in Nat
         /\ DOMAIN segments = 1 .. Len(segments)
         /\ DOMAIN segments' = 1 .. Len(segments) + 1
         /\ \A i \in DOMAIN segments : i \in DOMAIN segments' /\ segments'[i] = segments[i]
         /\ segments'[Len(segments) + 1] = new
    BY <1>8, <1>15, <1>16, AppendProperties DEF new
  <1>18. PICK last \in Nat : last = Len(segments) + 1
    BY <1>17
  <1>19. /\ segments'[last] = new /\ last \in DOMAIN segments' /\ last \notin DOMAIN segments
         /\ \A i \in DOMAIN segments' : i \in DOMAIN segments \/ i = last
         /\ \A i \in DOMAIN segments : i < last
    BY <1>17, <1>18
  <1>20. start \in Nat /\ mem \in [Places -> Nat \cup {Old}]
    BY <1>2, <1>9, <1>13 DEF LoadTypeOK
  <1> DEFINE blank == Zeroed(mem, start, h.p_memsz)
             full == Written(blank, start, h.p_offset, h.p_filesz)
  <1> HIDE DEF x, start, z, r, o, v, m, P
  <1>21. mem' = full
    BY <1>8 DEF x, start, z, r, o, v, P
  <1>22. /\ blank \in [Places -> Nat \cup {Old}]
         /\ \A a \in Places :
              blank[a] = IF a \in start .. start + h.p_memsz - 1 THEN 0 ELSE mem[a]
    <2> DEFINE size == h.p_memsz
    <2>1. size \in Nat /\ blank = Zeroed(mem, start, size)
      BY <1>7
    <2> HIDE DEF size, blank
    <2>2. /\ blank \in [Places -> Nat \cup {Old}]
          /\ \A a \in Places :
               blank[a] = IF a \in start .. start + size - 1 THEN 0 ELSE mem[a]
      BY <1>20, <2>1, ZeroedIs
    <2> QED BY <2>2 DEF size
  <1> HIDE DEF blank
  <1>23. /\ full \in [Places -> Nat \cup {Old}]
         /\ \A a \in Places :
              full[a] = IF a \in start .. start + h.p_filesz - 1
                        THEN h.p_offset + (a - start) + 1 ELSE blank[a]
    <2> DEFINE offset == h.p_offset
               size == h.p_filesz
    <2>1. offset \in Nat /\ size \in Nat /\ full = Written(blank, start, offset, size)
      BY <1>7
    <2> HIDE DEF offset, size, full
    <2>2. /\ full \in [Places -> Nat \cup {Old}]
          /\ \A a \in Places :
               full[a] = IF a \in start .. start + size - 1
                         THEN offset + (a - start) + 1 ELSE blank[a]
      BY <1>20, <1>22, <2>1, WrittenIs
    <2> QED BY <2>2 DEF offset, size
  <1> HIDE DEF full
  <1>24. start = x + o
    BY DEF start
  <1>25. ASSUME NEW a \in Places, a < x \/ x + z <= a PROVE mem'[a] = mem[a]
    <2>1. a \in Nat
      BY <1>13
    <2> DEFINE size == h.p_memsz
               filled == h.p_filesz
    <2>2. size \in Nat /\ filled \in Nat /\ filled <= size /\ o + size <= z /\ o \in Nat
      BY <1>6, <1>7, <1>9
    <2> HIDE DEF size, filled
    <2>3. ~(a \in start .. start + filled - 1) /\ ~(a \in start .. start + size - 1)
      BY <1>13, <1>24, <1>25, <2>1, <2>2
    <2> QED BY <1>21, <1>22, <1>23, <2>3 DEF size, filled
  <1>26. ASSUME NEW d \in 0 .. h.p_memsz - 1
         PROVE  mem'[start + d] = IF d < h.p_filesz THEN h.p_offset + d + 1 ELSE 0
    <2>1. start + d \in Places
      BY <1>7, <1>9, <1>13, <1>24
    <2>2. start + d \in start .. start + h.p_memsz - 1 /\ (start + d) - start = d
      BY <1>7, <1>20
    <2>3. start + d \in start .. start + h.p_filesz - 1 <=> d < h.p_filesz
      BY <1>7, <1>20
    <2> QED BY <1>21, <1>22, <1>23, <2>1, <2>2, <2>3
  <1>27. LoadTypeOK'
    <2>1. free' \subseteq 0 .. MemoryPages - 1
      BY <1>8, <1>11
    <2>2. mem' \in [Places -> Nat \cup {Old}]
      BY <1>21, <1>23
    <2>3. segments' \in Seq([loaded_at : Nat, located_at : Nat, length : Nat \ {0}])
      BY <1>17 DEF segment
    <2>4. /\ pheader' \in 1 .. Len(file'.table) + 1 /\ header_copy' \in elf_program_header_t
          /\ file' \in Files
      BY <1>1, <1>2 DEF LoadTypeOK
    <2> QED BY <1>1, <2>1, <2>2, <2>3, <2>4 DEF LoadTypeOK
  <1>28. ReadingInv'
    BY <1>1 DEF ReadingInv
  <1>29. c \in Nat /\ pheader \in Nat /\ c = pheader - 1 /\ c < pheader
    BY <1>2, <1>4, Headers DEF LoadTypeOK, Current
  <1>30. Passed \subseteq Passed' /\ c \in Passed' /\ \A k \in Passed' : k \in Passed \/ k = c
    <2>1. Passed = {k \in Loads(t) : k < pheader /\ k < c}
      BY <1>1, <1>4 DEF Passed
    <2>2. Passed' = {k \in Loads(t) : k < pheader}
      BY <1>1 DEF Passed
    <2>3. \A k \in Loads(t) : k \in Nat
      BY <1>2, Headers
    <2> QED BY <1>29, <2>1, <2>2, <2>3
  <1>31. \A k \in Passed : k < c /\ k \in Loads(t)
    BY <1>1, <1>4 DEF Passed
  <1>32. ASSUME NEW i \in DOMAIN segments
         PROVE  segments[i].loaded_at < s.p_vaddr /\ ~RecordOf(s, i)
    <2>1. segments[i].loaded_at < s.p_vaddr
      BY <1>5, <1>31, RecordsBefore
    <2>2. segments[i].loaded_at \in Nat
      BY <1>2, Records
    <2>3. ~(s.p_vaddr <= segments[i].loaded_at)
      BY <1>7, <2>1, <2>2
    <2> QED BY <2>1, <2>3 DEF RecordOf
  <1>33. ASSUME NEW k \in Loads(t), k < c PROVE EndOf(t[k]) <= v
    <2>1. EndOf(t[k]) <= s.p_vaddr
      BY <1>2, <1>5, <1>33, Headers
    <2>2. EndOf(t[k]) \in Nat
      <3>1. t[k] \in elf_program_header_t
        BY <1>2, Headers
      <3> QED BY <3>1, Fields
    <2> QED BY <1>7, <2>1, <2>2 DEF v
  <1>34. RecordsInv'
    <2>1. ASSUME NEW i \in DOMAIN segments
          PROVE  \E k \in Passed' : segments'[i].loaded_at < EndOf(t[k])
      BY <1>2, <1>17, <1>30 DEF RecordsInv
    <2>2. segments'[last].loaded_at < EndOf(t[c])
      BY <1>5, <1>6, <1>7, <1>15, <1>19 DEF v
    <2>3. ASSUME NEW i \in DOMAIN segments
          PROVE  \E q, n \in Nat : PoolIs(i, q, n)' /\ (q + n <= base \/ base + r <= q)
      <3>1. PICK q, n \in Nat : PoolIs(i, q, n)
        BY <1>2 DEF RecordsInv
      <3>2. PoolIs(i, q, n)'
        BY <1>8, <1>17, <3>1 DEF PoolIs
      <3>3. ASSUME base < q + n, q < base + r PROVE FALSE
        <4>1. CASE q <= base
          BY <1>10, <1>12, <3>1, <3>3, <4>1 DEF PoolIs
        <4>2. CASE base < q
          <5>1. q \in free
            BY <1>9, <1>10, <1>12, <3>3, <4>2
          <5> QED BY <3>1, <5>1 DEF PoolIs
        <4> QED BY <1>12, <4>1, <4>2
      <3>4. q + n <= base \/ base + r <= q
        BY <1>9, <1>12, <3>3
      <3> QED BY <3>2, <3>4
    <2>4. PoolIs(last, base, r)'
      <3>1. \A p \in free' : p < base \/ base + r <= p
        <4>1. \A p \in free' : p \in Nat /\ ~(p \in base .. base + r - 1)
          BY <1>8, <1>11
        <4> QED BY <1>9, <1>12, <4>1
      <3>2. x = base * PAGING_PAGE_SIZE /\ z = r * PAGING_PAGE_SIZE
        BY DEF x, z, P
      <3> QED BY <1>9, <1>12, <1>15, <1>19, <3>1, <3>2 DEF PoolIs
    <2>5. ASSUME NEW i \in DOMAIN segments
          PROVE  /\ segments'[i].loaded_at + segments'[i].length <= segments'[last].loaded_at
                 /\ PoolBefore(i, last)' \/ PoolBefore(last, i)'
      <3>1. segments'[i].loaded_at + segments'[i].length <= segments'[last].loaded_at
        BY <1>1, <1>3, <1>15, <1>17, <1>19, BehindAll DEF v
      <3>2. PICK q, n \in Nat : PoolIs(i, q, n)' /\ (q + n <= base \/ base + r <= q)
        BY <2>3
      <3>3. q + n <= base => q * PAGING_PAGE_SIZE + n * PAGING_PAGE_SIZE <= base * PAGING_PAGE_SIZE
        BY <1>12, MorePages
      <3>4. base + r <= q => base * PAGING_PAGE_SIZE + r * PAGING_PAGE_SIZE <= q * PAGING_PAGE_SIZE
        BY <1>9, <1>12, MorePages
      <3>5. PoolBefore(i, last)' \/ PoolBefore(last, i)'
        BY <2>4, <3>2, <3>3, <3>4 DEF PoolIs, PoolBefore
      <3> QED BY <3>1, <3>5
    <2>6. ASSUME NEW i \in DOMAIN segments', NEW j \in DOMAIN segments', i < j
          PROVE  /\ segments'[i].loaded_at + segments'[i].length <= segments'[j].loaded_at
                 /\ PoolBefore(i, j)' \/ PoolBefore(j, i)'
      <3>1. i \in DOMAIN segments
        BY <1>17, <1>18, <2>6
      <3>2. CASE j = last
        BY <2>5, <3>1, <3>2
      <3>3. CASE j \in DOMAIN segments
        <4>1. /\ segments[i].loaded_at + segments[i].length <= segments[j].loaded_at
              /\ PoolBefore(i, j) \/ PoolBefore(j, i)
          BY <1>2, <2>6, <3>1, <3>3 DEF RecordsInv
        <4>2. segments'[i] = segments[i] /\ segments'[j] = segments[j]
          BY <1>17, <3>1, <3>3
        <4> QED BY <4>1, <4>2 DEF PoolBefore
      <3> QED BY <1>19, <3>2, <3>3
    <2>7. ASSUME NEW i \in DOMAIN segments'
          PROVE  /\ \E k \in Passed' : segments'[i].loaded_at < EndOf(t[k])
                 /\ \E q, n \in Nat : PoolIs(i, q, n)'
      <3>1. CASE i \in DOMAIN segments
        <4>1. \E q, n \in Nat : PoolIs(i, q, n)'
          BY <2>3, <3>1
        <4> QED BY <2>1, <3>1, <4>1
      <3>2. CASE i = last
        <4>1. \E q, n \in Nat : PoolIs(i, q, n)'
          BY <1>9, <1>12, <2>4, <3>2
        <4> QED BY <1>30, <2>2, <3>2, <4>1
      <3> QED BY <1>19, <3>1, <3>2
    <2> QED BY <1>1, <2>6, <2>7 DEF RecordsInv, EndOf
  <1>35. ASSUME NEW k \in Loads(t), k < pheader, NEW a \in Nat, a \in CopiedTo(k)
         PROVE  a \in CopiedTo(k)'
    <2>1. CopiedTo(k)' = CopiedAway(t[k])'
      BY <1>1 DEF CopiedTo
    <2>2. CASE k = c
      <3>1. a \in s.p_vaddr .. v - 1
        BY <1>1, <1>3, <1>4, <1>5, <1>35, <2>2 DEF CopiedTo, v
      <3>2. a \in s.p_vaddr .. s.p_vaddr + s.p_filesz - 1 /\ a < v
        BY <1>7, <3>1 DEF v
      <3>3. ASSUME NEW i \in DOMAIN segments', RecordOf(s, i)' PROVE a < segments'[i].loaded_at
        <4>1. CASE i \in DOMAIN segments
          <5>1. RecordOf(s, i)
            BY <1>17, <3>3, <4>1 DEF RecordOf
          <5> QED BY <1>32, <4>1, <5>1
        <4>2. CASE i = last
          BY <1>15, <1>19, <3>2, <4>2
        <4> QED BY <1>19, <4>1, <4>2
      <3>4. a \in CopiedAway(s)'
        BY <3>2, <3>3 DEF CopiedAway
      <3> QED BY <1>1, <1>5, <2>1, <2>2, <3>4 DEF CopiedAway, RecordOf, EndOf
    <2>3. CASE k # c
      <3>1. k < c /\ a \in CopiedAway(t[k])
        <4>1. k \in Nat
          BY <1>2, Headers
        <4>2. k < c
          BY <1>29, <1>35, <2>3, <4>1
        <4> QED BY <1>4, <1>35, <2>3, <4>2 DEF CopiedTo
      <3>2. PICK u \in elf_program_header_t : u = t[k]
        BY <1>2, Headers
      <3>3. EndOf(u) <= v /\ EndOf(u) \in Nat
        BY <1>33, <3>1, <3>2, Fields
      <3>4. ASSUME NEW i \in DOMAIN segments', RecordOf(u, i)' PROVE a < segments'[i].loaded_at
        <4>1. segments'[i].loaded_at < EndOf(u)
          BY <3>4 DEF RecordOf
        <4>2. i # last
          BY <1>7, <1>15, <1>19, <3>3, <4>1 DEF v
        <4>3. i \in DOMAIN segments /\ segments'[i] = segments[i]
          BY <1>17, <1>19, <4>2
        <4>4. RecordOf(u, i)
          BY <3>4, <4>3 DEF RecordOf
        <4> QED BY <3>1, <3>2, <4>3, <4>4 DEF CopiedAway
      <3>5. a \in u.p_vaddr .. u.p_vaddr + u.p_filesz - 1
        BY <3>1, <3>2 DEF CopiedAway
      <3>6. a \in CopiedAway(u)'
        BY <3>4, <3>5 DEF CopiedAway
      <3> QED BY <1>1, <2>1, <3>2, <3>6 DEF CopiedAway, RecordOf, EndOf
    <2> QED BY <2>2, <2>3
  <1>36. ASSUME NEW k \in Passed
         PROVE  /\ Recorded(k)'
                /\ \A i \in DOMAIN segments : RecordOf(t[k], i) => Holds(i, k)'
    <2>1. Recorded(k) /\ \A i \in DOMAIN segments : RecordOf(t[k], i) => Holds(i, k)
      BY <1>2 DEF PlacedInv
    <2>2. Recorded(k)'
      BY <1>1, <1>17, <2>1, StaysRecorded
    <2>3. ASSUME NEW a \in Nat, CopiedOver(k, a) PROVE CopiedOver(k, a)'
      <3>1. PICK j \in Loads(t) : k < j /\ j < pheader /\ a \in CopiedTo(j)
        BY <2>3 DEF CopiedOver
      <3>2. a \in CopiedTo(j)'
        BY <1>35, <3>1
      <3> QED BY <1>1, <3>1, <3>2 DEF CopiedOver
    <2>4. ASSUME NEW i \in DOMAIN segments, RecordOf(t[k], i) PROVE Holds(i, k)'
      <3> DEFINE p == segments[i].located_at
                 y == segments[i].length
      <3>1. Holds(i, k) /\ segments'[i] = segments[i] /\ file' = file
        BY <1>1, <1>17, <2>1, <2>4
      <3>2. PoolBefore(i, last)' \/ PoolBefore(last, i)'
        <4>1. i \in DOMAIN segments' /\ i < last
          BY <1>17, <1>19
        <4> QED BY <1>19, <1>34, <4>1 DEF RecordsInv
      <3>3. p + y <= x \/ x + z <= p
        BY <1>15, <1>19, <3>1, <3>2 DEF PoolBefore
      <3>4. p \in Nat /\ y \in Nat
        BY <1>2, Records
      <3> HIDE DEF p, y
      <3>5. ASSUME NEW a \in Places, p <= a /\ a < p + y PROVE mem'[a] = mem[a]
        <4>1. a \in Nat
          BY <1>13
        <4>2. a < x \/ x + z <= a
          BY <1>13, <3>3, <3>4, <3>5, <4>1
        <4> QED BY <1>25, <4>2
      <3> QED BY <2>3, <3>1, <3>5, StaysHeld DEF p, y
    <2> QED BY <2>2, <2>4
  <1>37. Recorded(c)'
    <2>1. Shares(c) => Shares(c)'
      BY <1>1, <1>17 DEF Shares
    <2>2. ~Shares(c) => segments'[last].loaded_at = s.p_vaddr
      BY <1>6, <1>15, <1>19 DEF v
    <2> QED BY <1>1, <1>5, <1>19, <2>1, <2>2 DEF Recorded
  <1>38. Holds(last, c)'
    <2>1. o + (EndOf(s) - v) <= z /\ EndOf(s) \in Nat /\ v \in Nat
      BY <1>7, <1>9 DEF v
    <2>2. ASSUME NEW a \in v .. EndOf(s) - 1 PROVE mem'[PlaceOf(last, a)'] = Byte(s, a)
      <3> DEFINE d == a - v
      <3>1. d \in 0 .. h.p_memsz - 1
        BY <1>7, <2>1 DEF v
      <3>2. PlaceOf(last, a)' = start + d
        BY <1>15, <1>19, <1>24 DEF PlaceOf, o
      <3>3. mem'[start + d] = IF d < h.p_filesz THEN h.p_offset + d + 1 ELSE 0
        BY <1>26, <3>1
      <3>4. /\ d < h.p_filesz <=> a - s.p_vaddr < s.p_filesz
            /\ h.p_offset + d + 1 = s.p_offset + (a - s.p_vaddr) + 1
        BY <1>7, <2>1 DEF v
      <3> HIDE DEF d
      <3> QED BY <3>2, <3>3, <3>4 DEF Byte
    <2>3. file'.table[c] = s /\ segments'[last].loaded_at = v /\ segments'[last].length = z
      BY <1>1, <1>5, <1>15, <1>19
    <2> QED BY <2>1, <2>2, <2>3 DEF Holds, o, EndOf, Byte
  <1>39. PlacedInv'
    <2> SUFFICES ASSUME NEW k \in Passed'
                 PROVE  /\ Recorded(k)'
                        /\ \A i \in DOMAIN segments' : RecordOf(t[k], i)' => Holds(i, k)'
      BY <1>1 DEF PlacedInv, RecordOf, EndOf
    <2>1. CASE k \in Passed
      <3>1. ASSUME NEW i \in DOMAIN segments', RecordOf(t[k], i)' PROVE Holds(i, k)'
        <4>1. segments'[i].loaded_at < EndOf(t[k])
          BY <1>1, <3>1 DEF RecordOf, EndOf
        <4>2. EndOf(t[k]) <= v /\ EndOf(t[k]) \in Nat
          <5>1. t[k] \in elf_program_header_t
            BY <1>2, <1>31, <2>1, Headers
          <5> QED BY <1>31, <1>33, <2>1, <5>1, Fields
        <4>3. i # last
          BY <1>7, <1>15, <1>19, <4>1, <4>2 DEF v
        <4>4. i \in DOMAIN segments /\ segments'[i] = segments[i]
          BY <1>17, <1>19, <4>3
        <4>5. RecordOf(t[k], i)
          BY <1>1, <3>1, <4>4 DEF RecordOf, EndOf
        <4> QED BY <1>36, <2>1, <4>4, <4>5
      <3> QED BY <1>36, <2>1, <3>1
    <2>2. CASE k = c
      <3>1. ASSUME NEW i \in DOMAIN segments', RecordOf(t[k], i)' PROVE Holds(i, k)'
        <4>1. CASE i \in DOMAIN segments
          <5>1. RecordOf(s, i)
            BY <1>1, <1>5, <1>17, <2>2, <3>1, <4>1 DEF RecordOf, EndOf
          <5> QED BY <1>32, <4>1, <5>1
        <4>2. CASE i = last
          BY <1>38, <2>2, <4>2
        <4> QED BY <1>19, <4>1, <4>2
      <3> QED BY <1>37, <2>2, <3>1
    <2> QED BY <1>30, <2>1, <2>2
  <1> QED BY <1>1, <1>27, <1>28, <1>34, <1>39 DEF LoadInv, DoneInv

(* No step of the loader leaves the invariant. *)
LEMMA InvStep ==
    ASSUME LoadInv, [LoadNext]_load_vars
    PROVE  LoadInv'
  <1>1. CASE elf_load_program
    <2>1. stage' \in {"check", "next", "copy", "place", "refused", "done"} /\ stage' \notin {"place", "done"}
      BY <1>1 DEF elf_load_program
    <2>2. Reading' = Reading
      BY <1>1 DEF elf_load_program, Reading
    <2> QED BY <1>1, <2>1, <2>2, Quiet DEF elf_load_program
  <1>2. CASE next_header
    BY <1>2, NextHeaderStep
  <1>3. CASE headers_end
    <2>1. Reading' = Reading
      BY <1>3 DEF headers_end, Reading
    <2>2. pheader = Len(file.table) + 1
      <3>1. file.table \in Seq(elf_program_header_t) /\ pheader \in 1 .. Len(file.table) + 1
        BY FilesAssumption DEF FilesAssumption, LoadInv, LoadTypeOK
      <3>2. pheader > Len(file.table)
        BY <1>3 DEF headers_end
      <3> QED BY <3>1, <3>2
    <2> QED BY <1>3, <2>1, <2>2, Quiet DEF headers_end
  <1>4. CASE copy_into_mapped
    BY <1>4, CopyStep
  <1>5. CASE copy_ends
    <2>1. Reading' = Reading
      BY <1>5 DEF copy_ends, Reading
    <2> QED BY <1>5, <2>1, Quiet DEF copy_ends
  <1>6. CASE place_segment
    BY <1>6, PlaceStep
  <1>7. CASE UNCHANGED load_vars
    <2>1. Reading' = Reading /\ stage' = stage
      BY <1>7 DEF load_vars, Reading
    <2>2. stage = "place" => ~elf_is_page_mapped(header_copy.p_vaddr)
      BY DEF LoadInv, ReadingInv, Reading
    <2>3. stage \in {"check", "next", "copy", "place", "refused", "done"}
      BY DEF LoadInv, LoadTypeOK
    <2>4. stage = "done" => pheader = Len(file.table) + 1
      BY DEF LoadInv, DoneInv
    <2> QED BY <1>7, <2>1, <2>2, <2>3, <2>4, Quiet DEF load_vars
  <1> QED BY <1>1, <1>2, <1>3, <1>4, <1>5, <1>6, <1>7 DEF LoadNext, elf_load_segment

(* What elf_load_program and elf_load_segment keep of the header they read, of  *)
(* the records of load_info and of memory.                                  *)
THEOREM LoadInvariant == LoadSpec => []LoadInv
  <1>1. LoadInv /\ [LoadNext]_load_vars => LoadInv'
    BY InvStep
  <1> QED BY InvAtInit, <1>1, PTL DEF LoadSpec

(* The loader's variables keep their types. *)
THEOREM LoadTypeCorrect == LoadSpec => []LoadTypeOK
  <1>1. LoadInv => LoadTypeOK
    BY DEF LoadInv
  <1> QED BY LoadInvariant, <1>1, PTL

-----------------------------------------------------------------------------

(* The pages a record maps, one by one. *)
LEMMA MappingsAre ==
    ASSUME LoadInv, NEW m \in Mappings
    PROVE  \E i \in DOMAIN segments, n \in Nat, j \in Nat :
             /\ m = [record |-> i, page |-> Page(segments[i].loaded_at) + j,
                     frame |-> Page(segments[i].located_at) + j]
             /\ segments[i].length = n * PAGING_PAGE_SIZE
             /\ j < n
  <1>1. PICK i \in DOMAIN segments :
          m \in {[record |-> i, page |-> Page(segments[i].loaded_at) + j,
                  frame |-> Page(segments[i].located_at) + j] :
                   j \in {k \in 0 .. segments[i].length :
                            k * PAGING_PAGE_SIZE < segments[i].length}}
    BY Zenon DEF Mappings
  <1>2. PICK j \in {k \in 0 .. segments[i].length :
                      k * PAGING_PAGE_SIZE < segments[i].length} :
          m = [record |-> i, page |-> Page(segments[i].loaded_at) + j,
               frame |-> Page(segments[i].located_at) + j]
    BY <1>1, Zenon
  <1>3. j \in 0 .. segments[i].length /\ j * PAGING_PAGE_SIZE < segments[i].length
    BY <1>2
  <1>4. PICK n \in Nat : segments[i].length = n * PAGING_PAGE_SIZE
    BY DEF LoadInv, RecordsInv, PoolIs
  <1>5. segments[i].length \in Nat /\ j \in Nat
    BY <1>3, Records DEF LoadInv
  <1>6. j < n
    BY <1>3, <1>4, <1>5, FewerPages
  <1> QED BY <1>2, <1>4, <1>5, <1>6

(* The pages of a record come before those of a later one. *)
LEMMA RecordsApart ==
    ASSUME LoadInv, NEW i \in DOMAIN segments, NEW k \in DOMAIN segments, i < k,
           NEW n \in Nat, segments[i].length = n * PAGING_PAGE_SIZE
    PROVE  Page(segments[i].loaded_at) + n <= Page(segments[k].loaded_at)
  <1>1. segments[i].loaded_at + segments[i].length <= segments[k].loaded_at
    BY DEF LoadInv, RecordsInv
  <1>2. segments[i].loaded_at \in Nat /\ segments[k].loaded_at \in Nat
    BY Records DEF LoadInv
  <1> QED BY <1>1, <1>2, PagesBehind

(* The ranges of the records are apart, and so are their pages. *)
LEMMA OnceMapped == ASSUME LoadInv PROVE PagesMappedOnce
  <1> SUFFICES ASSUME NEW m \in Mappings, NEW o \in Mappings, m.page = o.page
               PROVE  m = o
    BY DEF PagesMappedOnce
  <1>1. PICK i \in DOMAIN segments, n \in Nat, j \in Nat :
             /\ m = [record |-> i, page |-> Page(segments[i].loaded_at) + j,
                     frame |-> Page(segments[i].located_at) + j]
             /\ segments[i].length = n * PAGING_PAGE_SIZE
             /\ j < n
    BY MappingsAre
  <1>2. PICK k \in DOMAIN segments, p \in Nat, l \in Nat :
             /\ o = [record |-> k, page |-> Page(segments[k].loaded_at) + l,
                     frame |-> Page(segments[k].located_at) + l]
             /\ segments[k].length = p * PAGING_PAGE_SIZE
             /\ l < p
    BY MappingsAre
  <1> DEFINE a == Page(segments[i].loaded_at)
             b == Page(segments[k].loaded_at)
  <1>3. a \in Nat /\ b \in Nat /\ i \in Nat /\ k \in Nat
    BY PageOf, Records DEF LoadInv
  <1>4. a + j = b + l
    BY <1>1, <1>2
  <1>5. ~(i < k)
    <2>1. i < k => a + n <= b
      BY <1>1, RecordsApart
    <2> HIDE DEF a, b
    <2> QED BY <1>1, <1>2, <1>3, <1>4, <2>1
  <1>6. ~(k < i)
    <2>1. k < i => b + p <= a
      BY <1>2, RecordsApart
    <2> HIDE DEF a, b
    <2> QED BY <1>1, <1>2, <1>3, <1>4, <2>1
  <1>7. i = k
    BY <1>3, <1>5, <1>6
  <1>8. j = l
    <2>1. a = b
      BY <1>7
    <2> HIDE DEF a, b
    <2> QED BY <1>3, <1>4, <2>1
  <1> QED BY <1>1, <1>2, <1>7, <1>8

(* No page of a program is mapped by two records of elf_load_segment, for any  *)
(* table of headers and any size of a page.                                  *)
THEOREM MappedOnce == LoadSpec => []PagesMappedOnce
  <1>1. LoadInv => PagesMappedOnce
    BY OnceMapped
  <1> QED BY LoadInvariant, <1>1, PTL

(* The program finds what the record has at the same distance.   *)
LEMMA FoundIs ==
    ASSUME LoadInv, NEW i \in DOMAIN segments, NEW a \in Nat,
           segments[i].loaded_at <= a,
           Offset(segments[i].loaded_at) + (a - segments[i].loaded_at) < segments[i].length
    PROVE  Found(a) = {mem[PlaceOf(i, a)]}
  <1> DEFINE v == segments[i].loaded_at
             d == a - v
             l == segments[i].located_at
             n == segments[i].length
             j == Page(a) - Page(v)
             x == Page(v) * PAGING_PAGE_SIZE
             y == Page(l) * PAGING_PAGE_SIZE
             z == j * PAGING_PAGE_SIZE
             m == [record |-> i, page |-> Page(v) + j, frame |-> Page(l) + j]
  <1>1. v <= a /\ Offset(v) + d < n
    OBVIOUS
  <1>2. v \in Nat /\ l \in Nat /\ n \in Nat /\ d \in Nat /\ a = v + d
    <2>1. v \in Nat /\ l \in Nat /\ n \in Nat
      BY Records DEF LoadInv
    <2> HIDE DEF v
    <2> QED BY <1>1, <2>1
  <1> HIDE DEF d
  <1>3. a \in Nat
    BY <1>2
  <1>4. /\ Page(v) \in Nat /\ Page(a) \in Nat /\ Page(l) \in Nat
        /\ Offset(v) \in Nat /\ Offset(a) \in Nat
        /\ x \in Nat /\ y \in Nat
        /\ v = x + Offset(v)
        /\ a = Page(a) * PAGING_PAGE_SIZE + Offset(a)
    <2> HIDE DEF v, l
    <2>1. /\ Page(v) \in Nat /\ Page(a) \in Nat /\ Page(l) \in Nat
          /\ v = x + Offset(v) /\ a = Page(a) * PAGING_PAGE_SIZE + Offset(a)
      BY <1>2, <1>3, PageOf
    <2>2. Offset(v) \in Nat /\ Offset(a) \in Nat
      <3>1. Offset(v) \in 0 .. PAGING_PAGE_SIZE - 1 /\ Offset(a) \in 0 .. PAGING_PAGE_SIZE - 1
        BY <1>2, <1>3, PageOf
      <3> QED BY <3>1, PageSize
    <2>3. x \in Nat /\ y \in Nat
      BY <2>1, Product
    <2> QED BY <2>1, <2>2, <2>3
  <1>5. j \in Nat
    <2>1. v + 0 * PAGING_PAGE_SIZE <= a
      BY <1>2, PageSize
    <2>2. Page(v) + 0 <= Page(a)
      <3> HIDE DEF v
      <3> QED BY <1>2, <1>3, <2>1, PagesBehind
    <2> HIDE DEF v
    <2> QED BY <1>4, <2>2
  <1>6. z \in Nat
    <2> HIDE DEF j
    <2> QED BY <1>5, Product
  <1>7. Page(a) * PAGING_PAGE_SIZE = x + z
    <2> DEFINE p == Page(v)
    <2>1. Page(a) = p + j /\ p \in Nat
      BY <1>4
    <2> HIDE DEF p, j
    <2>2. (p + j) * PAGING_PAGE_SIZE = p * PAGING_PAGE_SIZE + j * PAGING_PAGE_SIZE
      BY <1>5, <2>1, PageSize, SMT
    <2> QED BY <2>1, <2>2 DEF p
  <1>8. (Page(l) + j) * PAGING_PAGE_SIZE = y + z
    <2> DEFINE p == Page(l)
    <2>1. p \in Nat
      BY <1>4
    <2> HIDE DEF p, j
    <2>2. (p + j) * PAGING_PAGE_SIZE = p * PAGING_PAGE_SIZE + j * PAGING_PAGE_SIZE
      BY <1>5, <2>1, PageSize, SMT
    <2> QED BY <2>2 DEF p
  <1>9. l = y
    <2>1. PICK q \in Nat : l = q * PAGING_PAGE_SIZE
      BY DEF LoadInv, RecordsInv, PoolIs
    <2> HIDE DEF l
    <2>2. q <= Page(l)
      <3>1. 0 + q * PAGING_PAGE_SIZE <= l
        BY <1>2, <2>1
      <3>2. Page(0) + q <= Page(l)
        BY <1>2, <3>1, PagesBehind
      <3>3. Page(0) \in Nat
        BY PageOf
      <3> QED BY <1>4, <3>2, <3>3
    <2>3. q * PAGING_PAGE_SIZE + 0 * PAGING_PAGE_SIZE <= y
      BY <1>4, <2>2, MorePages
    <2>4. l <= y
      BY <1>2, <1>4, <2>1, <2>3, PageSize
    <2>5. l = y + Offset(l) /\ Offset(l) \in 0 .. PAGING_PAGE_SIZE - 1
      BY <1>2, PageOf
    <2> HIDE DEF y
    <2> QED BY <1>2, <1>4, <2>4, <2>5, PageSize
  <1> HIDE DEF z, x, y
  <1>10. v + d = x + z + Offset(a) /\ z + Offset(a) = Offset(v) + d
    BY <1>2, <1>4, <1>6, <1>7
  <1>11. z < n
    <2> HIDE DEF v
    <2> QED BY <1>1, <1>2, <1>4, <1>6, <1>10
  <1>12. j <= n
    <2>1. j <= z
      <3>1. 1 <= PAGING_PAGE_SIZE
        BY PageSize
      <3> HIDE DEF j
      <3> QED BY <1>5, <3>1, PageSize, SMT DEF z
    <2> HIDE DEF j
    <2> QED BY <1>2, <1>5, <1>6, <1>11, <2>1
  <1>13. m \in Mappings
    <2>1. j \in {k \in 0 .. n : k * PAGING_PAGE_SIZE < n}
      <3>1. j \in 0 .. n
        <4> HIDE DEF j
        <4> QED BY <1>2, <1>5, <1>12
      <3> QED BY <1>11, <3>1 DEF z
    <2>2. m = [record |-> i, page |-> Page(segments[i].loaded_at) + j,
               frame |-> Page(segments[i].located_at) + j]
      BY <1>1
    <2> DEFINE maps == {[record |-> i, page |-> Page(segments[i].loaded_at) + k,
                         frame |-> Page(segments[i].located_at) + k] :
                          k \in {q \in 0 .. segments[i].length :
                                   q * PAGING_PAGE_SIZE < segments[i].length}}
    <2> HIDE DEF j, m
    <2>3. m \in maps
      BY <2>1, <2>2, Zenon
    <2>4. maps \subseteq Mappings
      BY Zenon DEF Mappings
    <2> QED BY <2>3, <2>4, Zenon
  <1>14. m.page = Page(a) /\ m.frame * PAGING_PAGE_SIZE + Offset(a) = l + Offset(v) + d
    <2>1. m.page = Page(v) + j /\ m.frame = Page(l) + j
      OBVIOUS
    <2>2. Page(v) + j = Page(a)
      BY <1>4
    <2> HIDE DEF m, j, l
    <2> QED BY <1>2, <1>4, <1>6, <1>8, <1>9, <1>10, <2>1, <2>2
  <1> HIDE DEF m
  <1>15. \A k \in Mappings : k.page = Page(a) => k = m
    BY <1>13, <1>14, OnceMapped DEF PagesMappedOnce
  <1>16. {k \in Mappings : k.page = Page(a)} = {m}
    BY <1>13, <1>14, <1>15
  <1>17. Found(a) = {mem[m.frame * PAGING_PAGE_SIZE + Offset(a)]}
    BY <1>16 DEF Found
  <1>18. PlaceOf(i, a) = l + Offset(v) + d
    BY DEF PlaceOf, d
  <1> QED BY <1>14, <1>17, <1>18

(* A program that was loaded finds what there is a record of, through the pages *)
(* task_new_page_table maps, and all of a segment that begins in no other's     *)
(* range; but for what elf.c:31 has copied over it.                           *)
THEOREM SegmentsPlaced == LoadSpec => []PlacedExactly
  <1>1. ASSUME LoadInv PROVE PlacedExactly
    <2> DEFINE t == file.table
    <2> SUFFICES ASSUME stage = "done", NEW i \in Loads(t)
                 PROVE  /\ t[i].p_memsz # 0 /\ ~Shares(i) =>
                             \E r \in DOMAIN segments : segments[r].loaded_at = t[i].p_vaddr
                        /\ \A r \in DOMAIN segments : RecordOf(t[i], r) =>
                             \A a \in segments[r].loaded_at .. EndOf(t[i]) - 1 :
                               \/ Found(a) = {Byte(t[i], a)}
                               \/ \E k \in Loads(t) :
                                    i < k /\ PlaceOf(r, a) \in CopiedAway(t[k])
      BY Zenon DEF PlacedExactly
    <2>1. file \in Files /\ pheader = Len(t) + 1 /\ ~Reading
      BY <1>1 DEF LoadInv, LoadTypeOK, DoneInv, Reading
    <2>2. i \in Passed
      <3>1. i \in 1 .. Len(t)
        BY <2>1, Headers
      <3> QED BY <2>1, <3>1 DEF Passed
    <2>3. Recorded(i)
      BY <1>1, <2>2 DEF LoadInv, PlacedInv
    <2>4. ASSUME NEW r \in DOMAIN segments, RecordOf(t[i], r),
                 NEW a \in segments[r].loaded_at .. EndOf(t[i]) - 1
          PROVE  \/ Found(a) = {Byte(t[i], a)}
                 \/ \E k \in Loads(t) : i < k /\ PlaceOf(r, a) \in CopiedAway(t[k])
      <3>1. Holds(r, i)
        BY <1>1, <2>2, <2>4 DEF LoadInv, PlacedInv
      <3>2. mem[PlaceOf(r, a)] = Byte(t[i], a) \/ CopiedOver(i, PlaceOf(r, a))
        BY <3>1 DEF Holds
      <3>3. CopiedOver(i, PlaceOf(r, a)) =>
              \E k \in Loads(t) : i < k /\ PlaceOf(r, a) \in CopiedAway(t[k])
        BY <2>1 DEF CopiedOver, CopiedTo
      <3>4. Found(a) = {mem[PlaceOf(r, a)]}
        <4> DEFINE l == segments[r].loaded_at
                   e == EndOf(t[i])
                   z == segments[r].length
        <4>1. l \in Nat /\ z \in Nat /\ e \in Nat /\ Offset(l) \in Nat
          <5>1. t[i] \in elf_program_header_t
            BY <2>1, Headers
          <5>2. e \in Nat
            BY <5>1, Fields
          <5>3. l \in Nat /\ z \in Nat
            BY <1>1, Records DEF LoadInv
          <5>4. Offset(l) \in 0 .. PAGING_PAGE_SIZE - 1
            BY <5>3, PageOf
          <5> QED BY <5>2, <5>3, <5>4, PageSize
        <4>2. Offset(l) + (e - l) <= z
          BY <3>1 DEF Holds
        <4>3. a \in Nat /\ l <= a /\ Offset(l) + (a - l) < z
          <5> HIDE DEF l, e, z
          <5>1. a \in l .. e - 1
            BY DEF l, e
          <5> QED BY <4>1, <4>2, <5>1
        <4> QED BY <1>1, <4>3, FoundIs
      <3> QED BY <3>2, <3>3, <3>4
    <2> QED BY <2>3, <2>4 DEF Recorded
  <1> QED BY LoadInvariant, <1>1, PTL
=============================================================================
