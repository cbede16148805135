----------------------------- MODULE Interrupts -----------------------------
(***************************************************************************)
(* Exceptions and interrupts: the gates of init_traps (traps.c), the stubs *)
(* of excep.S and int.S, one instruction at a time, and the handlers they  *)
(* call.  Interrupts, non-maskable ones and exceptions hit the kernel and  *)
(* each other's stubs wherever the processor lets them.                    *)
(*                                                                         *)
(* What a word or a register holds is a tuple whose first element is its   *)
(* kind.  stack[i] is the i-th word from the bottom: the address of the    *)
(* word n words above the top of the stack is Len(stack) - n.              *)
(***************************************************************************)
EXTENDS Naturals, Sequences, SequencesExt, TLC

CONSTANTS
  Irqs,         (* The lines of the interrupt controllers in use.          *)
  Faults,       (* The exceptions that the kernel's main program runs into. *)
  MaxDepth      (* Bound: interrupted programs at a time.                  *)

ASSUME InterruptsAssumption ==
  /\ Irqs \subseteq 0 .. 15
  /\ Faults \subseteq 0 .. 31
  /\ MaxDepth \in Nat

General == {"eax", "ebx", "ecx", "edx", "esi", "edi", "ebp"}

Segment == {"ds", "es", "fs", "gs"}

KernelData == <<"selector", 16>>

-----------------------------------------------------------------------------
(* The stubs. *)

Push(regs) == [i \in 1 .. Len(regs) |-> <<"push", regs[i]>>]

Pop(regs) == [i \in 1 .. Len(regs) |-> <<"pop", regs[i]>>]

(* mov $0x10, reg, and from there into the segment registers. *)
LoadSegments(reg, segs) ==
  <<<<"load", reg, KernelData>>>> \o [i \in 1 .. Len(segs) |-> <<"move", reg, segs[i]>>]

Saved == <<"ebx", "ecx", "edx", "esi", "edi", "ebp", "ds", "es", "fs">>

(* Mistake: two registers are restored in the order they were saved in. *)
Restored_in_order == <<"fs", "es", "ds", "ebp", "edi", "esi", "ecx", "edx", "ebx", "eax">>

Restored == <<"fs", "es", "ds", "ebp", "edi", "esi", "edx", "ecx", "ebx", "eax">>

(* Mistake: the pointer leads one word beside the saved eip. *)
no_error_code_beside ==
  <<<<"exchange", "eax", 0>>>> \o Push(Saved)
  \o <<<<"pushi", <<"imm", 0>>>>, <<"lea", 10, "edx">>, <<"push", "edx">>>>
  \o LoadSegments("edx", <<"ds", "es", "fs">>)
  \o <<<<"callr", "eax">>, <<"drop", 2>>>> \o Pop(Restored) \o <<<<"iret">>>>

(* Mistake: only one of the two arguments is removed. *)
no_error_code_drops_one ==
  <<<<"exchange", "eax", 0>>>> \o Push(Saved)
  \o <<<<"pushi", <<"imm", 0>>>>, <<"lea", 11, "edx">>, <<"push", "edx">>>>
  \o LoadSegments("edx", <<"ds", "es", "fs">>)
  \o <<<<"callr", "eax">>, <<"drop", 1>>>> \o Pop(Restored) \o <<<<"iret">>>>

no_error_code ==
  <<<<"exchange", "eax", 0>>>> \o Push(Saved)
  \o <<<<"pushi", <<"imm", 0>>>>, <<"lea", 11, "edx">>, <<"push", "edx">>>>
  \o LoadSegments("edx", <<"ds", "es", "fs">>)
  \o <<<<"callr", "eax">>, <<"drop", 2>>>> \o Pop(Restored) \o <<<<"iret">>>>

error_code ==
  <<<<"exchange", "eax", 1>>, <<"exchange", "ebx", 0>>>> \o Push(Tail(Saved))
  \o <<<<"lea", 11, "eax">>, <<"push", "eax">>>>
  \o LoadSegments("eax", <<"ds", "es", "fs">>)
  \o <<<<"callr", "ebx">>, <<"drop", 2>>>> \o Pop(Restored) \o <<<<"iret">>>>

(* pushal and popal, which leaves esp alone. *)
Pushal == Push(<<"eax", "ecx", "edx", "ebx">>) \o <<<<"pushi", <<"esp">>>>>>
          \o Push(<<"ebp", "esi", "edi">>)

Popal == Pop(<<"edi", "esi", "ebp">>) \o <<<<"drop", 1>>>> \o Pop(<<"ebx", "edx", "ecx", "eax">>)

SaveAll == Pushal \o Push(<<"ds", "es", "fs", "gs">>)
           \o LoadSegments("eax", <<"ds", "es", "fs", "gs">>)

intr_timer ==
  SaveAll \o <<<<"lea", 0, "eax">>, <<"push", "eax">>, <<"call", "handle_timer">>, <<"drop", 1>>>>
  \o Pop(<<"gs", "fs", "es", "ds">>) \o Popal \o <<<<"iret">>>>

(* intr_keyboard and intr_mouse restore the value of ds into fs. *)
intr_device(handler) ==
  SaveAll \o <<<<"call", handler>>>> \o Pop(<<"gs", "fs", "es", "fs">>) \o Popal \o <<<<"iret">>>>

(* The handlers of the exceptions, by vector: excep_debug calls            *)
(* handle_int3, and the rest of the first 32 is reserved.                  *)
TrapHandler(v) ==
  CASE v = 0  -> "handle_divide_error"
    [] v = 2  -> "handle_nmi"
    [] v \in {1, 3} -> "handle_int3"
    [] v = 4  -> "handle_overflow"
    [] v = 5  -> "handle_bounds"
    [] v = 6  -> "handle_invalid_op"
    [] v = 7  -> "handle_no_coprocessor"
    [] v = 8  -> "handle_double_fault"
    [] v = 9  -> "handle_coprocessor_segment_overrun"
    [] v = 10 -> "handle_invalid_TSS"
    [] v = 11 -> "handle_segment_not_present"
    [] v = 12 -> "handle_stack_segment"
    [] v = 13 -> "handle_general_protection"
    [] v = 16 -> "handle_coprocessor"
    [] OTHER  -> "handle_reserved"

TrapHandlers == {TrapHandler(v) : v \in (0 .. 31) \ {14}}

(* The stubs that jump to error_code. *)
ErrorStubs == {8, 10, 11, 12, 13}

Excep(v) ==
  <<<<"pushi", <<"code", TrapHandler(v), 1>>>>>>
  \o IF v \in ErrorStubs THEN error_code ELSE no_error_code

(* The interrupt descriptor table: the page fault and the last vector have *)
(* no gate.                                                                *)
Vector == (0 .. 254) \ {14}

Handled == {32, 33, 44}

Stub == [v \in Vector |->
  CASE v < 32  -> Excep(v)
    [] v = 32  -> intr_timer
    [] v = 33  -> intr_device("handle_keyboard")
    [] v = 44  -> intr_device("handle_mouse")
    [] OTHER   -> <<<<"call", "handle_unhandled">>>> \o Excep(8) ]

(* Mistake: the keyboard gets a trap gate, which leaves interrupts enabled. *)
InterruptGate_but_keyboard(v) == v >= 32 /\ v # 33

InterruptGate(v) == v >= 32

(* The exceptions for which the processor pushes an error code. *)
ErrorVectors == {8, 10, 11, 12, 13, 14, 17}

(* What the processor is told by init_pic: the vector of a line. *)
IrqVector(n) == IF n < 8 THEN 32 + n ELSE 40 + (n - 8)

-----------------------------------------------------------------------------
VARIABLES
  regs,     (* General and segment registers.                              *)
  iflag,    (* IF: are interrupts enabled?                                 *)
  nmi,      (* Are non-maskable interrupts blocked, until the next iret?   *)
  stack,    (* The kernel's stack.                                         *)
  pc,       (* <<"stub", vector, instruction>> or <<"code", name, step>>.  *)
  isr,      (* The lines in service: 0 to 7 of PIC1, 8 to 15 of PIC2.      *)
  frames    (* History: what was interrupted, and with what, oldest first. *)

vars == <<regs, iflag, nmi, stack, pc, isr, frames>>

Register == General \cup Segment

(* The interrupt flag during the boot, init_atkbd and kernel_main. *)
Main == <<"int3", "sti", "cli", "sti", "loop">>

Init ==
  /\ regs = [r \in Register |-> IF r \in Segment THEN KernelData ELSE <<"main", r>>]
  /\ iflag = FALSE /\ nmi = FALSE
  /\ stack = <<<<"main", "magic">>, <<"main", "mbs">>>>
  /\ pc = <<"code", "main", 1>>
  /\ isr = {}
  /\ frames = <<>>

After == [pc EXCEPT ![3] = @ + 1]

(* The processor enters the gate of v, to return to ret. *)
Enter(v, ret) ==
  /\ Len(frames) < MaxDepth
  /\ frames' = Append(frames, [vector |-> v, regs |-> regs, pc |-> ret,
                               iflag |-> iflag, stack |-> stack])
  /\ stack' = stack \o <<<<"flags", iflag>>, <<"selector", 8>>, ret>>
               \o IF v \in ErrorVectors THEN <<<<"error", v>>>> ELSE <<>>
  /\ iflag' = (iflag /\ ~ InterruptGate(v))
  /\ pc' = <<"stub", v, 1>>
  /\ UNCHANGED regs

Controller(n) == IF n < 8 THEN 0 .. 7 ELSE 8 .. 15

(* PIC2 is cascaded into line 2 of PIC1. *)
Lines(n) == IF n < 8 THEN {n} ELSE {2, n}

(* A line is served unless one of the same or a higher priority is. *)
Irq(n) ==
  /\ iflag
  /\ \A m \in Lines(n) : \A i \in isr \cap Controller(m) : i > m
  /\ isr' = isr \cup Lines(n)
  /\ Enter(IrqVector(n), pc)
  /\ UNCHANGED nmi

(* It also ends a hlt. *)
Nmi ==
  /\ ~ nmi
  /\ nmi' = TRUE
  /\ Enter(2, IF pc = <<"code", "halt", 2>> THEN After ELSE pc)
  /\ UNCHANGED isr

AtMain(kinds) == pc[1] = "code" /\ pc[2] = "main" /\ Main[pc[3]] \in kinds

(* A fault returns to the instruction that caused it. *)
Fault(v) ==
  /\ AtMain({"loop"})
  /\ Enter(v, pc)
  /\ UNCHANGED <<nmi, isr>>

Int3 ==
  /\ AtMain({"int3"})
  /\ Enter(3, After)
  /\ UNCHANGED <<nmi, isr>>

SetFlag ==
  /\ AtMain({"sti", "cli"})
  /\ iflag' = (Main[pc[3]] = "sti")
  /\ pc' = After
  /\ UNCHANGED <<regs, nmi, stack, isr, frames>>

-----------------------------------------------------------------------------
(* The instructions of the stubs. *)

Instruction == Stub[pc[2]][pc[3]]

At(kind) == pc[1] = "stub" /\ Instruction[1] = kind

Without(n) == SubSeq(stack, 1, Len(stack) - n)

Write ==
  /\ \/ At("push")  /\ stack' = Append(stack, regs[Instruction[2]])
     \/ At("pushi") /\ stack' = Append(stack, Instruction[2])
     \/ At("drop")  /\ stack' = Without(Instruction[2])
  /\ pc' = After
  /\ UNCHANGED <<regs, iflag, nmi, isr, frames>>

Load ==
  /\ \/ At("lea")  /\ regs' = [regs EXCEPT ![Instruction[3]] = <<"address", Len(stack) - Instruction[2]>>]
     \/ At("load") /\ regs' = [regs EXCEPT ![Instruction[2]] = Instruction[3]]
     \/ At("move") /\ regs' = [regs EXCEPT ![Instruction[3]] = regs[Instruction[2]]]
  /\ pc' = After
  /\ UNCHANGED <<iflag, nmi, stack, isr, frames>>

Exchange ==
  /\ At("exchange")
  /\ LET slot == Len(stack) - Instruction[3]
     IN  /\ regs' = [regs EXCEPT ![Instruction[2]] = stack[slot]]
         /\ stack' = [stack EXCEPT ![slot] = regs[Instruction[2]]]
  /\ pc' = After
  /\ UNCHANGED <<iflag, nmi, isr, frames>>

PopRegister ==
  /\ At("pop")
  /\ regs' = [regs EXCEPT ![Instruction[2]] = Last(stack)]
  /\ stack' = Without(1)
  /\ pc' = After
  /\ UNCHANGED <<iflag, nmi, isr, frames>>

Call ==
  /\ \/ At("call")  /\ pc' = <<"code", Instruction[2], 1>>
     \/ At("callr") /\ pc' = regs[Instruction[2]]
  /\ stack' = Append(stack, After)
  /\ UNCHANGED <<regs, iflag, nmi, isr, frames>>

Iret ==
  /\ At("iret")
  /\ pc' = Last(stack)
  /\ iflag' = (stack[Len(stack) - 2] = <<"flags", TRUE>>)
  /\ stack' = Without(3)
  /\ nmi' = FALSE
  /\ frames' = Front(frames)
  /\ UNCHANGED <<regs, isr>>

-----------------------------------------------------------------------------
(* The handlers.  A C function may change eax, ecx and edx. *)

In(name, step) == pc = <<"code", name, step>>

Clobbered == [r \in Register |-> IF r \in {"eax", "ecx", "edx"} THEN <<"any", r>> ELSE regs[r]]

Highest(lines) == {i \in lines : \A j \in lines : i <= j}

(* Mistake: PIC2 is forgotten. *)
send_EOI_PIC1(n) == isr \ Highest(isr \cap Controller(0))

(* The lines still in service after it. *)
send_EOI(n) ==
  isr \ (Highest(isr \cap Controller(0))
         \cup IF n >= 40 THEN Highest(isr \cap Controller(8)) ELSE {})

Trap ==
  /\ \E h \in TrapHandlers : In(h, 1)
  /\ regs' = Clobbered
  /\ pc' = After
  /\ UNCHANGED <<iflag, nmi, stack, isr, frames>>

Device ==
  /\ \/ In("handle_timer", 1)    /\ isr' = send_EOI(32)
     \/ In("handle_keyboard", 1) /\ isr' = send_EOI(33)
     \/ In("handle_mouse", 1)    /\ isr' = send_EOI(44)
  /\ regs' = Clobbered
  /\ pc' = After
  /\ UNCHANGED <<iflag, nmi, stack, frames>>

Ret ==
  /\ pc[1] = "code" /\ pc[2] \in TrapHandlers \cup {"handle_timer", "handle_keyboard", "handle_mouse"}
  /\ pc[3] = 2
  /\ pc' = Last(stack)
  /\ stack' = Without(1)
  /\ UNCHANGED <<regs, iflag, nmi, isr, frames>>

(* Mistake: it returns, into the stub that happens to follow. *)
handle_unhandled_returns ==
  /\ In("handle_unhandled", 1)
  /\ regs' = Clobbered
  /\ pc' = Last(stack)
  /\ stack' = Without(1)
  /\ UNCHANGED <<iflag, nmi, isr, frames>>

handle_unhandled ==
  /\ In("handle_unhandled", 1)
  /\ regs' = Clobbered
  /\ pc' = <<"code", "halt", 1>>
  /\ stack' = Append(stack, After)
  /\ UNCHANGED <<iflag, nmi, isr, frames>>

(* cli; hlt, which only an interrupt gets beyond; jmp halt. *)
halt ==
  /\ \/ In("halt", 1) /\ pc' = After /\ iflag' = FALSE
     \/ In("halt", 3) /\ pc' = <<"code", "halt", 1>> /\ UNCHANGED iflag
  /\ UNCHANGED <<regs, nmi, stack, isr, frames>>

Processor ==
  \/ Int3 \/ SetFlag \/ Write \/ Load \/ Exchange \/ PopRegister \/ Call \/ Iret
  \/ Trap \/ Device \/ Ret \/ handle_unhandled \/ halt

Next == Processor \/ Nmi \/ (\E n \in Irqs : Irq(n)) \/ (\E v \in Faults : Fault(v))

Spec == Init /\ [][Next]_vars

-----------------------------------------------------------------------------
(* Properties. *)

(* The program counter is in code, and the segment registers always hold the *)
(* kernel's selector: this is why intr_keyboard may restore ds into fs.      *)
TypeOK ==
  /\ pc[1] \in {"stub", "code"}
  /\ \A s \in Segment : regs[s] = KernelData
  /\ iflag \in BOOLEAN /\ nmi \in BOOLEAN
  /\ isr \subseteq 0 .. 15
  /\ Len(frames) <= MaxDepth

(* An interrupt or exception that returns leaves no trace in the program it  *)
(* hit, be that another stub: the stubs of excep.S and int.S restore every   *)
(* register, the flags, the stack and the place, whatever handlers do to     *)
(* eax, ecx and edx, and whatever came in between.                           *)
Transparent ==
  [][ Len(frames') < Len(frames) =>
        LET f == Last(frames)
        IN  /\ regs' = f.regs /\ pc' = f.pc /\ iflag' = f.iflag
            /\ stack' = f.stack ]_vars

(* The handlers of exceptions get what their parameters `uint32_t esp,       *)
(* uint32_t nr` (traps.c) stand for: where the processor pushed the place    *)
(* that is returned to, and its error code, or 0 for an exception without.   *)
HandlerArguments ==
  \A h \in TrapHandlers :
    In(h, 1) => LET f == Last(frames)
                    n == Len(stack)
                IN  /\ stack[n - 1] = <<"address", Len(f.stack) + 3>>
                    /\ stack[n - 2] = IF f.vector \in ErrorVectors THEN <<"error", f.vector>>
                                      ELSE <<"imm", 0>>

(* Device handlers run to completion: no device interrupts one, or the stub  *)
(* around it, even through an exception in between (the gates of traps.c).   *)
(* The keyboard driver and the queues rely on it.                            *)
RunToCompletion ==
  \A i, j \in DOMAIN frames :
    frames[i].vector >= 32 /\ frames[j].vector >= 32 => i = j

(* Whenever interrupts are enabled again, every line has been acknowledged   *)
(* at every controller it went through (send_EOI): one that was not would    *)
(* stay in service for ever, and all lines of lower priority with it.        *)
NoneInService == iflag => isr = {}

(* A device interrupt that nobody handles stops the kernel for good:         *)
(* handle_unhandled never gets back to its stub, which has no end of its own *)
(* and runs on into the one of the double fault.                             *)
HaltIsFinal ==
  [][ \A i \in DOMAIN frames :
        frames[i].vector >= 32 /\ frames[i].vector \notin Handled => i <= Len(frames') ]_vars
=============================================================================
