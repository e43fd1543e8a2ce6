----------------------------- MODULE Interrupts -----------------------------
(***************************************************************************)
(* The processor's interrupts from reset into main: alt_main, alt_irq_init *)
(* and alt_sys_init, the registration of the two handlers, and the         *)
(* dispatcher alt_irq_handler, which may come between any two steps of the *)
(* program while status.PIE is set.                                        *)
(*                                                                         *)
(* Behind it: what a handler does to its device is in JtagUart and Alarms, *)
(* both of which take it that no handler interrupts a critical section or  *)
(* another handler; the redirection of the streams is in Files.            *)
(***************************************************************************)
EXTENDS Integers, Sequences, FiniteSets

CONSTANTS Irq,           \* the lines of the interrupt controller
          TIMER_IRQ, JTAG_UART_IRQ,   \* the lines of the two devices
          Paced          \* lines that rise at most once between two steps of the program

(* What the constants may be. *)
ASSUME InterruptsAssumption ==
  /\ Irq \subseteq Nat /\ IsFiniteSet(Irq) /\ Paced \subseteq Irq
  /\ TIMER_IRQ \in Irq /\ JTAG_UART_IRQ \in Irq /\ TIMER_IRQ # JTAG_UART_IRQ

VARIABLES
  pc,              \* the program's next step
  PIE, ienable,    \* the control registers: status.PIE, ienable
  alt_irq_active,  \* the program's copy of ienable
  handler,         \* of each line in alt_irq: none, half (no context yet), whole
  contexts,        \* the values of alt_irq_disable_all not yet given back
  lines,           \* the lines that are up
  level,           \* program, or where the dispatcher stands
  active, irq,     \* its locals active and i
  rate, started,   \* _alt_tick_rate is set; the timer runs
  watched,         \* the UART's alarm runs: its timeout is not INT_MAX
  device, stdio,   \* the UART is in alt_dev_list; what the streams are on
  risen, overtaken \* Paced lines since the last step; handlers begun while the timer's is up

boot == <<rate, started, watched, device, stdio>>
cpu == <<PIE, ienable, alt_irq_active, handler, contexts>>
interrupts == <<pc, cpu, lines, level, active, irq, boot, risen, overtaken>>

-----------------------------------------------------------------------------
(* alt_iic_isr_register, with alt_irq_enable inside it.                     *)
Register(n) ==
  << <<"disable_all">>, <<"handler", n>>, <<"context", n>>,
     <<"disable_all">>, <<"active", n>>, <<"ienable">>, <<"enable_all">>,
     <<"enable_all">> >>

TimerInit == << <<"rate">>, <<"start">> >> \o Register(TIMER_IRQ)
UartInit == Register(JTAG_UART_IRQ) \o << <<"alarm">>, <<"device">> >>

(* alt_sys_init; the SPI master and the system ID have nothing to do. *)
SysInit == TimerInit \o UartInit

(* alt_main up to main.                                                     *)
Boot == << <<"clear">>, <<"pie">> >> \o SysInit \o << <<"redirect">> >>
(* main goes through the critical sections of the drivers for ever.         *)
MainProgram == Boot \o << <<"disable_all">>, <<"enable_all">> >>
InMain == pc > Len(Boot)

(* A program that was loaded over another one finds lines up and enabled,   *)
(* but a reset has cleared PIE.                                             *)
IrqInit ==
  /\ pc = 1 /\ PIE = FALSE /\ ienable \in SUBSET Irq /\ alt_irq_active = {}
  /\ handler = [n \in Irq |-> "none"] /\ contexts = <<>>
  /\ lines \in SUBSET Irq
  /\ level = "program" /\ active = {} /\ irq = TIMER_IRQ
  /\ rate = FALSE /\ started \in BOOLEAN /\ watched = FALSE
  /\ device = FALSE /\ stdio = "null"
  /\ risen = {} /\ overtaken = 0

ipending == lines \cap ienable
Interrupted == PIE /\ ipending # {}

-----------------------------------------------------------------------------
DisableAll == contexts' = <<PIE>> \o contexts /\ PIE' = FALSE

(* Seeded faults: the interrupts are enabled whatever the context says,     *)
(* they are not enabled again, and the context is kept.                     *)
EnableAllKeeps == contexts' = contexts /\ PIE' = Head(contexts)
EnableAllAnyway == contexts' = Tail(contexts) /\ PIE' = TRUE
EnableAllNever == contexts' = Tail(contexts) /\ PIE' = FALSE
EnableAll == contexts' = Tail(contexts) /\ PIE' = Head(contexts)

(* Seeded fault: the interrupts of an earlier program stay enabled. *)
ClearsNot == ienable
(* altera_nios2_gen2_irq_init. *)
NoneEnabled == {}

(* A step of the program that is about the processor ...                    *)
ProcessorStep(op) ==
  \/ op[1] = "disable_all" /\ DisableAll
                           /\ UNCHANGED <<ienable, alt_irq_active, handler>>
  \/ op[1] = "enable_all"  /\ EnableAll
                           /\ UNCHANGED <<ienable, alt_irq_active, handler>>
  \/ op[1] = "clear"       /\ ienable' = NoneEnabled
                           /\ UNCHANGED <<PIE, alt_irq_active, handler, contexts>>
  \/ op[1] = "pie"         /\ PIE' = TRUE
                           /\ UNCHANGED <<ienable, alt_irq_active, handler, contexts>>
  \/ op[1] = "handler"     /\ handler' = [handler EXCEPT ![op[2]] = "half"]
                           /\ UNCHANGED <<PIE, ienable, alt_irq_active, contexts>>
  \/ op[1] = "context"     /\ handler' = [handler EXCEPT ![op[2]] = "whole"]
                           /\ UNCHANGED <<PIE, ienable, alt_irq_active, contexts>>
  \/ op[1] = "active"      /\ alt_irq_active' = alt_irq_active \cup {op[2]}
                           /\ UNCHANGED <<PIE, ienable, handler, contexts>>
  \/ op[1] = "ienable"     /\ ienable' = alt_irq_active
                           /\ UNCHANGED <<PIE, alt_irq_active, handler, contexts>>

(* ... and one that is about the drivers.                                   *)
DriverStep(op) ==
  \/ op[1] = "rate"     /\ rate' = TRUE
                        /\ UNCHANGED <<started, watched, device, stdio>>
  \/ op[1] = "start"    /\ started' = TRUE
                        /\ UNCHANGED <<rate, watched, device, stdio>>
  \/ op[1] = "alarm"    /\ watched' = rate
                        /\ UNCHANGED <<rate, started, device, stdio>>
  \/ op[1] = "device"   /\ device' = TRUE
                        /\ UNCHANGED <<rate, started, watched, stdio>>
  \/ op[1] = "redirect" /\ stdio' = (IF device THEN "uart" ELSE "null")
                        /\ UNCHANGED <<rate, started, watched, device>>

ProgramStep ==
  /\ level = "program" /\ ~Interrupted
  /\ \/ ProcessorStep(MainProgram[pc]) /\ UNCHANGED boot
     \/ DriverStep(MainProgram[pc]) /\ UNCHANGED cpu
  /\ pc' = IF pc = Len(MainProgram) THEN Len(Boot) + 1 ELSE pc + 1
  /\ risen' = {}
  /\ UNCHANGED <<lines, level, active, irq, overtaken>>

-----------------------------------------------------------------------------
(* alt_irq_handler: the processor clears PIE and keeps the old status.      *)
Enter ==
  /\ level = "program" /\ Interrupted
  /\ DisableAll /\ level' = "first look"
  /\ UNCHANGED <<pc, ienable, alt_irq_active, handler, lines, active, irq, boot, risen, overtaken>>

Leaves == level = "look" /\ ipending = {}

(* The first look is not followed by a test.                                *)
Look ==
  /\ level \in {"first look", "look"} /\ ~Leaves
  /\ active' = ipending /\ level' = "search"
  /\ UNCHANGED <<pc, cpu, lines, irq, boot, risen, overtaken>>

Leave ==
  /\ Leaves /\ EnableAll
  /\ active' = {} /\ level' = "program"
  /\ UNCHANGED <<pc, ienable, alt_irq_active, handler, lines, irq, boot, risen, overtaken>>

Lowest(s) == CHOOSE n \in s : \A m \in s : n <= m

(* The bits of active in turn; without any bit the search has no end.       *)
Search ==
  /\ level = "search" /\ active # {}
  /\ irq' = Lowest(active) /\ level' = "called"
  /\ overtaken' = IF TIMER_IRQ \in lines /\ irq' # TIMER_IRQ /\ overtaken < 2 THEN overtaken + 1
                  ELSE overtaken
  /\ UNCHANGED <<pc, cpu, lines, active, boot, risen>>

(* altera_avalon_jtag_uart_irq, as far as the dispatcher sees it: it takes  *)
(* what has come and its line goes down.                                    *)
UartHandler ==
  /\ level = "called" /\ irq = JTAG_UART_IRQ
  /\ lines' = lines \ {JTAG_UART_IRQ} /\ level' = "look"
  /\ UNCHANGED <<pc, cpu, active, irq, boot, risen, overtaken>>

Cleared == lines \ {TIMER_IRQ}

(* alt_avalon_timer_sc_irq: clear, then alt_tick between the two calls.     *)
TimerHandler ==
  /\ level = "called" /\ irq = TIMER_IRQ
  /\ lines' = Cleared /\ overtaken' = 0
  /\ DisableAll /\ level' = "tick"
  /\ UNCHANGED <<pc, ienable, alt_irq_active, handler, active, irq, boot, risen>>

TimerReturns ==
  /\ level = "tick" /\ EnableAll /\ level' = "look"
  /\ UNCHANGED <<pc, ienable, alt_irq_active, handler, lines, active, irq, boot, risen, overtaken>>

(* A device raises its line, also while the dispatcher runs.                *)
Raise ==
  /\ \E n \in Irq \ (lines \cup risen) :
       /\ n = TIMER_IRQ => started
       /\ lines' = lines \cup {n}
       /\ risen' = risen \cup ({n} \cap Paced)
  /\ UNCHANGED <<pc, cpu, level, active, irq, boot, overtaken>>

Dispatch == Enter \/ Look \/ Leave \/ Search \/ UartHandler \/ TimerHandler \/ TimerReturns

IrqNext == ProgramStep \/ Dispatch \/ Raise

(* The processor does not stop; a device need not do anything.              *)
IrqSpec == IrqInit /\ [][IrqNext]_interrupts /\ WF_interrupts(ProgramStep) /\ WF_interrupts(Dispatch)

-----------------------------------------------------------------------------
IrqTypeOK ==
  /\ pc \in 1 .. Len(MainProgram) /\ PIE \in BOOLEAN
  /\ ienable \subseteq Irq /\ alt_irq_active \subseteq Irq
  /\ handler \in [Irq -> {"none", "half", "whole"}]
  /\ contexts \in Seq(BOOLEAN) /\ Len(contexts) <= 2 /\ lines \subseteq Irq
  /\ level \in {"program", "first look", "look", "search", "called", "tick"}
  /\ active \subseteq Irq /\ irq \in Irq
  /\ rate \in BOOLEAN /\ started \in BOOLEAN /\ watched \in BOOLEAN /\ device \in BOOLEAN
  /\ stdio \in {"null", "uart"}
  /\ risen \subseteq Paced /\ overtaken \in 0 .. 2

(* alt_irq_handler.c:141: the search has no end of its own: whenever it     *)
(* starts some bit is set, although the first look is never tested.         *)
FindsBit == level = "search" => active # {}

(* alt_iic_isr_register.c:85: the dispatcher calls only what is in the      *)
(* table, handler and context, in whatever state the last program left the  *)
(* controller and whenever a line rises.                                    *)
HandlerThere == level = "called" => handler[irq] = "whole" /\ irq \in {TIMER_IRQ, JTAG_UART_IRQ}

(* alt_irq.h:143: a section that disabled the interrupts stays whole until  *)
(* its own alt_irq_enable_all, however deep the calls in it nest, and no    *)
(* handler is interrupted.                                                  *)
SectionsWhole == (contexts # <<>> \/ level # "program") => ~PIE

(* alt_sys_init.c:98: the UART's alarm needs the rate of the system clock   *)
(* and the streams need the UART: main starts with both.                    *)
BootedWell == InMain => watched /\ stdio = "uart"

(* alt_irq_handler.c:128: the pending lines are read as late as possible:   *)
(* the timer waits for one other handler at most.                           *)
TimerIsNext == overtaken <= 1

(* alt_irq_handler.c:157: a line that rises is served, if need be by the    *)
(* dispatch that is already running.                                        *)
Served ==
  \A n \in {TIMER_IRQ, JTAG_UART_IRQ} : (n \in lines /\ handler[n] = "whole") ~> (n \notin lines)

(* alt_main.c:154: the boot is not held up by interrupts from its second    *)
(* step on, and main is reached.                                            *)
ReachesMain == <>InMain
=============================================================================
