---------------------------- MODULE MCStepCounter ----------------------------
(* Jobs of up to MaxTotal steps, on the counter width of the firmware. *)
EXTENDS StepCounter, AsmRoutines

CONSTANTS MaxTotal, MaxAdd

MCW      == 16777216
MCTotals == 1 .. MaxTotal
MCAdds   == 1 .. MaxAdd

(* The chip of the firmware has 128 KiB of flash and avrtest is built      *)
(* without logging.                                                        *)
NoFlash == [a \in {} |-> 0]

(* asm.h, asm.c and main.c: on the machine, in every state of a job, the   *)
(* assembler texts compute what their C forms or comments say and leave    *)
(* everything else as it was.                                              *)
RoutinesCompute ==
  /\ AdvanceComputes(ctr, add, total)
  /\ \A dir \in {1, -1} : PositionComputes(ctr, dir)
  /\ TenComputes(8 * ctr + irqs)
  /\ MulComputes(ctr % 65536, (ctr * 13 + taken) % 32768)
  /\ \A simulated \in BOOLEAN : DetectionComputes(simulated)
==============================================================================
