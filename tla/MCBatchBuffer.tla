--------------------------- MODULE MCBatchBuffer ---------------------------
(***************************************************************************)
(* BatchBuffer for TLC: the main loop, a UART and a CAN interrupt, batches *)
(* of two cells, fields of one and of two cells, three fields of the CAN   *)
(* interrupt and two of the others, and two sessions.  The USB gate lets   *)
(* through whatever the other one does.                                    *)
(***************************************************************************)
EXTENDS BatchBuffer

FieldSizeDef == [c \in Context |-> IF c = 1 THEN 2 ELSE 1]
MaxFieldsDef == [c \in Context |-> IF c = 2 THEN 3 ELSE 2]
=============================================================================
