------------------------------- MODULE Espelho -------------------------------
(***************************************************************************)
(* What the agent promises about the inventory, with no mechanism: the     *)
(* manager keeps a copy of the machine's inventory that may lag behind,    *)
(* and even go back to an older version, but never shows a version the     *)
(* machine has not had, and is never left behind for ever.                 *)
(***************************************************************************)
EXTENDS Naturals

VARIABLES
  fonte,  \* version of the inventory of the machine
  copia   \* version the manager holds, 0 before the first coleta

Init == fonte = 1 /\ copia = 0

Muda == fonte' = fonte + 1 /\ UNCHANGED copia

Recebe == copia' \in 0..fonte /\ UNCHANGED fonte

Sincroniza == copia # fonte /\ copia' = fonte /\ UNCHANGED fonte

Next == Muda \/ Recebe

\* What the copy may show at all.
Seguro == Init /\ [][Next]_<<fonte, copia>>

\* And that it follows.
Spec == Seguro /\ WF_<<fonte, copia>>(Sincroniza)
==============================================================================
