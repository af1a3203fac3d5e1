----------------------------- MODULE CicloServico -----------------------------
(***************************************************************************)
(* What the service control manager may see of a set of services, with no  *)
(* threads, events or callers: a service is only reported to run after a   *)
(* start, a stop that was reported is never taken back, and the next start *)
(* begins with a process that has ended.                                   *)
(***************************************************************************)
CONSTANT Servicos

VARIABLE estado  \* dwCurrentState of each service

Vai(s, de, para) == /\ estado[s] \in de
                    /\ estado' = [estado EXCEPT ![s] = para]

Init == estado = [s \in Servicos |-> "START_PENDING"]

Comeca(s) == Vai(s, {"STOPPED"}, "START_PENDING")

Anuncia(s) == Vai(s, {"START_PENDING"}, "RUNNING")

Para(s) == Vai(s, {"RUNNING"}, "STOP_PENDING")

\* A process that quits by itself reports no pending stop.
Termina(s) == Vai(s, {"START_PENDING", "RUNNING", "STOP_PENDING"}, "STOPPED")

Next == \E s \in Servicos : Comeca(s) \/ Anuncia(s) \/ Para(s) \/ Termina(s)

Spec == Init /\ [][Next]_estado
===============================================================================
