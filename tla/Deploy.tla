-------------------------------- MODULE Deploy --------------------------------
(***************************************************************************)
(* cacicdeploy: the modules of the list "outros" that the manager asks to  *)
(* be run at a date.                                                       *)
(*                                                                         *)
(* Every minute timerDeploy calls onTimer(), which asks for authorisation, *)
(* downloads each module and starts a thread that runs it; a mutex, taken  *)
(* by the main thread and released by the worker, keeps the next one back. *)
(* The end of a worker is a queued signal for confirmaExecucao(), which    *)
(* confirms, removes the module's file and starts the timer again. Each    *)
(* contact with the manager runs a nested event loop, where the timer and  *)
(* the queued signals are dispatched too: the slots form a stack.          *)
(***************************************************************************)
EXTENDS Integers, Sequences, SequencesExt

CONSTANTS
  N,          \* bound: modules in the list, in its order 1..N
  ComPrazo,   \* the modules with a timeout
  Adiaveis,   \* the modules whose date the manager may put off
  MaxPilha,   \* bound: nested slots
  MaxSinais,  \* bound: ends of workers not yet handled when the timer fires
  Erros       \* downloads may fail

Modulos == 1..N

ASSUME DeployAssumption ==
  /\ N \in Nat \ {0}
  /\ ComPrazo \subseteq Modulos
  /\ Adiaveis \subseteq Modulos
  /\ MaxPilha \in Nat \ {0}
  /\ MaxSinais \in Nat \ {0}
  /\ Erros \in BOOLEAN

VARIABLES
  vencidos,    \* modules whose date has come
  ativo,       \* timerDeploy runs
  pilha,       \* slots of the main thread, the running one last
  fios,        \* workers that have not ended, oldest first
  travado,     \* the mutex
  prazo,       \* this->timeout is not 0
  moduloExec,  \* this->moduloExec, 0 before the first one
  sinais,      \* endExecution() emitted and not yet dispatched
  arquivos,    \* modules whose file is in deploy/
  executados   \* modules that have run

vars == <<vencidos, ativo, pilha, fios, travado, prazo, moduloExec, sinais,
          arquivos, executados>>

-----------------------------------------------------------------------------
\* Points of onTimer(), for the i-th of its n rounds, and of confirmaExecucao().
\* All but "espera" wait in a nested event loop.
Pontos  == {"autoriza", "baixa", "espera", "confirma"}
Quadros == [pc : Pontos, i : 0..N, n : 0..N]
Quadro(pc, i, n) == [pc |-> pc, i |-> i, n |-> n]

Topo       == Last(pilha)
NoTopo(pc) == pilha # <<>> /\ Topo.pc = pc
Retorna    == pilha' = Front(pilha)
Vai(pc, i) == pilha' = Append(Front(pilha), Quadro(pc, i, Topo.n))
Chama(q)   == pilha' = Append(pilha, q)

DespachaEventos == Len(pilha) < MaxPilha /\ ~NoTopo("espera")

Init ==
  /\ vencidos = {}
  /\ ativo = TRUE
  /\ pilha = <<>>
  /\ fios = <<>>
  /\ travado = FALSE
  /\ prazo = FALSE
  /\ moduloExec = 0
  /\ sinais = 0
  /\ arquivos = {}
  /\ executados = {}

Vence(m) ==
  /\ m \notin vencidos
  /\ vencidos' = vencidos \cup {m}
  /\ UNCHANGED <<ativo, pilha, fios, travado, prazo, moduloExec, sinais,
                 arquivos, executados>>

Adia(m) ==
  /\ m \in Adiaveis \cap vencidos
  /\ vencidos' = vencidos \ {m}
  /\ UNCHANGED <<ativo, pilha, fios, travado, prazo, moduloExec, sinais,
                 arquivos, executados>>

-----------------------------------------------------------------------------
(* onTimer().                                                              *)

\* As many rounds as there are modules whose date has come.
OnTimer ==
  /\ ativo
  /\ DespachaEventos
  /\ sinais < MaxSinais
  /\ vencidos # {}
  /\ Chama(Quadro("autoriza", 1, Cardinality(vencidos)))
  /\ UNCHANGED <<vencidos, ativo, fios, travado, prazo, moduloExec, sinais,
                 arquivos, executados>>

\* The round takes its module from the whole list, whatever the answer is.
AutorizaResponde ==
  /\ NoTopo("autoriza")
  /\ IF Topo.i \in arquivos
     THEN Vai("espera", Topo.i) /\ ativo' = FALSE
     ELSE Vai("baixa", Topo.i) /\ UNCHANGED ativo
  /\ UNCHANGED <<vencidos, fios, travado, prazo, moduloExec, sinais, arquivos,
                 executados>>

\* fileDownload() asks a reply it has deleted whether there was an error: its
\* result does not depend on the file. Without success onTimer() ends.
Baixado ==
  /\ NoTopo("baixa")
  /\ arquivos' \in {arquivos \cup {Topo.i}}
                   \cup (IF Erros THEN {arquivos \ {Topo.i}} ELSE {})
  /\ \/ Vai("espera", Topo.i) /\ ativo' = FALSE
     \/ Retorna /\ UNCHANGED ativo
  /\ UNCHANGED <<vencidos, fios, travado, prazo, moduloExec, sinais, executados>>

\* Mutant: the last worker's confirmation is waited for too.
MutEsperaFio == Topo.i = 1 \/ (fios = <<>> /\ sinais = 0)

\* From the second round on the last worker is waited for first.
EsperaFio == Topo.i = 1 \/ fios = <<>>

\* Mutant: a worker is started whether or not the mutex was taken.
MutPegaMutex == TRUE

PegaMutex == ~travado

\* Mutant: one round too many.
MutHaMais == Topo.i <= Topo.n

\* Mutant: one round too few.
MutHaMenos == Topo.i + 1 < Topo.n

HaMais == Topo.i < Topo.n

IniciaFio ==
  /\ NoTopo("espera")
  /\ EsperaFio
  /\ PegaMutex
  /\ travado' = TRUE
  /\ fios' = Append(fios, [m |-> Topo.i, pc |-> "criado"])
  /\ prazo' = (Topo.i \in ComPrazo)
  /\ moduloExec' = Topo.i
  /\ IF HaMais THEN Vai("autoriza", Topo.i + 1) ELSE Retorna
  /\ UNCHANGED <<vencidos, ativo, sinais, arquivos, executados>>

\* tryLock() gives up after the timeout of the module started before.
DesisteDoMutex ==
  /\ NoTopo("espera")
  /\ EsperaFio
  /\ travado
  /\ prazo
  /\ ativo' = TRUE
  /\ Retorna
  /\ UNCHANGED <<vencidos, fios, travado, prazo, moduloExec, sinais, arquivos,
                 executados>>

-----------------------------------------------------------------------------
(* CacicThread::iniciarModulo(), in the worker. Its timeout kills nothing:  *)
(* the process is not the one the timer is tied to.                         *)

FioExecuta(k) ==
  /\ k \in DOMAIN fios
  /\ fios[k].pc = "criado"
  /\ fios[k].m \in arquivos
  /\ fios' = [fios EXCEPT ![k].pc = "executa"]
  /\ executados' = executados \cup {fios[k].m}
  /\ UNCHANGED <<vencidos, ativo, pilha, travado, prazo, moduloExec, sinais,
                 arquivos>>

\* The process ended, or there was no file to run.
FioTermina(k) ==
  /\ k \in DOMAIN fios
  /\ fios[k].pc = "criado" => fios[k].m \notin arquivos
  /\ fios' = RemoveAt(fios, k)
  /\ sinais' = sinais + 1
  /\ travado' = FALSE
  /\ UNCHANGED <<vencidos, ativo, pilha, prazo, moduloExec, arquivos, executados>>

-----------------------------------------------------------------------------
(* confirmaExecucao().                                                     *)

ConfirmaExecucao ==
  /\ DespachaEventos
  /\ sinais > 0
  /\ sinais' = sinais - 1
  /\ Chama(Quadro("confirma", 0, 0))
  /\ UNCHANGED <<vencidos, ativo, fios, travado, prazo, moduloExec, arquivos,
                 executados>>

\* Mutant: the timer is only started again by the answer of a good execution.
MutConfirmado ==
  /\ NoTopo("confirma")
  /\ arquivos' = arquivos \ {moduloExec}
  /\ ativo' = (ativo \/ moduloExec \in arquivos)
  /\ Retorna
  /\ UNCHANGED <<vencidos, fios, travado, prazo, moduloExec, sinais, executados>>

\* Mutant: the end of a module also forgets its timeout, as if no other could
\* have been started since.
MutEsquecePrazo ==
  /\ NoTopo("confirma")
  /\ arquivos' = arquivos \ {moduloExec}
  /\ ativo' = TRUE
  /\ prazo' = FALSE
  /\ Retorna
  /\ UNCHANGED <<vencidos, fios, travado, moduloExec, sinais, executados>>

\* What is removed is the file of the last module started.
Confirmado ==
  /\ NoTopo("confirma")
  /\ arquivos' = arquivos \ {moduloExec}
  /\ ativo' = TRUE
  /\ Retorna
  /\ UNCHANGED <<vencidos, fios, travado, prazo, moduloExec, sinais, executados>>

-----------------------------------------------------------------------------
Passo == AutorizaResponde \/ Baixado \/ IniciaFio \/ DesisteDoMutex \/ Confirmado

Fio == \E k \in DOMAIN fios : FioExecuta(k) \/ FioTermina(k)

Next ==
  \/ \E m \in Modulos : Vence(m) \/ Adia(m)
  \/ OnTimer \/ ConfirmaExecucao \/ Passo
  \/ \E k \in DOMAIN fios : FioExecuta(k) \/ FioTermina(k)

Spec == Init /\ [][Next]_vars

\* A download of m that brings the file and is reported so.
BaixaBem(m) ==
  /\ Baixado
  /\ Topo.i = m /\ m \in arquivos'
  /\ Vai("espera", m)

\* Workers end, requests end at each depth of the stack, queued signals are
\* dispatched, and the timer fires while it is active. A download tried again and
\* again succeeds, and a worker started again and again finds its file.
Fairness ==
  /\ WF_vars(Fio)
  /\ \A m \in Modulos :
       /\ SF_vars(BaixaBem(m))
       /\ SF_vars(\E k \in DOMAIN fios : fios[k].m = m /\ FioExecuta(k))
  /\ \A d \in 1..MaxPilha : SF_vars(Len(pilha) = d /\ Passo)
  /\ SF_vars(ConfirmaExecucao)
  /\ SF_vars(OnTimer)

FairSpec == Spec /\ Fairness
===============================================================================
