------------------------------ MODULE DeployProps ------------------------------
(* What the execution of the manager's modules must keep.                    *)
EXTENDS Deploy

\* Slots, workers and files hold what the code stores in them; a slot that runs
\* onTimer() is at one of its rounds.
TypeOK ==
  /\ vencidos \subseteq Modulos
  /\ ativo \in BOOLEAN /\ travado \in BOOLEAN /\ prazo \in BOOLEAN
  /\ pilha \in Seq(Quadros)
  /\ Len(pilha) <= MaxPilha
  /\ \A j \in DOMAIN pilha : pilha[j].pc # "confirma" => pilha[j].i \in 1..pilha[j].n
  /\ fios \in Seq([m : Modulos, pc : {"criado", "executa"}])
  /\ moduloExec \in 0..N
  /\ sinais \in Nat
  /\ arquivos \subseteq Modulos /\ executados \subseteq Modulos

\* The manager's modules run one at a time, and the mutex tells whether one
\* runs, although the timer can fire again while a slot waits for a download.
UmPorVez == Len(fios) = (IF travado THEN 1 ELSE 0)

\* A stopped timer is owed a start: some slot is at work, a worker runs or its
\* end waits to be handled.
TemporizadorDevido == ~ativo => pilha # <<>> \/ fios # <<>> \/ sinais > 0

\* While a worker holds the mutex, what cacicdeploy remembers of the module in
\* execution is that worker's: its timeout, with which the slots of any depth wait
\* for the mutex, so that they never give up a module that has none nor wait for
\* ever for one that has; and its name, although a slot may have been at work on
\* another module since.
PrazoDoDono ==
  travado => /\ moduloExec = fios[1].m
             /\ prazo = (fios[1].m \in ComPrazo)

-----------------------------------------------------------------------------
(* The inductive invariant behind UmPorVez and TemporizadorDevido.           *)

\* A slot that can return without starting the timer is not the one that owes
\* the start: the debt is of a slot about to start a worker or of one that
\* handles the end of a worker.
Devedor(q) == q.pc \in {"espera", "confirma"}

Divida ==
  ~ativo => \/ \E j \in DOMAIN pilha : Devedor(pilha[j])
            \/ fios # <<>>
            \/ sinais > 0

IndDeploy == TypeOK /\ UmPorVez /\ Divida

-----------------------------------------------------------------------------
\* The timer always comes back, whatever fails: the list is looked at again and
\* again.
TemporizadorVolta == []<>ativo

\* When all the modules are due, and stay so, each of them is run, although a slot
\* can start a module while the end of another waits to be handled, which removes
\* the file of the last one started.
VencidosRodam == <>[](vencidos = Modulos) => <>(executados = Modulos)
===============================================================================
