-------------------------------- MODULE Coleta --------------------------------
(***************************************************************************)
(* How a change of the machine's inventory reaches the manager (gerente).  *)
(*                                                                         *)
(* Four parties share coleta.json, coletaDiff.json and two values of the   *)
(* system-wide registry (enviaColeta, dataColetaEnviada):                  *)
(*   - cacic-service, whose only thread runs the timer slot mslot() and    *)
(*     the slot enviarColeta() that the user interface triggers;           *)
(*   - gercols, the collector, a child process the service waits for;      *)
(*   - mapacacic, the patrimony form, which Linux starts detached;         *)
(*   - the manager, reached by HTTP POST.                                  *)
(*                                                                         *)
(* CacicComm::comm() waits in a nested QEventLoop, so the service's thread *)
(* dispatches other slots while a request is pending: the pending calls    *)
(* form a stack of frames, pilha, and only its top frame can resume.       *)
(***************************************************************************)
EXTENDS Integers, Sequences

CONSTANTS
  MaxVersao,     \* bound: the inventory is one of the versions 1..MaxVersao
  PrazoReenvio,  \* days after which an unchanged coleta is sent again (7)
  MaxPilha,      \* bound: nested slots on the service's thread
  MaxQuedas,     \* bound: crashes and restarts
  Ambiente       \* what the environment may do, a subset of Perturbacoes

Perturbacoes == {"erro", "timeout", "queda", "mapa", "reentrada"}

ASSUME ColetaAssumption ==
  /\ MaxVersao \in Nat \ {0}
  /\ PrazoReenvio \in Nat \ {0}
  /\ MaxPilha \in Nat \ {0}
  /\ MaxQuedas \in Nat
  /\ Ambiente \subseteq Perturbacoes

VARIABLES
  inventario,   \* version of the machine's hardware and software
  coleta,       \* coleta.json
  temDiff,      \* coletaDiff.json exists
  enviaColeta,  \* registry: there is something new to send
  data,         \* registry: age in days of dataColetaEnviada, or SemData
  forcar,       \* getConfig.json: nu_forca_coleta
  gercols,      \* the collector process
  mapa,         \* the patrimony process
  pilha,        \* frames of the service's thread, the running one last
  gerente,      \* the last coleta the manager has stored
  emTransito,   \* requests the service gave up on, the manager may not have
  quedas        \* crashes so far

vars == <<inventario, coleta, temDiff, enviaColeta, data, forcar, gercols,
          mapa, pilha, gerente, emTransito, quedas>>

arquivos == <<coleta, temDiff, enviaColeta, data, forcar>>
remoto   == <<gerente, emTransito>>

-----------------------------------------------------------------------------
(* Data.  A coleta is the version of the inventory it was made from, 0 when *)
(* the hardware and software keys are missing, and whether it carries the   *)
(* patrimonio key.  The empty object stands for a file that is not there.   *)

Versoes   == 1..MaxVersao
Coletas   == [inv : 0..MaxVersao, pat : BOOLEAN]
SemColeta == [inv |-> 0, pat |-> FALSE]
SemData   == -1
Modulos   == {"gercols", "mapacacic"}
Ramos     == {"nenhum", "forcada", "diferente", "vencida"}

\* Points where the service's thread can be. In the last four it is inside a
\* nested event loop and dispatches other slots.
Pontos == {"modulos", "esperaGercols", "gerente", "getMapa", "coleta", "diff"}
Espera == {"gerente", "getMapa", "coleta", "diff"}

Quadros == [pc : Pontos, resta : SUBSET Modulos, ramo : Ramos,
            dado : Coletas, entregue : BOOLEAN]

QuadroCiclo(pc, resta) ==
  [pc |-> pc, resta |-> resta, ramo |-> "nenhum", dado |-> SemColeta,
   entregue |-> FALSE]

QuadroEnvio(ramo) ==
  [pc |-> "coleta", resta |-> {}, ramo |-> ramo, dado |-> coleta,
   entregue |-> FALSE]

Topo            == pilha[Len(pilha)]
NoTopo(pc)      == pilha # <<>> /\ Topo.pc = pc
TrocaTopo(q)    == pilha' = [pilha EXCEPT ![Len(pilha)] = q]
SemTopo         == SubSeq(pilha, 1, Len(pilha) - 1)
Retorna         == pilha' = SemTopo
Empilha(q)      == pilha' = Append(pilha, q)

GercolsParado == [pc |-> "parado", nova |-> 0, velha |-> SemColeta]
MapaParado    == [pc |-> "parado", lida |-> SemColeta]

\* Mutant: slots are also dispatched while the slot waits for the collector.
MutDespachaEventos == Len(pilha) < MaxPilha

\* The event loop is running: idle, or nested in a comm() of the top frame.
DespachaEventos ==
  /\ Len(pilha) < MaxPilha
  /\ pilha # <<>> => Topo.pc \in Espera

Init ==
  /\ inventario = 1
  /\ coleta = SemColeta
  /\ temDiff = FALSE
  /\ enviaColeta = FALSE
  /\ data = SemData
  /\ forcar = FALSE
  /\ gercols = GercolsParado
  /\ mapa = MapaParado
  /\ pilha = <<>>
  /\ gerente = SemColeta
  /\ emTransito = {}
  /\ quedas = 0

-----------------------------------------------------------------------------
(* The machine.                                                            *)

MudaInventario ==
  /\ inventario < MaxVersao
  /\ inventario' = inventario + 1
  /\ UNCHANGED <<arquivos, gercols, mapa, pilha, remoto, quedas>>

PassaDia ==
  /\ data \in 0..(PrazoReenvio - 1)
  /\ data' = data + 1
  /\ UNCHANGED <<inventario, coleta, temDiff, enviaColeta, forcar, gercols,
                 mapa, pilha, remoto, quedas>>

-----------------------------------------------------------------------------
(* gercols: collect, read the old coleta, write the new one, compare.      *)

GercolsLe ==
  /\ gercols.pc = "coletado"
  /\ gercols' = [gercols EXCEPT !.pc = "lido", !.velha = coleta]
  /\ UNCHANGED <<inventario, arquivos, mapa, pilha, remoto, quedas>>

GercolsGrava ==
  /\ gercols.pc = "lido"
  /\ gercols' = [gercols EXCEPT !.pc = "gravado"]
  /\ coleta' = [inv |-> gercols.nova, pat |-> FALSE]
  /\ UNCHANGED <<inventario, temDiff, enviaColeta, data, forcar, mapa, pilha,
                 remoto, quedas>>

\* A top-level key present in only one of the two objects is skipped, so a
\* coleta that only holds patrimonio differs from nothing.
verificaColeta(velha, nova) == velha.inv # 0 /\ velha.inv # nova

Difere == verificaColeta(gercols.velha, gercols.nova)

\* The difference is written to coletaDiff.json, then the mark to the registry.
GercolsCompara ==
  /\ gercols.pc = "gravado"
  /\ gercols' = [gercols EXCEPT !.pc = "comparado"]
  /\ temDiff' = (temDiff \/ Difere)
  /\ UNCHANGED <<inventario, coleta, enviaColeta, data, forcar, mapa, pilha,
                 remoto, quedas>>

GercolsRegistra ==
  /\ gercols.pc = "comparado"
  /\ gercols' = GercolsParado
  /\ enviaColeta' = (gercols.velha = SemColeta \/ Difere)
  /\ UNCHANGED <<inventario, coleta, temDiff, data, forcar, mapa, pilha,
                 remoto, quedas>>

Gercols == GercolsLe \/ GercolsGrava \/ GercolsCompara \/ GercolsRegistra

-----------------------------------------------------------------------------
(* mapacacic: the user fills the form in, salvarInfo() rewrites the coleta. *)

MapaLe ==
  /\ mapa.pc = "aberto"
  /\ mapa' = [pc |-> "lido", lida |-> coleta]
  /\ UNCHANGED <<inventario, arquivos, gercols, pilha, remoto, quedas>>

MapaGrava ==
  /\ mapa.pc = "lido"
  /\ mapa' = [mapa EXCEPT !.pc = "gravado"]
  /\ coleta' = [mapa.lida EXCEPT !.pat = TRUE]
  /\ UNCHANGED <<inventario, temDiff, enviaColeta, data, forcar, gercols,
                 pilha, remoto, quedas>>

MapaRegistra ==
  /\ mapa.pc = "gravado"
  /\ mapa' = MapaParado
  /\ enviaColeta' = TRUE
  /\ UNCHANGED <<inventario, coleta, temDiff, data, forcar, gercols, pilha,
                 remoto, quedas>>

\* The configuration it reads does not ask for the form, or the user's session
\* ends: the process leaves without saving (the form itself refuses to close).
MapaFecha ==
  /\ mapa.pc = "aberto"
  /\ mapa' = MapaParado
  /\ UNCHANGED <<inventario, arquivos, gercols, pilha, remoto, quedas>>

Mapa == MapaLe \/ MapaGrava \/ MapaRegistra \/ MapaFecha

-----------------------------------------------------------------------------
(* The timer slot, mslot().                                                *)

\* The timer can also fire while another slot waits in a nested event loop.
Mslot ==
  /\ DespachaEventos
  /\ pilha # <<>> => "reentrada" \in Ambiente
  /\ Empilha(QuadroCiclo("gerente", {}))
  /\ UNCHANGED <<inventario, arquivos, gercols, mapa, remoto, quedas>>

\* Login, getTest, getConfig and the check of the modules went through.
ComunicaOk ==
  /\ NoTopo("gerente")
  /\ forcar' \in BOOLEAN
  /\ TrocaTopo(QuadroCiclo("modulos", Modulos))
  /\ UNCHANGED <<inventario, coleta, temDiff, enviaColeta, data, gercols,
                 mapa, remoto, quedas>>

\* comm() reports a timeout as an empty success: the old configuration stays.
ComunicaTimeout ==
  /\ "timeout" \in Ambiente
  /\ NoTopo("gerente")
  /\ TrocaTopo(QuadroCiclo("modulos", Modulos))
  /\ UNCHANGED <<inventario, arquivos, gercols, mapa, remoto, quedas>>

ComunicaErro ==
  /\ "erro" \in Ambiente
  /\ NoTopo("gerente")
  /\ Retorna
  /\ UNCHANGED <<inventario, arquivos, gercols, mapa, remoto, quedas>>

\* Mutant: a collector that collected nothing goes on all the same.
MutExecutaGercols ==
  /\ NoTopo("modulos")
  /\ "gercols" \in Topo.resta
  /\ gercols.pc = "parado"
  /\ gercols' = [GercolsParado EXCEPT !.pc = "coletado"]
  /\ TrocaTopo(QuadroCiclo("esperaGercols", Topo.resta \ {"gercols"}))
  /\ UNCHANGED <<inventario, arquivos, mapa, remoto, quedas>>

\* iniciarThread(): run gercols and wait for it. A collector left over from a
\* service that was killed is not started twice.
ExecutaGercols ==
  /\ NoTopo("modulos")
  /\ "gercols" \in Topo.resta
  /\ gercols.pc = "parado"
  /\ gercols' = [GercolsParado EXCEPT !.pc = "coletado", !.nova = inventario]
  /\ TrocaTopo(QuadroCiclo("esperaGercols", Topo.resta \ {"gercols"}))
  /\ UNCHANGED <<inventario, arquivos, mapa, remoto, quedas>>

GercolsTerminou ==
  /\ NoTopo("esperaGercols")
  /\ gercols.pc = "parado"
  /\ TrocaTopo(QuadroCiclo("modulos", Topo.resta))
  /\ UNCHANGED <<inventario, arquivos, gercols, mapa, remoto, quedas>>

\* The module is not on disk, or its process is already running.
PulaGercols ==
  /\ NoTopo("modulos")
  /\ "gercols" \in Topo.resta
  /\ "erro" \in Ambiente \/ gercols.pc # "parado"
  /\ TrocaTopo(QuadroCiclo("modulos", Topo.resta \ {"gercols"}))
  /\ UNCHANGED <<inventario, arquivos, gercols, mapa, remoto, quedas>>

ConsultaMapa ==
  /\ NoTopo("modulos")
  /\ "mapacacic" \in Topo.resta
  /\ TrocaTopo(QuadroCiclo("getMapa", Topo.resta \ {"mapacacic"}))
  /\ UNCHANGED <<inventario, arquivos, gercols, mapa, remoto, quedas>>

\* The manager may ask for the patrimony form; one already open is kept.
GetMapaResponde ==
  /\ NoTopo("getMapa")
  /\ mapa' \in {mapa} \cup
               (IF "mapa" \in Ambiente /\ mapa.pc = "parado"
                THEN {[MapaParado EXCEPT !.pc = "aberto"]} ELSE {})
  /\ TrocaTopo(QuadroCiclo("modulos", Topo.resta))
  /\ UNCHANGED <<inventario, arquivos, gercols, remoto, quedas>>

-----------------------------------------------------------------------------
(* enviarColeta().                                                         *)

\* Mutant: the date is looked at before enviaColeta.
MutRamoDataPrimeiro ==
  IF coleta = SemColeta THEN "nenhum"
  ELSE IF forcar THEN "forcada"
  ELSE IF data = SemData \/ data >= PrazoReenvio THEN "vencida"
  ELSE "nenhum"

\* Mutant: without a difference nothing is ever sent again.
MutRamoSemPrazo ==
  IF coleta = SemColeta THEN "nenhum"
  ELSE IF forcar THEN "forcada"
  ELSE IF enviaColeta THEN "diferente"
  ELSE IF data = SemData THEN "vencida"
  ELSE "nenhum"

\* Which branch of enviarColeta() is taken, "nenhum" when nothing is sent.
RamoDoEnvio ==
  IF coleta = SemColeta THEN "nenhum"
  ELSE IF forcar THEN "forcada"
  ELSE IF enviaColeta THEN "diferente"
  ELSE IF data = SemData \/ data >= PrazoReenvio THEN "vencida"
  ELSE "nenhum"

\* The call made above the frames abaixo. realizarEnviodeColeta() gives up
\* without a request when the url or the computer's data cannot be read.
EnviarColeta(abaixo) ==
  \/ /\ RamoDoEnvio # "nenhum"
     /\ pilha' = Append(abaixo, QuadroEnvio(RamoDoEnvio))
  \/ /\ RamoDoEnvio = "nenhum" \/ "erro" \in Ambiente
     /\ pilha' = abaixo

\* Every module was run: the cycle ends by sending the coleta.
EnviaNoCiclo ==
  /\ NoTopo("modulos")
  /\ Topo.resta = {}
  /\ EnviarColeta(SemTopo)
  /\ UNCHANGED <<inventario, arquivos, gercols, mapa, remoto, quedas>>

\* FORCAR from the user interface, whenever the event loop runs.
ForcarColeta ==
  /\ DespachaEventos
  /\ EnviarColeta(pilha)
  /\ UNCHANGED <<inventario, arquivos, gercols, mapa, remoto, quedas>>

\* The manager stores the coleta of a pending request, not always in the
\* order in which they were posted.
GerenteProcessa(i) ==
  /\ i \in DOMAIN pilha
  /\ pilha[i].pc = "coleta"
  /\ ~pilha[i].entregue
  /\ gerente' = pilha[i].dado
  /\ pilha' = [pilha EXCEPT ![i].entregue = TRUE]
  /\ UNCHANGED <<inventario, arquivos, gercols, mapa, emTransito, quedas>>

\* What realizarEnviodeColeta() and enviarColeta() do when comm() returned ok:
\* only the branch of a changed coleta goes on to send coletaDiff.json, and
\* without that file it returns before the date is registered.
AposEnvio ==
  /\ enviaColeta' = FALSE
  /\ IF Topo.ramo = "diferente"
     THEN /\ UNCHANGED data
          /\ IF temDiff
             THEN TrocaTopo([Topo EXCEPT !.pc = "diff", !.entregue = FALSE])
             ELSE Retorna
     ELSE data' = 0 /\ Retorna
  /\ UNCHANGED <<inventario, coleta, temDiff, forcar, gercols, mapa, gerente,
                 quedas>>

EnvioOk ==
  /\ NoTopo("coleta")
  /\ Topo.entregue
  /\ AposEnvio
  /\ UNCHANGED emTransito

\* Ten seconds without an answer: reply->error() is still NoError and comm()
\* reports success. The manager may yet store the request, or never get it.
EnvioTimeout ==
  /\ "timeout" \in Ambiente
  /\ NoTopo("coleta")
  /\ AposEnvio
  /\ emTransito' = IF Topo.entregue THEN emTransito
                   ELSE emTransito \cup {Topo.dado}

\* Mutant: the date is registered although the request failed.
MutEnvioErro ==
  /\ "erro" \in Ambiente
  /\ NoTopo("coleta")
  /\ Retorna
  /\ data' = 0
  /\ UNCHANGED <<inventario, coleta, temDiff, enviaColeta, forcar, gercols,
                 mapa, remoto, quedas>>

\* The request failed, or the manager stored it and the answer was lost.
EnvioErro ==
  /\ "erro" \in Ambiente
  /\ NoTopo("coleta")
  /\ Retorna
  /\ UNCHANGED <<inventario, arquivos, gercols, mapa, remoto, quedas>>

\* The answer to coletaDiff.json, an error included: the manager may not have
\* the route.
DiffResponde ==
  /\ NoTopo("diff")
  /\ data' \in {0} \cup (IF "erro" \in Ambiente THEN {data} ELSE {})
  /\ Retorna
  /\ UNCHANGED <<inventario, coleta, temDiff, enviaColeta, forcar, gercols,
                 mapa, remoto, quedas>>

AtrasadaChega(c) ==
  /\ c \in emTransito
  /\ gerente' = c
  /\ emTransito' = emTransito \ {c}
  /\ UNCHANGED <<inventario, arquivos, gercols, mapa, pilha, quedas>>

AtrasadaSePerde(c) ==
  /\ c \in emTransito
  /\ emTransito' = emTransito \ {c}
  /\ UNCHANGED <<inventario, arquivos, gercols, mapa, pilha, gerente, quedas>>

-----------------------------------------------------------------------------
(* Crashes.                                                                *)

Pendentes ==
  {pilha[i].dado : i \in {j \in DOMAIN pilha : pilha[j].pc = "coleta"
                                                /\ ~pilha[j].entregue}}

\* The service alone is killed (an update, a failure) and started again.
ServicoReinicia ==
  /\ "queda" \in Ambiente
  /\ quedas < MaxQuedas
  /\ pilha # <<>>
  /\ quedas' = quedas + 1
  /\ pilha' = <<>>
  /\ emTransito' = emTransito \cup Pendentes
  /\ UNCHANGED <<inventario, arquivos, gercols, mapa, gerente>>

\* The machine goes down: every process stops where it is.
MaquinaReinicia ==
  /\ "queda" \in Ambiente
  /\ quedas < MaxQuedas
  /\ quedas' = quedas + 1
  /\ pilha' = <<>>
  /\ emTransito' = emTransito \cup Pendentes
  /\ gercols' = GercolsParado
  /\ mapa' = MapaParado
  /\ UNCHANGED <<inventario, arquivos, gerente>>

-----------------------------------------------------------------------------

Servico ==
  \/ Mslot \/ ComunicaOk \/ ComunicaTimeout \/ ComunicaErro
  \/ ExecutaGercols \/ GercolsTerminou \/ PulaGercols
  \/ ConsultaMapa \/ GetMapaResponde
  \/ EnviaNoCiclo \/ ForcarColeta
  \/ EnvioOk \/ EnvioTimeout \/ EnvioErro \/ DiffResponde

Next ==
  \/ MudaInventario \/ PassaDia
  \/ Gercols \/ Mapa \/ Servico
  \/ \E i \in 1..MaxPilha : GerenteProcessa(i)
  \/ \E c \in emTransito : AtrasadaChega(c) \/ AtrasadaSePerde(c)
  \/ ServicoReinicia \/ MaquinaReinicia

Spec == Init /\ [][Next]_vars

\* A step of the frame on top, whatever the outcome of its request.
Passo ==
  \/ ComunicaOk \/ ComunicaTimeout \/ ComunicaErro
  \/ ExecutaGercols \/ GercolsTerminou \/ PulaGercols
  \/ ConsultaMapa \/ GetMapaResponde \/ EnviaNoCiclo
  \/ EnvioOk \/ EnvioTimeout \/ EnvioErro \/ DiffResponde

\* Processes run, days pass, the timer fires, and no call stays pending for
\* ever: strong fairness at each depth of the stack, since a nested slot hides
\* the frame below it. A machine that asks for ever is answered for ever, and
\* the module is on disk for ever again: strong fairness of the good outcome of
\* each request, since an error can end it. Neither the user (FORCAR, the form)
\* nor any failure is fair.
Fairness ==
  /\ WF_vars(PassaDia)
  /\ WF_vars(Gercols)
  /\ WF_vars(MapaGrava \/ MapaRegistra)
  /\ WF_vars(\E c \in emTransito : AtrasadaChega(c) \/ AtrasadaSePerde(c))
  /\ SF_vars(pilha = <<>> /\ Mslot)
  /\ \A k \in 1..MaxPilha : SF_vars(Len(pilha) = k /\ Passo)
  /\ SF_vars(ComunicaOk)
  /\ SF_vars(ExecutaGercols)
  /\ SF_vars(EnviaNoCiclo /\ pilha' # SemTopo)
  /\ SF_vars(\E i \in 1..MaxPilha : GerenteProcessa(i))

FairSpec == Spec /\ Fairness
===============================================================================
