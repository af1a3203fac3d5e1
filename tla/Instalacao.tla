------------------------------ MODULE Instalacao ------------------------------
(***************************************************************************)
(* The installers of cacic-service on Windows, together with chksys.       *)
(*                                                                         *)
(* installcacic-standalone (sa) runs at each logon, install-cacic (ic) when *)
(* an administrator installs, updates or uninstalls, and chksys at its     *)
(* timer. With no lock between them they stop, replace, register, start    *)
(* and delete the same service, and the service puts its own new versions  *)
(* in temp/. What keeps them apart is Windows: a file that runs cannot be  *)
(* written or removed, one that is open cannot be removed or moved.        *)
(***************************************************************************)
EXTENDS Naturals

CONSTANTS
  MaxPedidos, \* bound: runs of install-cacic
  MaxQuedas   \* bound: restarts of the machine

ASSUME InstalacaoAssumption == MaxPedidos \in Nat /\ MaxQuedas \in Nat

VARIABLES
  registro, \* of CacicDaemon in the control manager
  servico,  \* its process
  bin,      \* cacic-service.exe in the main folder,
  temp,     \*   in temp/, where the service leaves its new version,
  icsa,     \*   and in icsa/, the download of sa
  config,   \* getConfig.json exists
  vigia,    \* chksys: its point of onTimerCheckService(), and the stop asked of it
  sa,       \* point of InstallCacicSA::verificaServico()
  ic,       \* install-cacic: its point, whether fileService is open, and whether
            \*   uninstall() was called by install()
  pedidos, quedas

arquivos == <<bin, temp, icsa, config>>
vars == <<registro, servico, arquivos, vigia, sa, ic, pedidos, quedas>>

-----------------------------------------------------------------------------
\* baixando: being written; parcial: left half written.
Inteiros  == {"velho", "novo"}
Conteudos == {"nenhum", "baixando", "parcial"} \cup Inteiros
Existe(a) == a # "nenhum"

PontosVigia == {"ausente", "fora", "espera", "modulos", "remove", "copia", "limpa",
                "confere", "baixa", "baixando", "registra", "inicia"}
PontosSa    == {"fora", "baixa", "baixando", "confere", "para", "apaga", "apagaSem",
                "move", "moveSem", "registra", "inicia"}
PontosIc    == {"fora", "verifica", "paraVigia", "baixa", "baixando", "conclui",
                "registra", "inicia", "para", "remove", "copia", "limpa", "relanca",
                "desinstala", "desregistra", "apaga", "apagaBin"}

Em(pc)       == ic.pc = pc
VaiIc(pc)    == ic' = [ic EXCEPT !.pc = pc]
ForaIc       == [pc |-> "fora", lendo |-> FALSE, desfaz |-> FALSE]
VaiSa(pc)    == sa' = pc
VaiVigia(pc) == vigia' = [vigia EXCEPT !.pc = pc]

Ativo     == servico \in {"rodando", "parando"}
Gravando  == Em("baixando") \/ vigia.pc = "baixando"
Removivel == ~Ativo /\ ~Gravando /\ ~ic.lendo

\* A machine without the agent, or with an old version at work.
Init ==
  /\ \/ /\ registro = "nao" /\ servico = "parado" /\ bin = "nenhum"
        /\ config = FALSE /\ vigia = [pc |-> "ausente", fim |-> FALSE]
     \/ /\ registro = "sim" /\ servico = "rodando" /\ bin = "velho"
        /\ config = TRUE /\ vigia = [pc |-> "espera", fim |-> FALSE]
  /\ temp = "nenhum" /\ icsa = "nenhum"
  /\ sa = "fora"
  /\ ic = ForaIc
  /\ pedidos = 0 /\ quedas = 0

-----------------------------------------------------------------------------
(* ServiceController, as module Parada has it in detail.                   *)

\* The process ends, and what it was writing stays as it is. A service marked for
\* deletion goes with it.
Termina ==
  /\ servico' = "parado"
  /\ registro' = IF registro = "marcado" THEN "nao" ELSE registro
  /\ temp' = IF temp = "baixando" THEN "parcial" ELSE temp

\* stop(), if isRunning(): in time, or not.
ParaOk      == servico = "rodando" /\ Termina
ParaDemora  == servico = "rodando" /\ servico' = "parando" /\ UNCHANGED <<registro, temp>>
NaoRoda     == servico # "rodando" /\ UNCHANGED <<servico, registro, temp>>
Para        == ParaOk \/ ParaDemora \/ NaoRoda

\* start(): the control manager runs a file that is whole and that nobody writes.
PodeIniciar == /\ servico = "parado" /\ registro = "sim"
               /\ bin \in Inteiros /\ ~Gravando
Inicia == servico' = IF PodeIniciar THEN "rodando" ELSE servico

\* DeleteService().
Desregistra ==
  registro' = IF registro = "nao" THEN "nao" ELSE IF Ativo THEN "marcado" ELSE "nao"

ServicoTermina ==
  /\ servico = "parando" /\ Termina
  /\ UNCHANGED <<bin, icsa, config, vigia, sa, ic, pedidos, quedas>>

\* fileDownload() into the main folder, whatever is there.
AbreBin == bin' = IF Ativo THEN bin ELSE "baixando"

\* Mutant: the end of one download is taken as that of both.
MutBaixaBin(outro) ==
  bin' = IF bin # "baixando" THEN bin ELSE "novo"

\* Its end. Another may be writing the same file: the last to end leaves it whole.
BaixaBin(outro) ==
  bin' = IF outro \/ bin # "baixando" THEN bin ELSE "novo"

\* An error removes the file, unless somebody has it open; what was written of it
\* may be a part that the other does not write again.
BaixaBinFalha(outro) ==
  bin' \in IF outro THEN {bin, "parcial"}
           ELSE {IF ic.lendo THEN "parcial" ELSE "nenhum"}

-----------------------------------------------------------------------------
(* cacic-service: what its cycle does to the others.                       *)

Ciclo ==
  /\ servico = "rodando" /\ temp # "baixando"
  /\ UNCHANGED <<registro, bin, icsa, sa, ic, pedidos, quedas>>

\* The manager's answer is written, and a new version is downloaded.
ServicoBaixa ==
  /\ Ciclo
  /\ config' = TRUE
  /\ temp' = IF bin = "novo" \/ temp = "novo" THEN temp ELSE "baixando"
  /\ UNCHANGED <<servico, vigia>>

\* Also while the service is being stopped.
ServicoBaixou ==
  /\ Ativo /\ temp = "baixando"
  /\ temp' \in {"novo", "nenhum"}
  /\ UNCHANGED <<registro, servico, bin, icsa, config, vigia, sa, ic, pedidos, quedas>>

\* Running chksys.exe registers and starts it.
ServicoIniciaVigia ==
  /\ Ciclo
  /\ vigia.pc \in {"ausente", "fora"}
  /\ vigia' = [pc |-> "espera", fim |-> FALSE]
  /\ UNCHANGED <<servico, temp, config>>

\* A stop asked of chksys, which takes it where its event loop runs.
ParaVigia == vigia' = [vigia EXCEPT !.fim = vigia.pc \notin {"ausente", "fora"}]

\* For its own new version the service stops chksys and ends.
ServicoFinaliza ==
  /\ Ciclo
  /\ Existe(temp)
  /\ servico' = "parando"
  /\ ParaVigia
  /\ UNCHANGED <<temp, config>>

-----------------------------------------------------------------------------
(* chksys.                                                                 *)

\* What chksys does not touch.
VigiaSo == UNCHANGED <<icsa, config, sa, ic, pedidos, quedas>>

VigiaTermina ==
  /\ vigia.pc = "espera" /\ vigia.fim
  /\ vigia' = [pc |-> "fora", fim |-> FALSE]
  /\ VigiaSo /\ UNCHANGED <<registro, servico, bin, temp>>

OnTimerCheckService ==
  /\ vigia.pc = "espera" /\ config
  /\ VaiVigia("modulos")
  /\ VigiaSo /\ UNCHANGED <<registro, servico, bin, temp>>

\* verificarModulos(). On Windows every file of the folder is executable, the
\* half written too.
VigiaLista ==
  /\ vigia.pc = "modulos"
  /\ \/ Existe(temp) /\ Existe(bin) /\ Para /\ VaiVigia("remove")
     \/ /\ Existe(temp) /\ ~Existe(bin)
        /\ VaiVigia("copia") /\ UNCHANGED <<registro, servico, temp>>
     \/ ~Existe(temp) /\ VaiVigia("confere") /\ UNCHANGED <<registro, servico, temp>>
  /\ VigiaSo /\ UNCHANGED bin

VigiaRemove ==
  /\ vigia.pc = "remove"
  /\ bin' = IF Removivel THEN "nenhum" ELSE bin
  /\ VaiVigia("copia")
  /\ VigiaSo /\ UNCHANGED <<registro, servico, temp>>

Copiado == IF temp = "baixando" THEN "parcial" ELSE temp

VigiaCopia ==
  /\ vigia.pc = "copia"
  /\ IF Existe(bin) THEN VaiVigia("confere") /\ UNCHANGED bin
                    ELSE VaiVigia("limpa") /\ bin' = Copiado
  /\ VigiaSo /\ UNCHANGED <<registro, servico, temp>>

VigiaLimpa ==
  /\ vigia.pc = "limpa"
  /\ temp' = IF temp = "baixando" THEN temp ELSE "nenhum"
  /\ VaiVigia("confere")
  /\ VigiaSo /\ UNCHANGED <<registro, servico, bin>>

VigiaConfere ==
  /\ vigia.pc = "confere"
  /\ VaiVigia(IF registro # "nao" /\ servico = "rodando" THEN "espera"
              ELSE IF Existe(bin) THEN "registra" ELSE "baixa")
  /\ VigiaSo /\ UNCHANGED <<registro, servico, bin, temp>>

\* downloadService(), which needs getConfig.json.
VigiaBaixa ==
  /\ vigia.pc = "baixa"
  /\ IF Existe(bin) \/ ~config THEN VaiVigia("registra") /\ UNCHANGED bin
                               ELSE VaiVigia("baixando") /\ AbreBin
  /\ VigiaSo /\ UNCHANGED <<registro, servico, temp>>

VigiaBaixou ==
  /\ vigia.pc = "baixando"
  /\ BaixaBin(Em("baixando")) \/ BaixaBinFalha(Em("baixando"))
  /\ VaiVigia("registra")
  /\ VigiaSo /\ UNCHANGED <<registro, servico, temp>>

\* quit() ends the nested loop of the download, with what it has written.
VigiaInterrompida ==
  /\ vigia.pc = "baixando" /\ vigia.fim
  /\ bin' \in IF Em("baixando") THEN {bin, "parcial"} ELSE {"parcial"}
  /\ VaiVigia("registra")
  /\ VigiaSo /\ UNCHANGED <<registro, servico, temp>>

\* Mutant: a service that is not registered is only started.
MutVigiaRegistra ==
  /\ vigia.pc = "registra"
  /\ VaiVigia("inicia")
  /\ VigiaSo /\ UNCHANGED <<registro, servico, bin, temp>>

VigiaRegistra ==
  /\ vigia.pc = "registra"
  /\ registro' = IF registro = "nao" THEN "sim" ELSE registro
  /\ VaiVigia("inicia")
  /\ VigiaSo /\ UNCHANGED <<servico, bin, temp>>

VigiaInicia ==
  /\ vigia.pc = "inicia"
  /\ Inicia
  /\ VaiVigia("espera")
  /\ VigiaSo /\ UNCHANGED <<registro, bin, temp>>

-----------------------------------------------------------------------------
(* installcacic-standalone: exec() and verificaServico().                  *)

SaSo == UNCHANGED <<config, vigia, ic, pedidos, quedas>>

\* deleteCacicAntigo() empties C:\Cacic but for what it names, in every folder:
\* cacic-service.exe stays in temp/ too, whole or in part. Then sa asks the manager
\* for the hash; a failure of either ends the run. Its own hash is never known
\* before the download, so it always downloads.
SaComeca ==
  /\ sa = "fora"
  /\ VaiSa("baixa")
  /\ SaSo /\ UNCHANGED <<registro, servico, bin, temp, icsa>>

SaBaixa ==
  /\ sa = "baixa"
  /\ icsa' = "baixando"
  /\ VaiSa("baixando")
  /\ SaSo /\ UNCHANGED <<registro, servico, bin, temp>>

SaBaixou ==
  /\ sa = "baixando"
  /\ icsa' \in {"novo", "parcial"}
  /\ VaiSa("confere")
  /\ SaSo /\ UNCHANGED <<registro, servico, bin, temp>>

\* Mutant: the hash is compared only when the manager sent one.
MutSaConfere ==
  /\ sa = "confere"
  /\ VaiSa(IF Existe(icsa) THEN "para" ELSE "fora")
  /\ SaSo /\ UNCHANGED <<registro, servico, bin, temp, icsa>>

SaConfere ==
  /\ sa = "confere"
  /\ VaiSa(IF icsa = "novo" THEN "para" ELSE "fora")
  /\ SaSo /\ UNCHANGED <<registro, servico, bin, temp, icsa>>

\* Whether the service was stopped is not looked at.
SaPara ==
  /\ sa = "para"
  /\ \/ registro # "nao" /\ Para /\ VaiSa("apaga")
     \/ registro = "nao" /\ VaiSa("apagaSem") /\ UNCHANGED <<registro, servico, temp>>
  /\ SaSo /\ UNCHANGED <<bin, icsa>>

SaApaga ==
  /\ \/ sa = "apaga" /\ VaiSa("move")
     \/ sa = "apagaSem" /\ VaiSa(IF Existe(bin) /\ ~Removivel THEN "fora" ELSE "moveSem")
  /\ bin' = IF Removivel THEN "nenhum" ELSE bin
  /\ SaSo /\ UNCHANGED <<registro, servico, temp, icsa>>

SaMove ==
  /\ sa \in {"move", "moveSem"}
  /\ IF Existe(icsa) /\ (Removivel \/ ~Existe(bin))
     THEN /\ bin' = icsa /\ icsa' = "nenhum"
          /\ VaiSa(IF sa = "move" THEN "inicia" ELSE "registra")
     ELSE VaiSa("fora") /\ UNCHANGED <<bin, icsa>>
  /\ SaSo /\ UNCHANGED <<registro, servico, temp>>

SaRegistra ==
  /\ sa = "registra"
  /\ registro' = IF registro = "nao" THEN "sim" ELSE registro
  /\ VaiSa(IF registro = "nao" THEN "inicia" ELSE "fora")
  /\ SaSo /\ UNCHANGED <<servico, bin, temp, icsa>>

\* Mutant: after the replacement the start is left to chksys.
MutSaInicia ==
  /\ sa = "inicia"
  /\ VaiSa("fora")
  /\ SaSo /\ UNCHANGED <<registro, servico, bin, temp, icsa>>

SaInicia ==
  /\ sa = "inicia"
  /\ Inicia
  /\ VaiSa("fora")
  /\ SaSo /\ UNCHANGED <<registro, bin, temp, icsa>>

-----------------------------------------------------------------------------
(* install-cacic.                                                          *)

IcSo == UNCHANGED <<sa, pedidos, quedas>>

IcComeca(pc) ==
  /\ Em("fora") /\ pedidos < MaxPedidos
  /\ pedidos' = pedidos + 1
  /\ VaiIc(pc)
  /\ UNCHANGED <<registro, servico, bin, temp, icsa, vigia, sa, quedas>>

\* install(), once the manager has answered; updateService(), if temp/ has something;
\* uninstall().
IcInstala    == IcComeca("verifica") /\ config' = TRUE
IcAtualiza   == Existe(temp) /\ IcComeca("para") /\ UNCHANGED config
IcDesinstala == IcComeca("desinstala") /\ UNCHANGED config

\* The file, which stays open until install() returns, decides, by a hash that
\* install() looks up as "name" and the rest of the agent as "nome": a new file may be
\* taken for an old one.
IcVerifica ==
  /\ Em("verifica")
  /\ LET registrado == Existe(bin) /\ registro # "nao"
         abre(pc)   == ic' = [ic EXCEPT !.pc = pc, !.lendo = Existe(bin)]
     IN \/ /\ registrado /\ bin = "novo"
           /\ Inicia /\ ic' = ForaIc /\ UNCHANGED <<registro, temp>>
        \/ /\ registrado /\ servico = "rodando"
           /\ Para /\ abre("paraVigia")
        \/ /\ ~registrado \/ servico # "rodando"
           /\ abre("baixa") /\ UNCHANGED <<registro, servico, temp>>
  /\ IcSo /\ UNCHANGED <<bin, icsa, config, vigia>>

IcParaVigia ==
  /\ Em("paraVigia")
  /\ ParaVigia
  /\ VaiIc("baixa")
  /\ IcSo /\ UNCHANGED <<registro, servico, arquivos>>

IcBaixa ==
  /\ Em("baixa")
  /\ AbreBin
  /\ VaiIc(IF Ativo THEN "conclui" ELSE "baixando")
  /\ IcSo /\ UNCHANGED <<registro, servico, temp, icsa, config, vigia>>

\* The result is not looked at, only whether there is a file.
IcBaixou ==
  /\ Em("baixando")
  /\ BaixaBin(vigia.pc = "baixando") \/ BaixaBinFalha(vigia.pc = "baixando")
  /\ VaiIc("conclui")
  /\ IcSo /\ UNCHANGED <<registro, servico, temp, icsa, config, vigia>>

IcConclui ==
  /\ Em("conclui")
  /\ IF Existe(bin) THEN VaiIc(IF registro = "nao" THEN "registra" ELSE "inicia")
                    ELSE ic' = ForaIc
  /\ IcSo /\ UNCHANGED <<registro, servico, arquivos, vigia>>

\* A registration that another made in between counts as a failure, and uninstalls.
IcRegistra ==
  /\ Em("registra")
  /\ IF registro = "nao"
     THEN registro' = "sim" /\ VaiIc("inicia")
     ELSE ic' = [ic EXCEPT !.pc = "desinstala", !.desfaz = TRUE] /\ UNCHANGED registro
  /\ IcSo /\ UNCHANGED <<servico, arquivos, vigia>>

\* Mutant: the file is left open.
MutIcInicia ==
  /\ Em("inicia")
  /\ Inicia /\ VaiIc("fora")
  /\ IcSo /\ UNCHANGED <<registro, arquivos, vigia>>

IcInicia ==
  /\ Em("inicia")
  /\ Inicia /\ ic' = ForaIc
  /\ IcSo /\ UNCHANGED <<registro, arquivos, vigia>>

\* updateService(): a stop that fails does not end it.
IcPara ==
  /\ Em("para")
  /\ Para
  /\ VaiIc("remove")
  /\ IcSo /\ UNCHANGED <<bin, icsa, config, vigia>>

\* Only a file that exists is replaced.
IcRemove ==
  /\ Em("remove")
  /\ IF Existe(bin) /\ Removivel THEN bin' = "nenhum" /\ VaiIc("copia")
                               ELSE UNCHANGED bin /\ VaiIc("relanca")
  /\ IcSo /\ UNCHANGED <<registro, servico, temp, icsa, config, vigia>>

IcCopia ==
  /\ Em("copia")
  /\ bin' = IF Existe(bin) THEN bin ELSE Copiado
  /\ VaiIc("limpa")
  /\ IcSo /\ UNCHANGED <<registro, servico, temp, icsa, config, vigia>>

IcLimpa ==
  /\ Em("limpa")
  /\ temp' = IF Existe(bin) /\ temp # "baixando" THEN "nenhum" ELSE temp
  /\ VaiIc("relanca")
  /\ IcSo /\ UNCHANGED <<registro, servico, bin, icsa, config, vigia>>

\* A service that is not registered is registered, and not started.
IcRelanca ==
  /\ Em("relanca")
  /\ IF registro = "nao" THEN registro' = "sim" /\ UNCHANGED servico
                         ELSE Inicia /\ UNCHANGED registro
  /\ ic' = ForaIc
  /\ IcSo /\ UNCHANGED <<arquivos, vigia>>

\* uninstall(): a service that does not stop in time keeps its registration.
IcDesinstalaServico ==
  /\ Em("desinstala")
  /\ \/ registro = "nao" /\ VaiIc("apaga") /\ UNCHANGED <<registro, servico, temp>>
     \/ registro # "nao" /\ (ParaOk \/ NaoRoda) /\ VaiIc("desregistra")
     \/ registro # "nao" /\ ParaDemora /\ VaiIc("apaga")
  /\ IcSo /\ UNCHANGED <<bin, icsa, config, vigia>>

IcDesregistra ==
  /\ Em("desregistra")
  /\ Desregistra
  /\ VaiIc("apaga")
  /\ IcSo /\ UNCHANGED <<servico, arquivos, vigia>>

\* The folder is emptied, the smallest first, of what nobody has open.
IcApaga ==
  /\ Em("apaga")
  /\ config' = FALSE
  /\ temp' = IF temp = "baixando" THEN temp ELSE "nenhum"
  /\ icsa' = IF icsa = "baixando" THEN icsa ELSE "nenhum"
  /\ vigia' = [vigia EXCEPT !.pc = IF @ = "fora" THEN "ausente" ELSE @]
  /\ VaiIc("apagaBin")
  /\ IcSo /\ UNCHANGED <<registro, servico, bin>>

IcApagaBin ==
  /\ Em("apagaBin")
  /\ bin' = IF Removivel THEN "nenhum" ELSE bin
  /\ ic' = IF ic.desfaz THEN [ic EXCEPT !.pc = "inicia"] ELSE ForaIc
  /\ IcSo /\ UNCHANGED <<registro, servico, temp, icsa, config, vigia>>

-----------------------------------------------------------------------------
\* The machine restarts at any point: what was being written stays in part, and
\* Windows starts what is registered.
MaquinaReinicia ==
  /\ quedas < MaxQuedas /\ quedas' = quedas + 1
  /\ LET fica(a) == IF a = "baixando" THEN "parcial" ELSE a
     IN bin' = fica(bin) /\ temp' = fica(temp) /\ icsa' = fica(icsa)
  /\ registro' = IF registro = "marcado" THEN "nao" ELSE registro
  /\ servico' = IF registro = "sim" /\ bin \in Inteiros THEN "rodando" ELSE "parado"
  /\ vigia' = [vigia EXCEPT !.pc = IF @ = "ausente" THEN @ ELSE "espera", !.fim = FALSE]
  /\ sa' = "fora" /\ ic' = ForaIc
  /\ UNCHANGED <<config, pedidos>>

Servico == ServicoTermina \/ ServicoBaixa \/ ServicoBaixou \/ ServicoIniciaVigia
           \/ ServicoFinaliza
Verifica == VigiaLista \/ VigiaRemove \/ VigiaCopia \/ VigiaLimpa \/ VigiaConfere
            \/ VigiaBaixa \/ VigiaBaixou \/ VigiaInterrompida \/ VigiaRegistra
            \/ VigiaInicia
VerificaServico == SaBaixa \/ SaBaixou \/ SaConfere \/ SaPara \/ SaApaga \/ SaMove
                   \/ SaRegistra \/ SaInicia
InstallCacic == IcVerifica \/ IcParaVigia \/ IcBaixa \/ IcBaixou \/ IcConclui
                \/ IcRegistra \/ IcInicia \/ IcPara \/ IcRemove \/ IcCopia \/ IcLimpa
                \/ IcRelanca \/ IcDesinstalaServico \/ IcDesregistra \/ IcApaga
                \/ IcApagaBin

Next ==
  \/ Servico
  \/ VigiaTermina \/ OnTimerCheckService \/ Verifica
  \/ SaComeca \/ VerificaServico
  \/ IcInstala \/ IcAtualiza \/ IcDesinstala \/ InstallCacic
  \/ MaquinaReinicia

Spec == Init /\ [][Next]_vars

\* What was begun goes on. That users log on, that the manager answers and that a
\* file arrives whole is asked where a property needs it.
FairSpec ==
  /\ Spec
  /\ WF_vars(ServicoTermina)
  /\ WF_vars(VigiaTermina) /\ WF_vars(OnTimerCheckService) /\ WF_vars(Verifica)
  /\ WF_vars(VerificaServico)
  /\ WF_vars(InstallCacic)

=============================================================================
