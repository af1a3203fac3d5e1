--------------------------- MODULE InstalacaoProofs ---------------------------
(* What the installers and chksys keep, for every number of runs and restarts. *)
EXTENDS InstalacaoProps, TLAPS

\* sa has compared the file of icsa/ and not moved it yet.
Conferido == sa \in {"para", "apaga", "apagaSem", "move", "moveSem"}

\* What is being written is never whole, a deletion is only pending while the process
\* is there, and after the comparison icsa/ has the right file or, deleted by an
\* uninstallation, none.
Escritas ==
  /\ Gravando => bin \in {"baixando", "parcial"}
  /\ registro = "marcado" => Ativo
  /\ Conferido => icsa \in {"novo", "nenhum"}

IndInstalacao == TypeOK /\ RodandoInteiro /\ Escritas

Passo == Next \/ UNCHANGED vars

LEMMA InstalacaoInicial == Init => IndInstalacao
<1> SUFFICES ASSUME Init PROVE IndInstalacao
  OBVIOUS
<1>1. ic = ForaIc /\ ic \in [pc : PontosIc, lendo : BOOLEAN, desfaz : BOOLEAN]
  BY DEF Init, ForaIc, PontosIc
<1>2. /\ vigia \in [pc : PontosVigia, fim : BOOLEAN] /\ vigia.pc # "baixando"
      /\ sa \in PontosSa /\ config \in BOOLEAN
  <2>1. \E p \in {"ausente", "espera"} : vigia = [pc |-> p, fim |-> FALSE]
    BY DEF Init
  <2>2. config \in BOOLEAN
    BY DEF Init
  <2>3. vigia \in [pc : PontosVigia, fim : BOOLEAN] /\ vigia.pc # "baixando"
    BY <2>1 DEF PontosVigia
  <2> QED BY <2>2, <2>3 DEF Init, PontosSa
<1>3. pedidos \in 0 .. MaxPedidos /\ quedas \in 0 .. MaxQuedas
  BY InstalacaoAssumption DEF Init
<1> QED
  BY <1>1, <1>2, <1>3
     DEF Init, IndInstalacao, TypeOK, RodandoInteiro, Escritas, Conferido, Ativo, Gravando,
         Inteiros, Conteudos, Em, ForaIc

\* A stop asked of chksys leaves it where it is.
LEMMA ParaVigiaProp ==
  ASSUME vigia \in [pc : PontosVigia, fim : BOOLEAN], ParaVigia
  PROVE  vigia' \in [pc : PontosVigia, fim : BOOLEAN] /\ vigia'.pc = vigia.pc
<1> DEFINE fim == vigia.pc \notin {"ausente", "fora"}
<1>1. fim \in BOOLEAN /\ vigia' = [vigia EXCEPT !.fim = fim]
  BY DEF ParaVigia
<1> HIDE DEF fim
<1> QED BY <1>1

\* The deletion of the folder may take chksys with it.
LEMMA ApagaVigiaProp ==
  ASSUME vigia \in [pc : PontosVigia, fim : BOOLEAN], IcApaga
  PROVE  /\ vigia' \in [pc : PontosVigia, fim : BOOLEAN]
         /\ vigia'.pc = "baixando" <=> vigia.pc = "baixando"
<1> DEFINE p == IF vigia.pc = "fora" THEN "ausente" ELSE vigia.pc
<1>1. p \in PontosVigia /\ (p = "baixando" <=> vigia.pc = "baixando")
  BY DEF PontosVigia
<1>2. vigia' = [vigia EXCEPT !.pc = p]
  BY DEF IcApaga
<1> HIDE DEF p
<1> QED BY <1>1, <1>2

\* install() opens the file, if there is one.
LEMMA AbreProp ==
  ASSUME ic \in [pc : PontosIc, lendo : BOOLEAN, desfaz : BOOLEAN], NEW p \in PontosIc,
         ic' = [ic EXCEPT !.pc = p, !.lendo = Existe(bin)]
  PROVE  /\ ic' \in [pc : PontosIc, lendo : BOOLEAN, desfaz : BOOLEAN]
         /\ ic'.pc = p
<1> DEFINE l == Existe(bin)
<1>1. l \in BOOLEAN
  BY DEF Existe
<1> HIDE DEF l
<1>2. ic' = [ic EXCEPT !.pc = p, !.lendo = l]
  BY DEF l
<1> QED BY <1>1, <1>2

\* The end of the service, when it is stopped or by itself.
LEMMA ServicoMantem ==
  ASSUME IndInstalacao, Servico
  PROVE  IndInstalacao'
<1> USE DEF IndInstalacao, TypeOK, RodandoInteiro, Escritas, Conferido, Ativo, Gravando,
            Inteiros, Conteudos, Em, PontosVigia, PontosSa, PontosIc
<1>1. CASE ServicoTermina
  BY <1>1 DEF ServicoTermina, Termina
<1>2. CASE ServicoBaixa
  BY <1>2 DEF ServicoBaixa, Ciclo
<1>3. CASE ServicoBaixou
  BY <1>3 DEF ServicoBaixou
<1>4. CASE ServicoIniciaVigia
  BY <1>4 DEF ServicoIniciaVigia, Ciclo
<1>5. CASE ServicoFinaliza
  <2>1. vigia' \in [pc : PontosVigia, fim : BOOLEAN] /\ vigia'.pc = vigia.pc
    BY <1>5, ParaVigiaProp DEF ServicoFinaliza
  <2> QED BY <1>5, <2>1 DEF ServicoFinaliza, Ciclo
<1> QED BY <1>1, <1>2, <1>3, <1>4, <1>5 DEF Servico
\* chksys: it opens the file only where there is none, and copies over none.
LEMMA VigiaMantem ==
  ASSUME IndInstalacao, VigiaTermina \/ OnTimerCheckService \/ Verifica
  PROVE  IndInstalacao'
<1> USE DEF IndInstalacao, TypeOK, RodandoInteiro, Escritas, Conferido, Ativo, Gravando,
            Inteiros, Conteudos, Em, PontosVigia, PontosSa, PontosIc
<1> USE DEF VigiaSo, VaiVigia
<1>1. CASE VigiaTermina
  BY <1>1 DEF VigiaTermina
<1>2. CASE OnTimerCheckService
  BY <1>2 DEF OnTimerCheckService
<1>3. CASE VigiaLista
  BY <1>3 DEF VigiaLista, Existe, Para, ParaOk, ParaDemora, NaoRoda, Termina
<1>4. CASE VigiaRemove
  BY <1>4 DEF VigiaRemove, Removivel
<1>5. CASE VigiaCopia
  BY <1>5 DEF VigiaCopia, Existe, Copiado
<1>6. CASE VigiaLimpa
  BY <1>6 DEF VigiaLimpa
<1>7. CASE VigiaConfere
  BY <1>7 DEF VigiaConfere
<1>8. CASE VigiaBaixa
  BY <1>8 DEF VigiaBaixa, Existe, AbreBin
<1>9. CASE VigiaBaixou
  BY <1>9 DEF VigiaBaixou, BaixaBin, BaixaBinFalha
<1>10. CASE VigiaInterrompida
  BY <1>10 DEF VigiaInterrompida
<1>11. CASE VigiaRegistra
  BY <1>11 DEF VigiaRegistra
<1>12. CASE VigiaInicia
  BY <1>12 DEF VigiaInicia, Inicia, PodeIniciar
<1> QED BY <1>1, <1>2, <1>3, <1>4, <1>5, <1>6, <1>7, <1>8, <1>9, <1>10, <1>11, <1>12
        DEF Verifica

\* installcacic-standalone: nobody but itself writes icsa/, and an uninstallation may
\* only empty it.
LEMMA SaMantem ==
  ASSUME IndInstalacao, SaComeca \/ VerificaServico
  PROVE  IndInstalacao'
<1> USE DEF IndInstalacao, TypeOK, RodandoInteiro, Escritas, Conferido, Ativo, Gravando,
            Inteiros, Conteudos, Em, PontosVigia, PontosSa, PontosIc
<1> USE DEF SaSo, VaiSa
<1>1. CASE SaComeca
  BY <1>1 DEF SaComeca
<1>2. CASE SaBaixa
  BY <1>2 DEF SaBaixa
<1>3. CASE SaBaixou
  BY <1>3 DEF SaBaixou
<1>4. CASE SaConfere
  BY <1>4 DEF SaConfere
<1>5. CASE SaPara
  BY <1>5 DEF SaPara, Para, ParaOk, ParaDemora, NaoRoda, Termina
<1>6. CASE SaApaga
  BY <1>6 DEF SaApaga, Existe, Removivel
<1>7. CASE SaMove
  BY <1>7 DEF SaMove, Existe, Removivel
<1>8. CASE SaRegistra
  BY <1>8 DEF SaRegistra
<1>9. CASE SaInicia
  BY <1>9 DEF SaInicia, Inicia, PodeIniciar
<1> QED BY <1>1, <1>2, <1>3, <1>4, <1>5, <1>6, <1>7, <1>8, <1>9 DEF VerificaServico

\* install-cacic: it writes the file of the service in place, but not while it runs.
LEMMA IcMantem ==
  ASSUME IndInstalacao, IcInstala \/ IcAtualiza \/ IcDesinstala \/ InstallCacic
  PROVE  IndInstalacao'
<1> USE DEF IndInstalacao, TypeOK, RodandoInteiro, Escritas, Conferido, Ativo, Gravando,
            Inteiros, Conteudos, Em, PontosVigia, PontosSa, PontosIc
<1> USE DEF IcSo, VaiIc, arquivos
<1>1. CASE IcInstala
  BY <1>1, InstalacaoAssumption DEF IcInstala, IcComeca
<1>2. CASE IcAtualiza
  BY <1>2, InstalacaoAssumption DEF IcAtualiza, IcComeca
<1>3. CASE IcDesinstala
  BY <1>3, InstalacaoAssumption DEF IcDesinstala, IcComeca
<1>4. CASE IcVerifica
  <2>1. CASE bin = "novo" /\ Inicia /\ ic' = ForaIc /\ UNCHANGED <<registro, temp>>
    BY <1>4, <2>1 DEF IcVerifica, Inicia, PodeIniciar, ForaIc
  <2>2. CASE Para /\ ic' = [ic EXCEPT !.pc = "paraVigia", !.lendo = Existe(bin)]
    <3>1. ic' \in [pc : PontosIc, lendo : BOOLEAN, desfaz : BOOLEAN] /\ ic'.pc = "paraVigia"
      BY <2>2, AbreProp
    <3> QED BY <1>4, <2>2, <3>1 DEF IcVerifica, Para, ParaOk, ParaDemora, NaoRoda, Termina
  <2>3. CASE /\ ic' = [ic EXCEPT !.pc = "baixa", !.lendo = Existe(bin)]
             /\ UNCHANGED <<registro, servico, temp>>
    <3>1. ic' \in [pc : PontosIc, lendo : BOOLEAN, desfaz : BOOLEAN] /\ ic'.pc = "baixa"
      BY <2>3, AbreProp
    <3> QED BY <1>4, <2>3, <3>1 DEF IcVerifica
  <2> QED BY <1>4, <2>1, <2>2, <2>3 DEF IcVerifica
<1>5. CASE IcParaVigia
  <2>1. vigia' \in [pc : PontosVigia, fim : BOOLEAN] /\ vigia'.pc = vigia.pc
    BY <1>5, ParaVigiaProp DEF IcParaVigia
  <2> QED BY <1>5, <2>1 DEF IcParaVigia
<1>6. CASE IcBaixa
  BY <1>6 DEF IcBaixa, AbreBin
<1>7. CASE IcBaixou
  BY <1>7 DEF IcBaixou, BaixaBin, BaixaBinFalha
<1>8. CASE IcConclui
  <2>1. UNCHANGED <<registro, servico, bin, temp, icsa, config, vigia, sa, pedidos, quedas>>
    BY <1>8 DEF IcConclui
  <2>2. \/ VaiIc("registra") \/ VaiIc("inicia") \/ ic' = ForaIc
    BY <1>8 DEF IcConclui
  <2>3. CASE VaiIc("registra")
    BY <1>8, <2>1, <2>3 DEF IcConclui
  <2>4. CASE VaiIc("inicia")
    BY <1>8, <2>1, <2>4 DEF IcConclui
  <2>5. CASE ic' = ForaIc
    BY <1>8, <2>1, <2>5 DEF IcConclui, ForaIc
  <2> QED BY <2>2, <2>3, <2>4, <2>5
<1>9. CASE IcRegistra
  <2>1. CASE registro = "nao"
    BY <1>9, <2>1 DEF IcRegistra
  <2>2. CASE registro # "nao"
    <3>1. /\ ic' = [ic EXCEPT !.pc = "desinstala", !.desfaz = TRUE]
          /\ UNCHANGED <<registro, servico, bin, temp, icsa, config, vigia, sa, pedidos, quedas>>
      BY <1>9, <2>2 DEF IcRegistra
    <3>2. /\ ic' \in [pc : PontosIc, lendo : BOOLEAN, desfaz : BOOLEAN]
          /\ ic'.pc = "desinstala"
      BY <3>1
    <3>3. ic.pc = "registra"
      BY <1>9 DEF IcRegistra
    <3> QED BY <3>1, <3>2, <3>3
  <2> QED BY <2>1, <2>2
<1>10. CASE IcInicia
  BY <1>10 DEF IcInicia, Inicia, PodeIniciar, ForaIc
<1>11. CASE IcPara
  BY <1>11 DEF IcPara, Para, ParaOk, ParaDemora, NaoRoda, Termina
<1>12. CASE IcRemove
  BY <1>12 DEF IcRemove, Removivel
<1>13. CASE IcCopia
  BY <1>13 DEF IcCopia, Existe, Copiado
<1>14. CASE IcLimpa
  BY <1>14 DEF IcLimpa
<1>15. CASE IcRelanca
  BY <1>15 DEF IcRelanca, Inicia, PodeIniciar, ForaIc
<1>16. CASE IcDesinstalaServico
  BY <1>16 DEF IcDesinstalaServico, ParaOk, ParaDemora, NaoRoda, Termina
<1>17. CASE IcDesregistra
  BY <1>17 DEF IcDesregistra, Desregistra
<1>18. CASE IcApaga
  <2>1. /\ vigia' \in [pc : PontosVigia, fim : BOOLEAN]
        /\ vigia'.pc = "baixando" <=> vigia.pc = "baixando"
    BY <1>18, ApagaVigiaProp
  <2>2. /\ config' = FALSE /\ VaiIc("apagaBin") /\ ic.pc = "apaga"
        /\ temp' = IF temp = "baixando" THEN temp ELSE "nenhum"
        /\ icsa' = IF icsa = "baixando" THEN icsa ELSE "nenhum"
        /\ UNCHANGED <<registro, servico, bin, sa, pedidos, quedas>>
    BY <1>18 DEF IcApaga
  <2>3. /\ ic' \in [pc : PontosIc, lendo : BOOLEAN, desfaz : BOOLEAN]
        /\ ic'.pc = "apagaBin"
    BY <2>2
  <2>4. config' \in BOOLEAN
    BY <2>2
  <2> QED BY <2>1, <2>2, <2>3, <2>4
<1>19. CASE IcApagaBin
  BY <1>19 DEF IcApagaBin, Removivel, ForaIc
<1> QED BY <1>1, <1>2, <1>3, <1>4, <1>5, <1>6, <1>7, <1>8, <1>9, <1>10, <1>11, <1>12, <1>13,
           <1>14, <1>15, <1>16, <1>17, <1>18, <1>19 DEF InstallCacic

\* A restart leaves no writer.
LEMMA MaquinaMantem ==
  ASSUME IndInstalacao, MaquinaReinicia
  PROVE  IndInstalacao'
<1>t. TypeOK /\ RodandoInteiro /\ Escritas
  BY DEF IndInstalacao
<1>1. /\ ic' = ForaIc /\ ic' \in [pc : PontosIc, lendo : BOOLEAN, desfaz : BOOLEAN]
      /\ sa' = "fora" /\ sa' \in PontosSa
  BY DEF MaquinaReinicia, ForaIc, PontosIc, PontosSa
<1>2. vigia' \in [pc : PontosVigia, fim : BOOLEAN] /\ vigia'.pc # "baixando"
  <2> DEFINE p == IF vigia.pc = "ausente" THEN "ausente" ELSE "espera"
  <2>1. p \in PontosVigia /\ p # "baixando"
    BY DEF PontosVigia
  <2>2. vigia' = [vigia EXCEPT !.pc = p, !.fim = FALSE]
    BY DEF MaquinaReinicia
  <2> HIDE DEF p
  <2> QED BY <1>t, <2>1, <2>2 DEF TypeOK
<1>3. quedas' \in 0 .. MaxQuedas
  BY <1>t, InstalacaoAssumption DEF MaquinaReinicia, TypeOK
<1>4. /\ bin' = IF bin = "baixando" THEN "parcial" ELSE bin
      /\ temp' = IF temp = "baixando" THEN "parcial" ELSE temp
      /\ icsa' = IF icsa = "baixando" THEN "parcial" ELSE icsa
      /\ registro' = IF registro = "marcado" THEN "nao" ELSE registro
      /\ servico' = IF registro = "sim" /\ bin \in Inteiros THEN "rodando" ELSE "parado"
      /\ UNCHANGED <<config, pedidos>>
  BY DEF MaquinaReinicia
<1> QED BY <1>t, <1>1, <1>2, <1>3, <1>4
        DEF IndInstalacao, TypeOK, RodandoInteiro, Escritas, Conferido, Ativo, Gravando,
            Inteiros, Conteudos, Em, ForaIc

LEMMA InstalacaoPreservada == IndInstalacao /\ Passo => IndInstalacao'
<1> SUFFICES ASSUME IndInstalacao, Passo PROVE IndInstalacao'
  OBVIOUS
<1>1. CASE Servico
  BY <1>1, ServicoMantem
<1>2. CASE VigiaTermina \/ OnTimerCheckService \/ Verifica
  BY <1>2, VigiaMantem
<1>3. CASE SaComeca \/ VerificaServico
  BY <1>3, SaMantem
<1>4. CASE IcInstala \/ IcAtualiza \/ IcDesinstala \/ InstallCacic
  BY <1>4, IcMantem
<1>5. CASE MaquinaReinicia
  BY <1>5, MaquinaMantem
<1>6. CASE UNCHANGED vars
  BY <1>6 DEF vars, arquivos, IndInstalacao, TypeOK, RodandoInteiro, Escritas, Conferido,
              Ativo, Gravando, Em
<1> QED BY <1>1, <1>2, <1>3, <1>4, <1>5, <1>6 DEF Passo, Next

\* Points, files and states are typed in every behaviour, and fileService is open only
\* while install() is at work.
THEOREM InstalacaoTipada == Spec => []TypeOK
<1>1. IndInstalacao => TypeOK
  BY DEF IndInstalacao
<1>2. [Next]_vars => Passo
  BY DEF Passo
<1> QED BY <1>1, <1>2, InstalacaoInicial, InstalacaoPreservada, PTL DEF Spec

\* Whatever the installers, chksys and the service do at once, the file of a service
\* that runs stays whole, and no file that is being written counts as whole.
THEOREM RodandoInteiroProvado == Spec => []RodandoInteiro
<1>1. IndInstalacao => RodandoInteiro
  BY DEF IndInstalacao
<1>2. [Next]_vars => Passo
  BY DEF Passo
<1> QED BY <1>1, <1>2, InstalacaoInicial, InstalacaoPreservada, PTL DEF Spec

\* The comparison of the hash still holds when the file is moved: an uninstallation in
\* between may take the file away, but nothing changes it.
THEOREM SaSoInstalaConferidoProvado == Spec => SaSoInstalaConferido
<1>1. IndInstalacao => (SaMove => bin' \in {bin, "novo"})
  BY DEF IndInstalacao, Escritas, Conferido, SaMove, Existe
<1>2. IndInstalacao => [SaMove => bin' \in {bin, "novo"}]_vars
  BY <1>1
<1>3. [Next]_vars => Passo
  BY DEF Passo
<1> QED
  BY <1>2, <1>3, InstalacaoInicial, InstalacaoPreservada, PTL DEF Spec, SaSoInstalaConferido
=============================================================================
