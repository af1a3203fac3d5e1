---------------------------- MODULE ColetaProofs ----------------------------
(* Proofs about Coleta, for every number of versions, depth of the stack and *)
(* number of crashes.                                                        *)
EXTENDS ColetaProps, SequenceTheorems, TLAPS

\* Pushing a frame.
LEMMA EmpilhaProp ==
  ASSUME NEW S, NEW s \in Seq(S), NEW q \in S
  PROVE  /\ Append(s, q) \in Seq(S)
         /\ Len(Append(s, q)) = Len(s) + 1
         /\ Append(s, q)[Len(s) + 1] = q
         /\ \A i \in 1..Len(s) : Append(s, q)[i] = s[i]
  OBVIOUS

\* Returning from the frame on top.
LEMMA DesempilhaProp ==
  ASSUME NEW S, NEW s \in Seq(S), s # <<>>
  PROVE  /\ SubSeq(s, 1, Len(s) - 1) \in Seq(S)
         /\ Len(SubSeq(s, 1, Len(s) - 1)) = Len(s) - 1
         /\ \A i \in 1..(Len(s) - 1) : SubSeq(s, 1, Len(s) - 1)[i] = s[i]
<1>1. /\ Len(s) \in Nat
      /\ Len(s) # 0
  OBVIOUS
<1>2. \A i \in 1..(Len(s) - 1) : s[i] \in S
  BY <1>1
<1>. DEFINE n == Len(s) - 1
<1>3. n \in Int /\ 1 \in Int
  BY <1>1
<1>4. /\ SubSeq(s, 1, n) \in Seq(S)
      /\ Len(SubSeq(s, 1, n)) = IF 1 <= n THEN n - 1 + 1 ELSE 0
      /\ \A i \in 1..(n - 1 + 1) : SubSeq(s, 1, n)[i] = s[1 + i - 1]
  <2>. HIDE DEF n
  <2>. QED
    BY <1>2, <1>3, SubSeqProperties DEF n
<1>5. n \in Nat /\ n - 1 + 1 = n
  BY <1>1
<1>6. Len(SubSeq(s, 1, n)) = n
  <2>. HIDE DEF n
  <2>. QED
    BY <1>4, <1>5
<1>7. ASSUME NEW i \in 1..n
      PROVE  SubSeq(s, 1, n)[i] = s[i]
  <2>1. 1 + i - 1 = i /\ i \in 1..(n - 1 + 1)
    BY <1>5
  <2>. HIDE DEF n
  <2>. QED
    BY <2>1, <1>4
<1>. QED
  BY <1>4, <1>6, <1>7

\* Replacing one frame.
LEMMA TrocaProp ==
  ASSUME NEW S, NEW s \in Seq(S), NEW k \in 1..Len(s), NEW q \in S
  PROVE  /\ [s EXCEPT ![k] = q] \in Seq(S)
         /\ Len([s EXCEPT ![k] = q]) = Len(s)
         /\ [s EXCEPT ![k] = q][k] = q
         /\ \A i \in 1..Len(s) : i # k => [s EXCEPT ![k] = q][i] = s[i]
  OBVIOUS

-----------------------------------------------------------------------------
(* The stack of the service's thread.                                       *)

\* Frames are well formed.
LEMMA QuadroCicloTipo ==
  ASSUME NEW pc \in Pontos, NEW resta \in SUBSET Modulos
  PROVE  QuadroCiclo(pc, resta) \in Quadros
BY ColetaAssumption DEF QuadroCiclo, Quadros, Ramos, Coletas, SemColeta

\* The frame of a send is well formed.
LEMMA QuadroEnvioTipo ==
  ASSUME TypeOK
  PROVE  QuadroEnvio(RamoDoEnvio) \in Quadros
BY DEF QuadroEnvio, Quadros, Pontos, Ramos, RamoDoEnvio, TypeOK

\* The running frame is one of the frames.
LEMMA TopoTipo ==
  ASSUME TypeOK, pilha # <<>>
  PROVE  /\ Len(pilha) \in 1..MaxPilha
         /\ Topo \in Quadros
BY ColetaAssumption DEF TypeOK, Topo

\* Going on in the running frame leaves the others as they are.
LEMMA TrocaTipo ==
  ASSUME TypeOK, pilha # <<>>, NEW q \in Quadros, TrocaTopo(q)
  PROVE  /\ pilha' \in Seq(Quadros)
         /\ Len(pilha') = Len(pilha)
         /\ pilha'[Len(pilha)] = q
         /\ \A i \in 1..Len(pilha) : i # Len(pilha) => pilha'[i] = pilha[i]
<1>1. Len(pilha) \in 1..Len(pilha) /\ pilha \in Seq(Quadros)
  BY DEF TypeOK
<1>. QED
  BY <1>1, TrocaProp DEF TrocaTopo

\* Returning leaves the frames below as they are.
LEMMA RetornaTipo ==
  ASSUME TypeOK, pilha # <<>>
  PROVE  /\ SemTopo \in Seq(Quadros)
         /\ Len(SemTopo) = Len(pilha) - 1
         /\ \A i \in 1..(Len(pilha) - 1) : SemTopo[i] = pilha[i]
BY DesempilhaProp DEF TypeOK, SemTopo

\* A call puts one frame on top of the others.
LEMMA EmpilhaTipo ==
  ASSUME TypeOK, NEW q \in Quadros, Empilha(q)
  PROVE  /\ pilha' \in Seq(Quadros)
         /\ Len(pilha') = Len(pilha) + 1
         /\ pilha'[Len(pilha) + 1] = q
         /\ \A i \in 1..Len(pilha) : pilha'[i] = pilha[i]
BY EmpilhaProp DEF TypeOK, Empilha

\* enviarColeta() leaves the frames below it alone and adds one at most.
LEMMA EnviarTipo ==
  ASSUME TypeOK, NEW abaixo \in Seq(Quadros), EnviarColeta(abaixo)
  PROVE  /\ pilha' \in Seq(Quadros)
         /\ \/ /\ RamoDoEnvio # "nenhum"
               /\ Len(pilha') = Len(abaixo) + 1
               /\ pilha'[Len(abaixo) + 1] = QuadroEnvio(RamoDoEnvio)
               /\ \A i \in 1..Len(abaixo) : pilha'[i] = abaixo[i]
            \/ /\ RamoDoEnvio = "nenhum" \/ "erro" \in Ambiente
               /\ pilha' = abaixo
BY QuadroEnvioTipo, EmpilhaProp DEF EnviarColeta

-----------------------------------------------------------------------------
(* Type correctness.                                                        *)

\* The agent starts on a machine with nothing collected and nothing running.
LEMMA TipoInicial == Init => TypeOK
<1>. SUFFICES ASSUME Init PROVE TypeOK
  OBVIOUS
<1>1. SemColeta \in Coletas
  BY ColetaAssumption DEF SemColeta, Coletas
<1>2. GercolsParado \in [pc : {"parado", "coletado", "lido", "gravado", "comparado"},
                         nova : 0..MaxVersao, velha : Coletas]
  BY <1>1, ColetaAssumption DEF GercolsParado
<1>3. MapaParado \in [pc : {"parado", "aberto", "lido", "gravado"},
                      lida : Coletas]
  BY <1>1 DEF MapaParado
<1>4. pilha \in Seq(Quadros) /\ Len(pilha) <= MaxPilha
  BY EmptySeq, ColetaAssumption DEF Init
<1>5. GercolsParado.pc = "parado"
  BY DEF GercolsParado
<1>6. /\ inventario \in Versoes
      /\ quedas \in 0..MaxQuedas
  BY ColetaAssumption DEF Init, Versoes
<1>7. /\ temDiff \in BOOLEAN /\ enviaColeta \in BOOLEAN /\ forcar \in BOOLEAN
      /\ data \in {SemData} \cup 0..PrazoReenvio
      /\ coleta \in Coletas /\ gerente \in Coletas
      /\ emTransito \in SUBSET Coletas
  BY <1>1 DEF Init
<1>. QED
  BY <1>2, <1>3, <1>4, <1>5, <1>6, <1>7 DEF Init, TypeOK

\* The steps of the machine, the collector, the form and the requests in
\* transit leave the stack alone.
LEMMA TipoForaDoServico ==
  ASSUME TypeOK,
         \/ MudaInventario \/ PassaDia \/ Gercols \/ Mapa
         \/ \E c \in emTransito : AtrasadaChega(c) \/ AtrasadaSePerde(c)
  PROVE  TypeOK'
<1>. USE ColetaAssumption DEF TypeOK, Versoes, Coletas, arquivos, remoto
<1>1. CASE MudaInventario
  BY <1>1 DEF MudaInventario
<1>2. CASE PassaDia
  BY <1>2 DEF PassaDia, SemData
<1>3. CASE GercolsLe
  BY <1>3 DEF GercolsLe
<1>4. CASE GercolsGrava
  BY <1>4 DEF GercolsGrava
<1>5. CASE GercolsRegistra
  BY <1>5 DEF GercolsRegistra, Difere, verificaColeta, GercolsParado, SemColeta
<1>11. CASE GercolsCompara
  BY <1>11 DEF GercolsCompara, Difere, verificaColeta
<1>6. CASE MapaLe
  BY <1>6 DEF MapaLe
<1>7. CASE MapaGrava
  BY <1>7 DEF MapaGrava
<1>8. CASE MapaRegistra
  BY <1>8 DEF MapaRegistra, MapaParado, SemColeta
<1>9. CASE MapaFecha
  BY <1>9 DEF MapaFecha, MapaParado, SemColeta
<1>10. CASE \E c \in emTransito : AtrasadaChega(c) \/ AtrasadaSePerde(c)
  BY <1>10 DEF AtrasadaChega, AtrasadaSePerde
<1>. QED
  BY <1>1, <1>2, <1>3, <1>4, <1>5, <1>6, <1>7, <1>8, <1>9, <1>10,
     <1>11
  DEF Gercols, Mapa

\* TypeOK says of the stack and of everything else separately.
TipoPilha == pilha \in Seq(Quadros) /\ Len(pilha) <= MaxPilha

\* A frame that goes on leaves the stack well formed.
LEMMA TipoTroca ==
  ASSUME TypeOK, pilha # <<>>, NEW q \in Quadros, TrocaTopo(q)
  PROVE  TipoPilha'
BY TrocaTipo DEF TypeOK, TipoPilha

\* A slot that returns leaves the stack well formed.
LEMMA TipoRetorna ==
  ASSUME TypeOK, pilha # <<>>, Retorna
  PROVE  TipoPilha'
<1>1. Len(pilha) \in Nat /\ Len(pilha) <= MaxPilha
  BY DEF TypeOK
<1>2. Len(pilha) - 1 <= MaxPilha
  BY <1>1, ColetaAssumption
<1>3. SemTopo \in Seq(Quadros) /\ Len(SemTopo) = Len(pilha) - 1
  BY RetornaTipo
<1>. QED
  BY <1>2, <1>3 DEF TipoPilha, Retorna

\* The slots of the timer and of the user interface start.
LEMMA TipoSlots ==
  ASSUME TypeOK, Mslot \/ ForcarColeta
  PROVE  TypeOK'
<1>1. DespachaEventos /\ Len(pilha) + 1 <= MaxPilha /\ Len(pilha) \in Nat
  BY ColetaAssumption DEF Mslot, ForcarColeta, DespachaEventos, TypeOK
<1>2. TipoPilha'
  <2>1. CASE Mslot
    <3>1. QuadroCiclo("gerente", {}) \in Quadros
      BY QuadroCicloTipo DEF Pontos
    <3>. QED
      BY <1>1, <2>1, <3>1, EmpilhaTipo DEF Mslot, TipoPilha
  <2>2. CASE ForcarColeta
    BY <1>1, <2>2, EnviarTipo DEF ForcarColeta, TipoPilha, TypeOK
  <2>. QED
    BY <2>1, <2>2
<1>. QED
  BY <1>2 DEF Mslot, ForcarColeta, TypeOK, TipoPilha, arquivos, remoto

\* The timer slot goes on, up to the call of enviarColeta().
LEMMA TipoCiclo ==
  ASSUME TypeOK,
         \/ ComunicaOk \/ ComunicaTimeout \/ ComunicaErro
         \/ ExecutaGercols \/ GercolsTerminou \/ PulaGercols
         \/ ConsultaMapa \/ GetMapaResponde \/ EnviaNoCiclo
  PROVE  TypeOK'
<1>1. pilha # <<>>
  BY DEF NoTopo, ComunicaOk, ComunicaTimeout, ComunicaErro, ExecutaGercols,
         GercolsTerminou, PulaGercols, ConsultaMapa, GetMapaResponde,
         EnviaNoCiclo
<1>2. Topo.resta \in SUBSET Modulos /\ Len(pilha) \in 1..MaxPilha
  BY <1>1, TopoTipo DEF Quadros
<1>3. \A pc \in Pontos, resta \in SUBSET Modulos :
        TrocaTopo(QuadroCiclo(pc, resta)) => TipoPilha'
  BY <1>1, QuadroCicloTipo, TipoTroca
<1>4. /\ "modulos" \in Pontos /\ "esperaGercols" \in Pontos
      /\ "getMapa" \in Pontos
      /\ Modulos \in SUBSET Modulos
      /\ Topo.resta \ {"gercols"} \in SUBSET Modulos
      /\ Topo.resta \ {"mapacacic"} \in SUBSET Modulos
  BY <1>2 DEF Pontos
<1>5. CASE ComunicaOk
  <2>1. TrocaTopo(QuadroCiclo("modulos", Modulos))
    BY <1>5 DEF ComunicaOk
  <2>2. TipoPilha'
    BY <1>3, <1>4, <2>1
  <2>. QED
    BY <1>5, <2>2 DEF ComunicaOk, TypeOK, TipoPilha, remoto
<1>6. CASE ComunicaTimeout \/ GercolsTerminou \/ PulaGercols \/ ConsultaMapa
  <2>1. TipoPilha'
    <3>1. CASE ComunicaTimeout
      BY <1>3, <1>4, <3>1 DEF ComunicaTimeout
    <3>2. CASE GercolsTerminou
      <4>1. TrocaTopo(QuadroCiclo("modulos", Topo.resta))
        BY <3>2 DEF GercolsTerminou
      <4>. QED
        BY <1>2, <1>3, <1>4, <4>1
    <3>3. CASE PulaGercols
      <4>1. TrocaTopo(QuadroCiclo("modulos", Topo.resta \ {"gercols"}))
        BY <3>3 DEF PulaGercols
      <4>. QED
        BY <1>3, <1>4, <4>1
    <3>4. CASE ConsultaMapa
      <4>1. TrocaTopo(QuadroCiclo("getMapa", Topo.resta \ {"mapacacic"}))
        BY <3>4 DEF ConsultaMapa
      <4>. QED
        BY <1>3, <1>4, <4>1
    <3>. QED
      BY <1>6, <3>1, <3>2, <3>3, <3>4
  <2>. QED
    BY <1>6, <2>1
    DEF ComunicaTimeout, GercolsTerminou, PulaGercols, ConsultaMapa,
        TypeOK, TipoPilha, arquivos, remoto
<1>7. CASE ComunicaErro
  BY <1>1, <1>7, TipoRetorna
  DEF ComunicaErro, TypeOK, TipoPilha, arquivos, remoto
<1>8. CASE ExecutaGercols
  <2>1. TipoPilha'
    <3>1. TrocaTopo(QuadroCiclo("esperaGercols", Topo.resta \ {"gercols"}))
      BY <1>8 DEF ExecutaGercols
    <3>. QED
      BY <1>3, <1>4, <3>1
  <2>2. gercols' = [pc |-> "coletado", nova |-> inventario, velha |-> SemColeta]
    BY <1>8 DEF ExecutaGercols, GercolsParado
  <2>3. SemColeta \in Coletas /\ inventario \in 0..MaxVersao /\ inventario # 0
    BY ColetaAssumption DEF TypeOK, Versoes, Coletas, SemColeta
  <2>4. /\ gercols' \in [pc : {"parado", "coletado", "lido", "gravado", "comparado"},
                         nova : 0..MaxVersao, velha : Coletas]
        /\ gercols'.nova # 0
    BY <2>2, <2>3
  <2>. QED
    BY <1>8, <2>1, <2>4
    DEF ExecutaGercols, TypeOK, TipoPilha, arquivos, remoto
<1>9. CASE GetMapaResponde
  <2>1. TipoPilha'
    BY <1>2, <1>3, <1>4, <1>9 DEF GetMapaResponde
  <2>2. SemColeta \in Coletas
    BY ColetaAssumption DEF Coletas, SemColeta
  <2>3. \/ mapa' = mapa
        \/ mapa' = [pc |-> "aberto", lida |-> SemColeta]
    BY <1>9 DEF GetMapaResponde, MapaParado
  <2>4. mapa' \in [pc : {"parado", "aberto", "lido", "gravado"},
                  lida : Coletas]
    BY <2>2, <2>3 DEF TypeOK
  <2>. QED
    BY <1>9, <2>1, <2>4
    DEF GetMapaResponde, TypeOK, TipoPilha, arquivos, remoto
<1>10. CASE EnviaNoCiclo
  <2>1. SemTopo \in Seq(Quadros) /\ Len(SemTopo) = Len(pilha) - 1
    BY <1>1, RetornaTipo
  <2>2. /\ pilha' \in Seq(Quadros)
        /\ Len(pilha') \in {Len(SemTopo), Len(SemTopo) + 1}
    <3>1. EnviarColeta(SemTopo)
      BY <1>10 DEF EnviaNoCiclo
    <3>. QED
      BY <2>1, <3>1, EnviarTipo
  <2>3. Len(pilha') <= MaxPilha
    BY <1>2, <2>1, <2>2, ColetaAssumption
  <2>4. TipoPilha'
    BY <2>2, <2>3 DEF TipoPilha
  <2>. QED
    BY <1>10, <2>4 DEF EnviaNoCiclo, TypeOK, TipoPilha, arquivos, remoto
<1>. QED
  BY <1>5, <1>6, <1>7, <1>8, <1>9, <1>10

\* The requests are answered, stored or given up.
LEMMA TipoEnvio ==
  ASSUME TypeOK,
         \/ EnvioOk \/ EnvioTimeout \/ EnvioErro \/ DiffResponde
         \/ \E i \in 1..MaxPilha : GerenteProcessa(i)
  PROVE  TypeOK'
<1>1. CASE EnvioOk \/ EnvioTimeout
  <2>1. pilha # <<>> /\ AposEnvio
    BY <1>1 DEF EnvioOk, EnvioTimeout, NoTopo
  <2>2. Topo \in Quadros /\ [Topo EXCEPT !.pc = "diff", !.entregue = FALSE] \in Quadros
    BY <2>1, TopoTipo DEF Quadros, Pontos
  <2>3. TipoPilha'
    BY <2>1, <2>2, TipoTroca, TipoRetorna DEF AposEnvio
  <2>4. emTransito' \in SUBSET Coletas
    <3>1. Topo.dado \in Coletas /\ emTransito \in SUBSET Coletas
      BY <2>2 DEF TypeOK, Quadros
    <3>2. CASE EnvioOk
      BY <3>1, <3>2 DEF EnvioOk
    <3>3. CASE EnvioTimeout
      BY <3>1, <3>3 DEF EnvioTimeout
    <3>. QED
      BY <1>1, <3>2, <3>3
  <2>5. data' \in {SemData} \cup 0..PrazoReenvio /\ enviaColeta' \in BOOLEAN
    <3>1. (data' = data \/ data' = 0) /\ enviaColeta' = FALSE
      BY <2>1 DEF AposEnvio
    <3>2. 0 \in 0..PrazoReenvio
      BY ColetaAssumption
    <3>. QED
      BY <3>1, <3>2 DEF TypeOK
  <2>. QED
    BY <2>1, <2>3, <2>4, <2>5 DEF AposEnvio, TypeOK, TipoPilha
<1>2. CASE EnvioErro
  BY <1>2, TipoRetorna DEF EnvioErro, NoTopo, TypeOK, TipoPilha, arquivos, remoto
<1>3. CASE DiffResponde
  <2>1. TipoPilha'
    BY <1>3, TipoRetorna DEF DiffResponde, NoTopo
  <2>2. data' \in {SemData} \cup 0..PrazoReenvio
    BY <1>3, ColetaAssumption DEF DiffResponde, TypeOK
  <2>. QED
    BY <1>3, <2>1, <2>2 DEF DiffResponde, TypeOK, TipoPilha, remoto
<1>4. ASSUME NEW i \in 1..MaxPilha, GerenteProcessa(i)
      PROVE  TypeOK'
  <2>1. i \in 1..Len(pilha) /\ pilha[i] \in Quadros
    BY <1>4 DEF GerenteProcessa, TypeOK
  <2>2. [pilha[i] EXCEPT !.entregue = TRUE] \in Quadros
    BY <2>1 DEF Quadros
  <2>3. TipoPilha'
    BY <1>4, <2>1, <2>2, TrocaProp DEF GerenteProcessa, TypeOK, TipoPilha
  <2>4. gerente' \in Coletas
    BY <1>4, <2>1 DEF GerenteProcessa, Quadros
  <2>. QED
    BY <1>4, <2>3, <2>4 DEF GerenteProcessa, TypeOK, TipoPilha, arquivos
<1>. QED
  BY <1>1, <1>2, <1>3, <1>4

\* A crash empties the stack.
LEMMA TipoQueda ==
  ASSUME TypeOK, ServicoReinicia \/ MaquinaReinicia
  PROVE  TypeOK'
<1>1. Pendentes \subseteq Coletas
  <2>1. \A i \in DOMAIN pilha : pilha[i] \in Quadros
    BY DEF TypeOK
  <2>2. \A q \in Quadros : q.dado \in Coletas
    BY DEF Quadros
  <2>. QED
    BY <2>1, <2>2 DEF Pendentes
<1>2. pilha' = <<>> /\ TipoPilha'
  <2>1. <<>> \in Seq(Quadros) /\ Len(<<>>) = 0 /\ 0 <= MaxPilha
    BY EmptySeq, ColetaAssumption
  <2>2. pilha' = <<>>
    BY DEF ServicoReinicia, MaquinaReinicia
  <2>. QED
    BY <2>1, <2>2 DEF TipoPilha
<1>3. quedas' \in 0..MaxQuedas /\ emTransito' \in SUBSET Coletas
  BY <1>1, ColetaAssumption DEF ServicoReinicia, MaquinaReinicia, TypeOK
<1>4. CASE ServicoReinicia
  BY <1>2, <1>3, <1>4 DEF ServicoReinicia, TypeOK, TipoPilha, arquivos
<1>5. CASE MaquinaReinicia
  <2>1. /\ gercols' \in [pc : {"parado", "coletado", "lido", "gravado", "comparado"},
                         nova : 0..MaxVersao, velha : Coletas]
        /\ gercols'.pc = "parado"
        /\ mapa' \in [pc : {"parado", "aberto", "lido", "gravado"},
                      lida : Coletas]
    BY <1>5, ColetaAssumption
    DEF MaquinaReinicia, GercolsParado, MapaParado, Coletas, SemColeta
  <2>. QED
    BY <1>2, <1>3, <1>5, <2>1
    DEF MaquinaReinicia, TypeOK, TipoPilha, arquivos
<1>. QED
  BY <1>4, <1>5

\* Every behaviour keeps the types, whatever the environment does.
THEOREM TipoCorreto == Spec => []TypeOK
<1>1. TypeOK /\ [Next]_vars => TypeOK'
  <2>1. TypeOK /\ UNCHANGED vars => TypeOK'
    BY DEF vars, TypeOK
  <2>2. TypeOK /\ Next => TypeOK'
    BY TipoForaDoServico, TipoSlots, TipoCiclo, TipoEnvio, TipoQueda
    DEF Next, Servico
  <2>. QED
    BY <2>1, <2>2
<1>. QED
  BY <1>1, TipoInicial, PTL DEF Spec

-----------------------------------------------------------------------------
(* The date of the last delivery.  EntregaProvada is about single frames, so *)
(* it is enough to know which frames a step can add to the stack.            *)

\* Going on in the running frame brings only its new state to the stack.
LEMMA NovosTroca ==
  ASSUME TypeOK, pilha # <<>>, NEW q \in Quadros, TrocaTopo(q)
  PROVE  /\ NaPilha' \subseteq NaPilha \cup {q}
         /\ Topo \in NaPilha
<1>1. pilha \in Seq(Quadros) /\ Len(pilha) \in 1..Len(pilha)
  BY DEF TypeOK
<1>2. DOMAIN pilha' = DOMAIN pilha
  BY DEF TrocaTopo
<1>3. \A i \in DOMAIN pilha : pilha'[i] \in {pilha[i], q}
  BY <1>1 DEF TrocaTopo
<1>. QED
  BY <1>1, <1>2, <1>3 DEF NaPilha, Topo

\* A return brings no new frame to the stack.
LEMMA NovosRetorna ==
  ASSUME TypeOK, pilha # <<>>
  PROVE  {SemTopo[i] : i \in DOMAIN SemTopo} \subseteq NaPilha
<1>1. SemTopo \in Seq(Quadros) /\ pilha \in Seq(Quadros)
  BY RetornaTipo DEF TypeOK
<1>2. DOMAIN SemTopo = 1..Len(SemTopo) /\ DOMAIN pilha = 1..Len(pilha)
  BY <1>1
<1>3. Len(SemTopo) = Len(pilha) - 1 /\ Len(pilha) \in Nat
  BY <1>1, RetornaTipo
<1>4. \A i \in DOMAIN SemTopo : i \in DOMAIN pilha /\ SemTopo[i] = pilha[i]
  BY <1>2, <1>3, RetornaTipo
<1>. QED
  BY <1>4 DEF NaPilha

\* enviarColeta() brings at most the frame of its request to the stack.
LEMMA NovosEnviar ==
  ASSUME TypeOK, NEW abaixo \in Seq(Quadros), EnviarColeta(abaixo)
  PROVE  \/ NaPilha' \subseteq {abaixo[i] : i \in DOMAIN abaixo}
         \/ /\ RamoDoEnvio # "nenhum"
            /\ NaPilha' \subseteq {abaixo[i] : i \in DOMAIN abaixo}
                                \cup {QuadroEnvio(RamoDoEnvio)}
<1>1. CASE pilha' = abaixo
  BY <1>1 DEF NaPilha
<1>2. CASE /\ RamoDoEnvio # "nenhum"
           /\ pilha' = Append(abaixo, QuadroEnvio(RamoDoEnvio))
  <2>1. DOMAIN abaixo = 1..Len(abaixo) /\ Len(abaixo) \in Nat
    OBVIOUS
  <2>2. \A i \in 1..(Len(abaixo) + 1) :
          \/ i \in 1..Len(abaixo) /\ pilha'[i] = abaixo[i]
          \/ pilha'[i] = QuadroEnvio(RamoDoEnvio)
    BY <1>2, <2>1, QuadroEnvioTipo, EmpilhaProp
  <2>3. DOMAIN pilha' = 1..(Len(abaixo) + 1)
    BY <1>2, <2>1
  <2>. QED
    BY <1>2, <2>1, <2>2, <2>3 DEF NaPilha
<1>. QED
  BY <1>1, <1>2 DEF EnviarColeta

\* The manager never loses its last coleta, and a new frame proves itself.
LEMMA ProvadaMantida ==
  ASSUME EntregaProvada,
         gerente # SemColeta => gerente' # SemColeta,
         \A q \in NaPilha' : q \in NaPilha \/ QuadroProvado(q)',
         data' # SemData => data # SemData \/ gerente' # SemColeta,
         SemColeta \notin emTransito'
  PROVE  EntregaProvada'
<1>1. \A q \in NaPilha' : QuadroProvado(q)'
  <2>1. \A q : QuadroProvado(q) => QuadroProvado(q)'
    BY DEF QuadroProvado
  <2>. QED
    BY <2>1 DEF EntregaProvada
<1>. QED
  BY <1>1 DEF EntregaProvada, DataSoDepoisDaEntrega

\* The frames of the timer slot have nothing to prove.
LEMMA CicloProvado ==
  ASSUME NEW pc \in Ciclo, NEW resta
  PROVE  QuadroProvado(QuadroCiclo(pc, resta))'
BY DEF QuadroProvado, QuadroCiclo, Ciclo

\* The frame of a new request holds a coleta read from the file.
LEMMA EnvioProvado ==
  ASSUME RamoDoEnvio # "nenhum", UNCHANGED gerente
  PROVE  QuadroProvado(QuadroEnvio(RamoDoEnvio)) /\ coleta # SemColeta
BY DEF QuadroProvado, QuadroEnvio, RamoDoEnvio

\* The collector, the form, the days and the late requests keep the evidence.
LEMMA ProvadaForaDoServico ==
  ASSUME TypeOK, EntregaProvada,
         \/ MudaInventario \/ PassaDia \/ Gercols \/ Mapa
         \/ \E c \in emTransito : AtrasadaChega(c) \/ AtrasadaSePerde(c)
  PROVE  EntregaProvada'
<1>1. UNCHANGED pilha /\ NaPilha' = NaPilha
  BY DEF MudaInventario, PassaDia, Gercols, GercolsLe, GercolsGrava, GercolsCompara,
         GercolsRegistra, Mapa, MapaLe, MapaGrava, MapaRegistra, MapaFecha,
         AtrasadaChega, AtrasadaSePerde, NaPilha
<1>2. CASE MudaInventario \/ Gercols \/ Mapa
  <2>1. UNCHANGED <<data, gerente, emTransito>>
    BY <1>2
    DEF MudaInventario, Gercols, GercolsLe, GercolsGrava, GercolsCompara, GercolsRegistra,
        Mapa, MapaLe, MapaGrava, MapaRegistra, MapaFecha, arquivos, remoto
  <2>. QED
    BY <1>1, <2>1, ProvadaMantida DEF EntregaProvada
<1>3. CASE PassaDia
  <2>1. data # SemData /\ UNCHANGED <<gerente, emTransito>>
    BY <1>3 DEF PassaDia, SemData, remoto
  <2>. QED
    BY <1>1, <2>1, ProvadaMantida DEF EntregaProvada
<1>4. ASSUME NEW c \in emTransito, AtrasadaChega(c) \/ AtrasadaSePerde(c)
      PROVE  EntregaProvada'
  <2>1. /\ gerente' = gerente \/ gerente' = c
        /\ emTransito' \subseteq emTransito
        /\ data' = data
    BY <1>4 DEF AtrasadaChega, AtrasadaSePerde, arquivos
  <2>2. c # SemColeta /\ SemColeta \notin emTransito
    BY <1>4 DEF EntregaProvada
  <2>. QED
    BY <1>1, <2>1, <2>2, ProvadaMantida
<1>. QED
  BY <1>2, <1>3, <1>4

\* The timer slot keeps the evidence up to its call of enviarColeta().
LEMMA ProvadaCiclo ==
  ASSUME TypeOK, EntregaProvada,
         \/ Mslot \/ ComunicaOk \/ ComunicaTimeout \/ ComunicaErro
         \/ ExecutaGercols \/ GercolsTerminou \/ PulaGercols
         \/ ConsultaMapa \/ GetMapaResponde
  PROVE  EntregaProvada'
<1>1. UNCHANGED <<data, gerente, emTransito>>
  BY DEF Mslot, ComunicaOk, ComunicaTimeout, ComunicaErro, ExecutaGercols,
         GercolsTerminou, PulaGercols, ConsultaMapa, GetMapaResponde,
         arquivos, remoto
<1>2. \A q \in NaPilha' : q \in NaPilha \/ QuadroProvado(q)'
  <2>1. CASE Mslot
    <3>1. QuadroCiclo("gerente", {}) \in Quadros
      BY QuadroCicloTipo DEF Pontos
    <3>2. QuadroProvado(QuadroCiclo("gerente", {}))'
      BY CicloProvado DEF Ciclo
    <3>3. Empilha(QuadroCiclo("gerente", {}))
      BY <2>1 DEF Mslot
    <3>4. \A i \in DOMAIN pilha' :
            \/ i \in DOMAIN pilha /\ pilha'[i] = pilha[i]
            \/ pilha'[i] = QuadroCiclo("gerente", {})
      <4>1. pilha \in Seq(Quadros) /\ DOMAIN pilha = 1..Len(pilha)
        BY DEF TypeOK
      <4>2. DOMAIN pilha' = 1..(Len(pilha) + 1) /\ Len(pilha) \in Nat
        BY <3>1, <3>3, <4>1, EmpilhaTipo
      <4>. QED
        BY <3>1, <3>3, <4>1, <4>2, EmpilhaTipo
    <3>. QED
      BY <3>2, <3>4 DEF NaPilha
  <2>2. CASE ComunicaErro
    BY <2>2, NovosRetorna DEF ComunicaErro, NoTopo, Retorna, NaPilha
  <2>3. ASSUME \/ ComunicaOk \/ ComunicaTimeout \/ ExecutaGercols
               \/ GercolsTerminou \/ PulaGercols \/ ConsultaMapa
               \/ GetMapaResponde
        PROVE  \A q \in NaPilha' : q \in NaPilha \/ QuadroProvado(q)'
    <3>1. pilha # <<>>
      BY <2>3
      DEF NoTopo, ComunicaOk, ComunicaTimeout, ExecutaGercols,
          GercolsTerminou, PulaGercols, ConsultaMapa, GetMapaResponde
    <3>2. Topo.resta \in SUBSET Modulos
      BY <3>1, TopoTipo DEF Quadros
    <3>3. \E pc \in {"modulos", "esperaGercols", "getMapa"} :
            \E resta \in {Modulos, Topo.resta, Topo.resta \ {"gercols"},
                           Topo.resta \ {"mapacacic"}} :
              TrocaTopo(QuadroCiclo(pc, resta))
      BY <2>3
      DEF ComunicaOk, ComunicaTimeout, ExecutaGercols,
          GercolsTerminou, PulaGercols, ConsultaMapa, GetMapaResponde
    <3>4. PICK pc \in Ciclo, resta \in SUBSET Modulos :
            TrocaTopo(QuadroCiclo(pc, resta))
      BY <3>2, <3>3 DEF Ciclo
    <3>5. QuadroCiclo(pc, resta) \in Quadros
      BY QuadroCicloTipo DEF Ciclo, Pontos
    <3>. QED
      BY <3>1, <3>4, <3>5, NovosTroca, CicloProvado
  <2>. QED
    BY <2>1, <2>2, <2>3
<1>. QED
  BY <1>1, <1>2, ProvadaMantida DEF EntregaProvada

\* enviarColeta() is called, by the timer slot or by the user interface.
LEMMA ProvadaEnviar ==
  ASSUME TypeOK, EntregaProvada, EnviaNoCiclo \/ ForcarColeta
  PROVE  EntregaProvada'
<1>1. UNCHANGED <<data, gerente, emTransito>>
  BY DEF EnviaNoCiclo, ForcarColeta, arquivos, remoto
<1>2. PICK abaixo \in Seq(Quadros) :
        /\ EnviarColeta(abaixo)
        /\ {abaixo[i] : i \in DOMAIN abaixo} \subseteq NaPilha
  <2>1. CASE EnviaNoCiclo
    <3>1. pilha # <<>> /\ EnviarColeta(SemTopo)
      BY <2>1 DEF EnviaNoCiclo, NoTopo
    <3>. QED
      BY <3>1, RetornaTipo, NovosRetorna
  <2>2. CASE ForcarColeta
    BY <2>2 DEF ForcarColeta, NaPilha, TypeOK
  <2>. QED
    BY <2>1, <2>2
<1>3. \/ NaPilha' \subseteq NaPilha
      \/ /\ RamoDoEnvio # "nenhum"
         /\ NaPilha' \subseteq NaPilha \cup {QuadroEnvio(RamoDoEnvio)}
  BY <1>2, NovosEnviar
<1>4. ASSUME NEW q \in NaPilha'
      PROVE  q \in NaPilha \/ QuadroProvado(q)'
  <2>1. CASE RamoDoEnvio # "nenhum" /\ q = QuadroEnvio(RamoDoEnvio)
    <3>1. QuadroProvado(q)
      BY <1>1, <2>1, EnvioProvado
    <3>. QED
      BY <1>1, <3>1 DEF QuadroProvado
  <2>. QED
    BY <1>3, <2>1
<1>. QED
  BY <1>1, <1>4, ProvadaMantida DEF EntregaProvada

\* An answer registers a date only over a coleta the manager has stored.
LEMMA ProvadaResposta ==
  ASSUME TypeOK, EntregaProvada, "timeout" \notin Ambiente,
         \/ EnvioOk \/ EnvioTimeout \/ EnvioErro \/ DiffResponde
         \/ \E i \in 1..MaxPilha : GerenteProcessa(i)
  PROVE  EntregaProvada'
<1>1. SemColeta \notin emTransito
  BY DEF EntregaProvada
<1>2. CASE EnvioOk
  <2>1. /\ pilha # <<>> /\ Topo.entregue /\ AposEnvio
        /\ UNCHANGED <<gerente, emTransito>>
    BY <1>2 DEF EnvioOk, NoTopo, AposEnvio
  <2>2. Topo \in Quadros /\ Topo \in NaPilha
    <3>1. Len(pilha) \in DOMAIN pilha
      BY <2>1, TopoTipo DEF TypeOK
    <3>. QED
      BY <2>1, <3>1, TopoTipo DEF NaPilha, Topo
  <2>3. gerente # SemColeta
    BY <2>1, <2>2 DEF EntregaProvada, QuadroProvado
  <2>4. ASSUME NEW q \in NaPilha'
        PROVE  q \in NaPilha \/ QuadroProvado(q)'
    <3>1. CASE Retorna
      BY <2>1, <3>1, NovosRetorna DEF Retorna, NaPilha
    <3>2. CASE TrocaTopo([Topo EXCEPT !.pc = "diff", !.entregue = FALSE])
      <4>1. [Topo EXCEPT !.pc = "diff", !.entregue = FALSE] \in Quadros
        BY <2>2 DEF Quadros, Pontos
      <4>2. [Topo EXCEPT !.pc = "diff", !.entregue = FALSE].pc # "coleta"
        BY <2>2 DEF Quadros
      <4>. QED
        BY <2>1, <2>3, <3>2, <4>1, <4>2, NovosTroca DEF QuadroProvado
    <3>. QED
      BY <2>1, <3>1, <3>2 DEF AposEnvio
  <2>. QED
    BY <1>1, <2>1, <2>3, <2>4, ProvadaMantida
<1>3. CASE EnvioErro
  <2>1. pilha # <<>> /\ Retorna /\ UNCHANGED <<data, gerente, emTransito>>
    BY <1>3 DEF EnvioErro, NoTopo, arquivos, remoto
  <2>2. NaPilha' \subseteq NaPilha
    BY <2>1, NovosRetorna DEF Retorna, NaPilha
  <2>. QED
    BY <1>1, <2>1, <2>2, ProvadaMantida
<1>4. CASE DiffResponde
  <2>1. /\ pilha # <<>> /\ Topo.pc = "diff" /\ Retorna
        /\ UNCHANGED <<gerente, emTransito>>
    BY <1>4 DEF DiffResponde, NoTopo, remoto
  <2>2. NaPilha' \subseteq NaPilha
    BY <2>1, NovosRetorna DEF Retorna, NaPilha
  <2>3. Topo \in NaPilha
    <3>1. Len(pilha) \in DOMAIN pilha
      BY <2>1, TopoTipo DEF TypeOK
    <3>. QED
      BY <3>1 DEF NaPilha, Topo
  <2>4. gerente # SemColeta
    BY <2>1, <2>3 DEF EntregaProvada, QuadroProvado
  <2>. QED
    BY <1>1, <2>1, <2>2, <2>4, ProvadaMantida
<1>5. ASSUME NEW i \in 1..MaxPilha, GerenteProcessa(i)
      PROVE  EntregaProvada'
  <2>1. i \in DOMAIN pilha /\ pilha[i] \in Quadros /\ pilha[i] \in NaPilha
    BY <1>5 DEF GerenteProcessa, TypeOK, NaPilha
  <2>2. /\ pilha[i].pc = "coleta" /\ gerente' = pilha[i].dado
        /\ UNCHANGED <<data, emTransito>>
    BY <1>5 DEF GerenteProcessa, arquivos
  <2>3. gerente' # SemColeta /\ pilha[i].dado # SemColeta
    BY <2>1, <2>2 DEF EntregaProvada, QuadroProvado
  <2>4. ASSUME NEW q \in NaPilha'
        PROVE  q \in NaPilha \/ QuadroProvado(q)'
    <3>1. \/ q \in NaPilha
          \/ q = [pilha[i] EXCEPT !.entregue = TRUE]
      BY <1>5, <2>1 DEF GerenteProcessa, NaPilha
    <3>2. [pilha[i] EXCEPT !.entregue = TRUE].dado = pilha[i].dado
      BY <2>1 DEF Quadros
    <3>. QED
      BY <2>3, <3>1, <3>2 DEF QuadroProvado
  <2>. QED
    BY <1>1, <2>2, <2>3, <2>4, ProvadaMantida
<1>. QED
  BY <1>2, <1>3, <1>4, <1>5 DEF EnvioTimeout

\* What a killed service leaves in transit was read from the file.
LEMMA ProvadaQueda ==
  ASSUME TypeOK, EntregaProvada, ServicoReinicia \/ MaquinaReinicia
  PROVE  EntregaProvada'
<1>1. /\ pilha' = <<>> /\ emTransito' = emTransito \cup Pendentes
      /\ UNCHANGED <<data, gerente>>
  BY DEF ServicoReinicia, MaquinaReinicia, arquivos
<1>2. SemColeta \notin Pendentes
  BY DEF EntregaProvada, QuadroProvado, NaPilha, Pendentes
<1>3. NaPilha' = {}
  BY <1>1 DEF NaPilha
<1>. QED
  BY <1>1, <1>2, <1>3, ProvadaMantida DEF EntregaProvada

\* The date of the last delivery is evidence of a delivery, at every depth of
\* nesting and whatever crashes, provided that comm() reports no timeout as a
\* success.
THEOREM DataProvada ==
  ASSUME "timeout" \notin Ambiente
  PROVE  Spec => []DataSoDepoisDaEntrega
<1>1. Init => EntregaProvada
  BY DEF Init, EntregaProvada, DataSoDepoisDaEntrega, NaPilha
<1>2. TypeOK /\ EntregaProvada /\ [Next]_vars => EntregaProvada'
  <2>1. TypeOK /\ EntregaProvada /\ UNCHANGED vars => EntregaProvada'
    BY DEF vars, EntregaProvada, DataSoDepoisDaEntrega, NaPilha, QuadroProvado
  <2>2. TypeOK /\ EntregaProvada /\ Next => EntregaProvada'
    BY ProvadaForaDoServico, ProvadaCiclo, ProvadaEnviar, ProvadaResposta,
       ProvadaQueda
    DEF Next, Servico
  <2>. QED
    BY <2>1, <2>2
<1>3. EntregaProvada => DataSoDepoisDaEntrega
  BY DEF EntregaProvada
<1>. QED
  BY <1>1, <1>2, <1>3, TipoCorreto, PTL DEF Spec

-----------------------------------------------------------------------------
(* Nothing is forgotten when nothing fails.                                  *)

\* What the order of the stack says of the running frame.
LEMMA PilhaFatos ==
  ASSUME TypeOK
  PROVE  /\ pilha \in Seq(Quadros) /\ Len(pilha) \in Nat
         /\ DOMAIN pilha = 1..Len(pilha)
         /\ pilha # <<>> => Len(pilha) \in DOMAIN pilha /\ Len(pilha) >= 1
         /\ \A i \in DOMAIN pilha : pilha[i] \in Quadros
BY DEF TypeOK

\* A frame of the timer slot that is on top is alone on the stack.
LEMMA CicloSozinho ==
  ASSUME TypeOK, PilhaOrdenada, pilha # <<>>, Topo.pc \in Ciclo
  PROVE  Len(pilha) = 1 /\ pilha[1] = Topo
BY PilhaFatos DEF PilhaOrdenada, Topo

\* While anything but a wait for the collector is on top, it does not run.
LEMMA GercolsParadoForaDaEspera ==
  ASSUME GercolsEsperado, pilha = <<>> \/ Topo.pc # "esperaGercols"
  PROVE  gercols.pc = "parado"
BY DEF GercolsEsperado

\* The steps of the collector: it compares with what the manager has.
LEMMA EsquecidoGercols ==
  ASSUME TypeOK, IndEsquecido, Gercols
  PROVE  IndEsquecido'
<1>1. /\ pilha # <<>> /\ Topo.pc = "esperaGercols" /\ ~enviaColeta
      /\ UNCHANGED <<mapa, pilha, gerente, emTransito>>
  BY DEF Gercols, GercolsLe, GercolsGrava, GercolsCompara, GercolsRegistra, IndEsquecido,
         GercolsEsperado, remoto
<1>2. Len(pilha) = 1 /\ pilha[1] = Topo /\ DOMAIN pilha = {1}
  BY <1>1, CicloSozinho, PilhaFatos DEF IndEsquecido, Ciclo
<1>3. PilhaOrdenada' /\ EnvioAtual'
  BY <1>1, <1>2 DEF IndEsquecido, PilhaOrdenada, EnvioAtual
<1>4. "gercols" \notin pilha[1].resta /\ Topo' = Topo
  BY <1>1, <1>2 DEF IndEsquecido, GercolsEsperado, Topo
<1>5. /\ gercols \in [pc : {"parado", "coletado", "lido", "gravado", "comparado"},
                      nova : 0..MaxVersao, velha : Coletas]
      /\ coleta \in Coletas
  BY DEF TypeOK
<1>6. CASE GercolsLe
  <2>1. /\ gercols'.pc = "lido" /\ gercols'.velha = coleta
        /\ gercols.pc = "coletado" /\ UNCHANGED <<coleta, enviaColeta>>
    BY <1>5, <1>6 DEF GercolsLe, arquivos
  <2>2. GercolsEsperado'
    BY <1>1, <1>2, <1>4, <2>1
    DEF IndEsquecido, GercolsEsperado, NadaEsquecido
  <2>3. MarcaEmAndamento' /\ NadaEsquecido'
    BY <1>1, <2>1 DEF IndEsquecido, MarcaEmAndamento, NadaEsquecido
  <2>. QED
    BY <1>1, <1>3, <2>1, <2>2, <2>3 DEF IndEsquecido
<1>7. CASE GercolsGrava
  <2>1. /\ gercols'.pc = "gravado" /\ gercols'.velha = gercols.velha
        /\ gercols'.nova = gercols.nova /\ gercols.pc = "lido"
        /\ coleta' = [inv |-> gercols.nova, pat |-> FALSE]
        /\ UNCHANGED enviaColeta
    BY <1>5, <1>7 DEF GercolsGrava
  <2>2. coleta'.inv = gercols'.nova /\ ~coleta'.pat
    BY <2>1
  <2>3. GercolsEsperado'
    BY <1>1, <1>2, <1>4, <2>1, <2>2 DEF IndEsquecido, GercolsEsperado
  <2>4. MarcaEmAndamento' /\ NadaEsquecido'
    BY <1>1, <2>1 DEF MarcaEmAndamento, NadaEsquecido
  <2>. QED
    BY <1>1, <1>3, <2>2, <2>3, <2>4 DEF IndEsquecido
<1>9. CASE GercolsCompara
  <2>1. /\ gercols'.pc = "comparado" /\ gercols'.velha = gercols.velha
        /\ gercols'.nova = gercols.nova /\ gercols.pc = "gravado"
        /\ UNCHANGED <<coleta, enviaColeta>>
    BY <1>5, <1>9 DEF GercolsCompara
  <2>2. GercolsEsperado'
    BY <1>1, <1>2, <1>4, <2>1 DEF IndEsquecido, GercolsEsperado
  <2>3. MarcaEmAndamento' /\ NadaEsquecido'
    BY <1>1, <2>1 DEF MarcaEmAndamento, NadaEsquecido
  <2>. QED
    BY <1>1, <1>3, <2>1, <2>2, <2>3 DEF IndEsquecido
<1>8. CASE GercolsRegistra
  <2>1. /\ gercols.pc = "comparado" /\ gercols' = GercolsParado
        /\ enviaColeta' = (\/ gercols.velha = SemColeta
                           \/ verificaColeta(gercols.velha, gercols.nova))
        /\ UNCHANGED coleta
    BY <1>8 DEF GercolsRegistra, Difere
  <2>2. coleta.inv = gercols.nova /\ gercols.nova # 0 /\ coleta # SemColeta
    BY <2>1 DEF IndEsquecido, GercolsEsperado, TypeOK, SemColeta
  <2>3. gercols'.pc = "parado" /\ gercols'.velha.pat = FALSE
    BY <2>1 DEF GercolsParado, SemColeta
  <2>4. GercolsEsperado'
    BY <1>1, <1>2, <1>4, <2>3 DEF IndEsquecido, GercolsEsperado
  <2>5. MarcaEmAndamento'
    BY <1>1, <1>2, <1>4, <2>1, <2>2 DEF MarcaEmAndamento
  <2>6. ~enviaColeta' => gerente.inv = coleta.inv
    <3>1. gercols.velha.pat = FALSE /\ gercols.velha \in Coletas
      BY <1>5 DEF IndEsquecido, GercolsEsperado
    <3>2. gercols.velha.inv = 0 => gercols.velha = SemColeta
      BY <3>1 DEF Coletas, SemColeta
    <3>3. gercols.velha # SemColeta => gerente.inv = gercols.velha.inv
      BY <2>1 DEF IndEsquecido, GercolsEsperado
    <3>. QED
      BY <2>1, <2>2, <3>2, <3>3 DEF verificaColeta
  <2>7. NadaEsquecido'
    BY <1>1, <2>1, <2>6 DEF NadaEsquecido
  <2>. QED
    BY <1>1, <1>3, <2>1, <2>4, <2>5, <2>7 DEF IndEsquecido
<1>. QED
  BY <1>6, <1>7, <1>8, <1>9 DEF Gercols

\* One frame of the timer slot replaces another at the bottom of the stack.
LEMMA EsquecidoTroca ==
  ASSUME TypeOK, IndEsquecido,
         pilha # <<>>, Topo.pc \in Ciclo,
         NEW q \in Quadros, TrocaTopo(q), q.pc \in Ciclo,
         UNCHANGED <<coleta, enviaColeta, gerente, emTransito, mapa>>,
         q.pc = "esperaGercols" => "gercols" \notin q.resta,
         enviaColeta => q.pc # "gerente" /\ "gercols" \notin q.resta,
         \/ gercols'.pc = "parado"
         \/ /\ gercols'.pc = "coletado" /\ q.pc = "esperaGercols"
            /\ ~enviaColeta,
         gercols'.velha.pat = FALSE,
         gercols.pc = "parado"
  PROVE  IndEsquecido'
<1>1. Len(pilha) = 1 /\ pilha[1] = Topo
  BY CicloSozinho DEF IndEsquecido
<1>2. /\ Len(pilha') = 1 /\ DOMAIN pilha' = {1}
      /\ pilha'[1] = q /\ pilha' # <<>>
  BY <1>1, TrocaTipo
<1>3. Topo' = q
  BY <1>2 DEF Topo
<1>4. PilhaOrdenada' /\ EnvioAtual'
  BY <1>2 DEF PilhaOrdenada, EnvioAtual, Ciclo
<1>5. GercolsEsperado'
  BY <1>2, <1>3 DEF GercolsEsperado
<1>6. MarcaEmAndamento'
  BY <1>2 DEF IndEsquecido, MarcaEmAndamento, Ciclo
<1>7. NadaEsquecido'
  BY DEF IndEsquecido, NadaEsquecido
<1>. QED
  BY <1>4, <1>5, <1>6, <1>7 DEF IndEsquecido

\* The steps of the timer slot that neither start nor end a request.
LEMMA EsquecidoCiclo ==
  ASSUME TypeOK, IndEsquecido, Ambiente = {},
         \/ ComunicaOk \/ ComunicaTimeout \/ ComunicaErro
         \/ ExecutaGercols \/ GercolsTerminou \/ PulaGercols
         \/ ConsultaMapa \/ GetMapaResponde
  PROVE  IndEsquecido'
<1>1. /\ UNCHANGED <<coleta, enviaColeta, gerente, emTransito>>
      /\ pilha # <<>> /\ Topo.pc \in Ciclo
  BY DEF ComunicaOk, ComunicaTimeout, ComunicaErro, ExecutaGercols,
         GercolsTerminou, PulaGercols, ConsultaMapa, GetMapaResponde, NoTopo,
         arquivos, remoto, Ciclo
<1>2. Topo \in Quadros /\ Topo.resta \in SUBSET Modulos
  BY <1>1, TopoTipo DEF Quadros
<1>3. pilha[1] = Topo /\ 1 \in DOMAIN pilha
  BY <1>1, CicloSozinho, PilhaFatos DEF IndEsquecido
<1>4. gercols.velha.pat = FALSE
  BY DEF IndEsquecido, GercolsEsperado
<1>5. enviaColeta => Topo.pc # "gerente" /\ "gercols" \notin Topo.resta
  BY <1>1, <1>3 DEF IndEsquecido, MarcaEmAndamento, Ciclo
<1>6. /\ "modulos" \in Pontos /\ "esperaGercols" \in Pontos
      /\ "getMapa" \in Pontos
      /\ "modulos" \in Ciclo /\ "esperaGercols" \in Ciclo
      /\ "getMapa" \in Ciclo
  BY DEF Pontos, Ciclo
<1>7. \A pc, resta : /\ QuadroCiclo(pc, resta).pc = pc
                     /\ QuadroCiclo(pc, resta).resta = resta
  BY DEF QuadroCiclo
<1>8. CASE ComunicaOk
  <2>1. /\ TrocaTopo(QuadroCiclo("modulos", Modulos)) /\ ~enviaColeta
        /\ UNCHANGED <<gercols, mapa>> /\ gercols.pc = "parado"
    BY <1>5, <1>8, GercolsParadoForaDaEspera
    DEF ComunicaOk, NoTopo, IndEsquecido
  <2>2. QuadroCiclo("modulos", Modulos) \in Quadros
    BY <1>6, QuadroCicloTipo
  <2>. DEFINE q == QuadroCiclo("modulos", Modulos)
  <2>3. q \in Quadros /\ TrocaTopo(q) /\ q.pc = "modulos"
    BY <1>7, <2>1, <2>2
  <2>. HIDE DEF q
  <2>. QED
    BY <1>1, <1>4, <1>6, <2>1, <2>3, EsquecidoTroca
<1>9. CASE ExecutaGercols
  <2>1. /\ TrocaTopo(QuadroCiclo("esperaGercols", Topo.resta \ {"gercols"}))
        /\ "gercols" \in Topo.resta
        /\ gercols' = [GercolsParado EXCEPT !.pc = "coletado",
                                            !.nova = inventario]
        /\ gercols.pc = "parado" /\ UNCHANGED mapa
    BY <1>9 DEF ExecutaGercols
  <2>2. gercols'.pc = "coletado" /\ gercols'.velha.pat = FALSE
    BY <2>1 DEF GercolsParado, SemColeta
  <2>3. QuadroCiclo("esperaGercols", Topo.resta \ {"gercols"}) \in Quadros
    BY <1>2, <1>6, QuadroCicloTipo
  <2>4. ~enviaColeta /\ "gercols" \notin Topo.resta \ {"gercols"}
    BY <1>5, <2>1
  <2>. DEFINE q == QuadroCiclo("esperaGercols", Topo.resta \ {"gercols"})
  <2>5. /\ q \in Quadros /\ TrocaTopo(q) /\ q.pc = "esperaGercols"
        /\ "gercols" \notin q.resta
    BY <1>7, <2>1, <2>3, <2>4
  <2>. HIDE DEF q
  <2>. QED
    BY <1>1, <1>6, <2>1, <2>2, <2>4, <2>5, EsquecidoTroca
<1>10. CASE GercolsTerminou
  <2>1. /\ TrocaTopo(QuadroCiclo("modulos", Topo.resta))
        /\ Topo.pc = "esperaGercols"
        /\ gercols.pc = "parado" /\ UNCHANGED <<gercols, mapa>>
    BY <1>10 DEF GercolsTerminou, NoTopo
  <2>2. QuadroCiclo("modulos", Topo.resta) \in Quadros
    BY <1>2, <1>6, QuadroCicloTipo
  <2>3. "gercols" \notin Topo.resta
    BY <1>3, <2>1 DEF IndEsquecido, GercolsEsperado
  <2>. DEFINE q == QuadroCiclo("modulos", Topo.resta)
  <2>4. /\ q \in Quadros /\ TrocaTopo(q) /\ q.pc = "modulos"
        /\ "gercols" \notin q.resta
    BY <1>7, <2>1, <2>2, <2>3
  <2>. HIDE DEF q
  <2>. QED
    BY <1>1, <1>4, <1>6, <2>1, <2>4, EsquecidoTroca
<1>11. CASE ConsultaMapa
  <2>1. /\ TrocaTopo(QuadroCiclo("getMapa", Topo.resta \ {"mapacacic"}))
        /\ UNCHANGED <<gercols, mapa>> /\ gercols.pc = "parado"
    BY <1>11, GercolsParadoForaDaEspera DEF ConsultaMapa, NoTopo, IndEsquecido
  <2>2. QuadroCiclo("getMapa", Topo.resta \ {"mapacacic"}) \in Quadros
    BY <1>2, <1>6, QuadroCicloTipo
  <2>3. enviaColeta => "gercols" \notin Topo.resta \ {"mapacacic"}
    BY <1>5
  <2>. DEFINE q == QuadroCiclo("getMapa", Topo.resta \ {"mapacacic"})
  <2>4. /\ q \in Quadros /\ TrocaTopo(q) /\ q.pc = "getMapa"
        /\ enviaColeta => "gercols" \notin q.resta
    BY <1>7, <2>1, <2>2, <2>3
  <2>. HIDE DEF q
  <2>. QED
    BY <1>1, <1>4, <1>6, <2>1, <2>4, EsquecidoTroca
<1>12. CASE GetMapaResponde
  <2>1. /\ TrocaTopo(QuadroCiclo("modulos", Topo.resta))
        /\ UNCHANGED gercols /\ gercols.pc = "parado"
    BY <1>12, GercolsParadoForaDaEspera
    DEF GetMapaResponde, NoTopo, IndEsquecido
  <2>3. UNCHANGED mapa
    BY <1>12 DEF GetMapaResponde
  <2>2. QuadroCiclo("modulos", Topo.resta) \in Quadros
    BY <1>2, <1>6, QuadroCicloTipo
  <2>. DEFINE q == QuadroCiclo("modulos", Topo.resta)
  <2>4. /\ q \in Quadros /\ TrocaTopo(q) /\ q.pc = "modulos"
        /\ enviaColeta => "gercols" \notin q.resta
    BY <1>5, <1>7, <2>1, <2>2
  <2>. HIDE DEF q
  <2>. QED
    BY <1>1, <1>4, <1>6, <2>1, <2>3, <2>4, EsquecidoTroca
<1>13. CASE PulaGercols
  <2>1. gercols.pc # "parado" /\ Topo.pc = "modulos"
    BY <1>13 DEF PulaGercols, NoTopo
  <2>. QED
    BY <2>1, GercolsParadoForaDaEspera DEF IndEsquecido
<1>. QED
  BY <1>8, <1>9, <1>10, <1>11, <1>12, <1>13 DEF ComunicaTimeout, ComunicaErro

\* The timer fires: nothing is marked, since nothing is on its way.
LEMMA EsquecidoMslot ==
  ASSUME TypeOK, IndEsquecido, Ambiente = {}, Mslot
  PROVE  IndEsquecido'
<1>1. /\ pilha = <<>> /\ Empilha(QuadroCiclo("gerente", {}))
      /\ UNCHANGED <<coleta, enviaColeta, gercols, mapa, gerente, emTransito>>
  BY DEF Mslot, arquivos, remoto
<1>2. ~enviaColeta /\ gercols.pc = "parado"
  BY <1>1 DEF IndEsquecido, MarcaEmAndamento, GercolsEsperado
<1>3. QuadroCiclo("gerente", {}) \in Quadros
  BY QuadroCicloTipo DEF Pontos
<1>4. /\ Len(pilha') = 1 /\ DOMAIN pilha' = {1}
      /\ pilha'[1] = QuadroCiclo("gerente", {})
  BY <1>1, <1>3, EmpilhaTipo
<1>5. pilha'[1].pc = "gerente"
  BY <1>4 DEF QuadroCiclo
<1>6. PilhaOrdenada' /\ EnvioAtual' /\ GercolsEsperado'
  BY <1>1, <1>2, <1>4, <1>5
  DEF IndEsquecido, PilhaOrdenada, EnvioAtual, GercolsEsperado
<1>7. MarcaEmAndamento' /\ NadaEsquecido'
  BY <1>1, <1>2 DEF IndEsquecido, MarcaEmAndamento, NadaEsquecido
<1>. QED
  BY <1>1, <1>6, <1>7 DEF IndEsquecido

\* A return uncovers the frames below.
LEMMA RetornaFatos ==
  ASSUME TypeOK, pilha # <<>>, Retorna
  PROVE  /\ Len(pilha') = Len(pilha) - 1
         /\ DOMAIN pilha' = 1..(Len(pilha) - 1)
         /\ \A i \in DOMAIN pilha' :
              /\ i \in DOMAIN pilha /\ pilha'[i] = pilha[i]
              /\ i # Len(pilha)
         /\ Len(pilha) > 1 => pilha' # <<>> /\ pilha'[1] = pilha[1]
<1>1. /\ pilha' \in Seq(Quadros) /\ Len(pilha') = Len(pilha) - 1
      /\ \A i \in 1..(Len(pilha) - 1) : pilha'[i] = pilha[i]
  BY RetornaTipo DEF Retorna
<1>2. DOMAIN pilha' = 1..(Len(pilha) - 1)
  BY <1>1
<1>3. Len(pilha) \in Nat /\ DOMAIN pilha = 1..Len(pilha)
  BY PilhaFatos
<1>4. Len(pilha) > 1 => 1 \in 1..(Len(pilha) - 1) /\ pilha' # <<>>
  BY <1>1, <1>3
<1>. QED
  BY <1>1, <1>2, <1>3, <1>4

\* The cycle ends: what is marked is sent, because a request can be made.
LEMMA EsquecidoEnviaNoCiclo ==
  ASSUME TypeOK, IndEsquecido, Ambiente = {}, EnviaNoCiclo
  PROVE  IndEsquecido'
<1>1. /\ pilha # <<>> /\ Topo.pc = "modulos" /\ EnviarColeta(SemTopo)
      /\ UNCHANGED <<coleta, enviaColeta, gercols, mapa, gerente, emTransito>>
  BY DEF EnviaNoCiclo, NoTopo, arquivos, remoto
<1>2. Len(pilha) = 1
  BY <1>1, CicloSozinho DEF IndEsquecido, Ciclo
<1>3. SemTopo \in Seq(Quadros) /\ Len(SemTopo) = 0
  BY <1>1, <1>2, RetornaTipo
<1>4. gercols.pc = "parado"
  BY <1>1, GercolsParadoForaDaEspera DEF IndEsquecido
<1>5. NadaEsquecido'
  BY <1>1 DEF IndEsquecido, NadaEsquecido
<1>6. CASE RamoDoEnvio = "nenhum" /\ pilha' = SemTopo
  <2>1. ~enviaColeta
    BY <1>6 DEF RamoDoEnvio, IndEsquecido, MarcaEmAndamento
  <2>2. DOMAIN pilha' = {}
    BY <1>3, <1>6
  <2>. QED
    BY <1>1, <1>4, <1>5, <2>1, <2>2
    DEF IndEsquecido, PilhaOrdenada, GercolsEsperado, EnvioAtual,
        MarcaEmAndamento
<1>7. CASE RamoDoEnvio # "nenhum" /\ Len(pilha') = Len(SemTopo) + 1
           /\ pilha'[Len(SemTopo) + 1] = QuadroEnvio(RamoDoEnvio)
           /\ pilha' \in Seq(Quadros)
  <2>1. /\ DOMAIN pilha' = {1} /\ Len(pilha') = 1 /\ pilha' # <<>>
        /\ pilha'[1] = QuadroEnvio(RamoDoEnvio)
    BY <1>3, <1>7
  <2>2. /\ pilha'[1].pc = "coleta" /\ pilha'[1].dado = coleta
        /\ ~pilha'[1].entregue
    BY <2>1 DEF QuadroEnvio
  <2>3. PilhaOrdenada' /\ EnvioAtual' /\ GercolsEsperado'
    BY <1>1, <1>4, <2>1, <2>2
    DEF IndEsquecido, PilhaOrdenada, EnvioAtual, GercolsEsperado, Ciclo
  <2>4. MarcaEmAndamento'
    BY <1>1, <2>1, <2>2 DEF IndEsquecido, MarcaEmAndamento
  <2>. QED
    BY <1>1, <1>5, <2>3, <2>4 DEF IndEsquecido
<1>. QED
  BY <1>1, <1>3, <1>6, <1>7, EnviarTipo

\* FORCAR: the event loop runs, so the collector does not.
LEMMA EsquecidoForcar ==
  ASSUME TypeOK, IndEsquecido, Ambiente = {}, ForcarColeta
  PROVE  IndEsquecido'
<1>1. /\ EnviarColeta(pilha)
      /\ pilha # <<>> => Topo.pc \in Espera
      /\ UNCHANGED <<coleta, enviaColeta, gercols, mapa, gerente, emTransito>>
  BY DEF ForcarColeta, DespachaEventos, arquivos, remoto
<1>2. gercols.pc = "parado"
  BY <1>1, GercolsParadoForaDaEspera DEF IndEsquecido, Espera
<1>3. NadaEsquecido'
  BY <1>1 DEF IndEsquecido, NadaEsquecido
<1>4. CASE UNCHANGED pilha
  BY <1>1, <1>4
  DEF IndEsquecido, PilhaOrdenada, GercolsEsperado, EnvioAtual,
      MarcaEmAndamento, NadaEsquecido, Topo
<1>5. CASE /\ pilha' \in Seq(Quadros) /\ Len(pilha') = Len(pilha) + 1
           /\ pilha'[Len(pilha) + 1] = QuadroEnvio(RamoDoEnvio)
           /\ \A i \in 1..Len(pilha) : pilha'[i] = pilha[i]
  <2>. DEFINE n == Len(pilha)
  <2>1. /\ DOMAIN pilha' = 1..(n + 1) /\ DOMAIN pilha = 1..n /\ n \in Nat
        /\ Len(pilha') = n + 1
    BY <1>5, PilhaFatos
  <2>2. /\ pilha'[n + 1].pc = "coleta" /\ pilha'[n + 1].dado = coleta
        /\ ~pilha'[n + 1].entregue
    BY <1>5 DEF QuadroEnvio
  <2>3. ASSUME NEW i \in DOMAIN pilha'
        PROVE  \/ i = n + 1
               \/ i \in DOMAIN pilha /\ pilha'[i] = pilha[i]
    BY <1>5, <2>1, <2>3
  <2>4. \A i \in DOMAIN pilha : pilha[i].pc \in Espera \/ i # n
    BY <1>1, <2>1 DEF Topo
  <2>. HIDE DEF n
  <2>5. PilhaOrdenada'
    <3>1. ASSUME NEW i \in DOMAIN pilha'
          PROVE  /\ i # Len(pilha') => pilha'[i].pc \in Espera
                 /\ pilha'[i].pc \in Ciclo => i = 1
      <4>1. CASE i = n + 1
        BY <2>1, <2>2, <4>1 DEF Ciclo
      <4>2. CASE i \in DOMAIN pilha /\ pilha'[i] = pilha[i]
        BY <2>4, <4>2 DEF IndEsquecido, PilhaOrdenada, n
      <4>. QED
        BY <2>3, <4>1, <4>2
    <3>. QED
      BY <3>1 DEF PilhaOrdenada
  <2>6. EnvioAtual'
    BY <1>1, <2>2, <2>3 DEF IndEsquecido, EnvioAtual
  <2>7. GercolsEsperado'
    BY <1>1, <1>2, <2>2, <2>3 DEF IndEsquecido, GercolsEsperado
  <2>8. MarcaEmAndamento'
    <3>1. enviaColeta => 1 \in 1..n /\ pilha' # <<>>
      BY <2>1, PilhaFatos DEF IndEsquecido, MarcaEmAndamento, n
    <3>2. enviaColeta => pilha'[1] = pilha[1]
      BY <1>5, <3>1 DEF n
    <3>. QED
      BY <1>1, <3>1, <3>2 DEF IndEsquecido, MarcaEmAndamento
  <2>. QED
    BY <1>1, <1>3, <2>5, <2>6, <2>7, <2>8 DEF IndEsquecido
<1>. QED
  <2>1. pilha \in Seq(Quadros)
    BY PilhaFatos
  <2>. QED
    BY <1>1, <1>4, <1>5, <2>1, EnviarTipo

\* The manager stores a pending coleta: it is the one of the file.
LEMMA EsquecidoProcessa ==
  ASSUME TypeOK, IndEsquecido, NEW i \in 1..MaxPilha, GerenteProcessa(i)
  PROVE  IndEsquecido'
<1>1. /\ i \in DOMAIN pilha /\ pilha[i].pc = "coleta"
      /\ pilha' = [pilha EXCEPT ![i].entregue = TRUE]
      /\ gerente' = pilha[i].dado
      /\ UNCHANGED <<coleta, enviaColeta, gercols, mapa, emTransito>>
  BY DEF GerenteProcessa, arquivos
<1>2. gerente'.inv = coleta.inv
  BY <1>1 DEF IndEsquecido, EnvioAtual
<1>3. /\ Len(pilha') = Len(pilha) /\ DOMAIN pilha' = DOMAIN pilha
      /\ pilha # <<>> /\ pilha' # <<>>
  BY <1>1, PilhaFatos
<1>4. \A j \in DOMAIN pilha :
        /\ pilha'[j].pc = pilha[j].pc
        /\ pilha'[j].dado = pilha[j].dado
        /\ pilha'[j].resta = pilha[j].resta
  BY <1>1, PilhaFatos DEF Quadros
<1>5. gercols.pc = "parado"
  <2>1. CASE Topo.pc = "esperaGercols"
    <3>1. Len(pilha) = 1 /\ pilha[1] = Topo
      BY <1>3, <2>1, CicloSozinho DEF IndEsquecido, Ciclo
    <3>2. i = 1
      BY <1>1, <3>1, PilhaFatos
    <3>. QED
      BY <1>1, <2>1, <3>1, <3>2
  <2>. QED
    BY <2>1, GercolsParadoForaDaEspera DEF IndEsquecido
<1>6. PilhaOrdenada' /\ EnvioAtual'
  BY <1>1, <1>2, <1>3, <1>4 DEF IndEsquecido, PilhaOrdenada, EnvioAtual
<1>7. GercolsEsperado'
  BY <1>1, <1>3, <1>4, <1>5 DEF IndEsquecido, GercolsEsperado
<1>8. MarcaEmAndamento'
  <2>1. 1 \in DOMAIN pilha
    BY <1>3, PilhaFatos
  <2>. QED
    BY <1>1, <1>3, <1>4, <2>1 DEF IndEsquecido, MarcaEmAndamento
<1>9. NadaEsquecido'
  BY <1>1, <1>2 DEF NadaEsquecido
<1>. QED
  BY <1>1, <1>6, <1>7, <1>8, <1>9 DEF IndEsquecido

\* An answered request: what is no longer marked is what the manager has.
LEMMA EsquecidoResposta ==
  ASSUME TypeOK, IndEsquecido, Ambiente = {},
         EnvioOk \/ EnvioTimeout \/ EnvioErro \/ DiffResponde
  PROVE  IndEsquecido'
<1>1. EnvioOk \/ DiffResponde
  BY DEF EnvioTimeout, EnvioErro
<1>2. /\ pilha # <<>> /\ Topo.pc \in {"coleta", "diff"}
      /\ UNCHANGED <<coleta, gercols, mapa, gerente, emTransito>>
  BY <1>1 DEF EnvioOk, AposEnvio, DiffResponde, NoTopo, remoto
<1>3. gercols.pc = "parado"
  BY <1>2, GercolsParadoForaDaEspera DEF IndEsquecido
<1>4. Len(pilha) \in DOMAIN pilha /\ Topo = pilha[Len(pilha)]
  BY <1>2, PilhaFatos DEF Topo
<1>5. CASE EnvioOk
  <2>1. Topo.entregue /\ Topo.pc = "coleta" /\ ~enviaColeta'
    BY <1>5 DEF EnvioOk, NoTopo, AposEnvio
  <2>2. gerente.inv = coleta.inv
    BY <1>4, <2>1 DEF IndEsquecido, EnvioAtual
  <2>3. NadaEsquecido' /\ MarcaEmAndamento'
    BY <1>2, <2>1, <2>2 DEF NadaEsquecido, MarcaEmAndamento
  <2>4. PilhaOrdenada' /\ EnvioAtual' /\ GercolsEsperado'
    <3>1. CASE Retorna
      <4>1. Len(pilha) \in Nat
        BY PilhaFatos
      <4>2. PilhaOrdenada'
        BY <1>2, <3>1, <4>1, RetornaFatos DEF IndEsquecido, PilhaOrdenada
      <4>3. EnvioAtual'
        BY <1>2, <3>1, RetornaFatos DEF IndEsquecido, EnvioAtual
      <4>4. GercolsEsperado'
        BY <1>2, <1>3, <3>1, RetornaFatos DEF IndEsquecido, GercolsEsperado
      <4>. QED
        BY <4>2, <4>3, <4>4
    <3>2. CASE TrocaTopo([Topo EXCEPT !.pc = "diff", !.entregue = FALSE])
      <4>. DEFINE q == [Topo EXCEPT !.pc = "diff", !.entregue = FALSE]
      <4>1. q \in Quadros /\ q.pc = "diff"
        BY <1>2, TopoTipo DEF Quadros, Pontos
      <4>2. TrocaTopo(q)
        BY <3>2
      <4>. HIDE DEF q
      <4>3. /\ Len(pilha') = Len(pilha) /\ pilha'[Len(pilha)] = q
            /\ pilha' \in Seq(Quadros)
            /\ \A i \in 1..Len(pilha) : i # Len(pilha) => pilha'[i] = pilha[i]
        BY <1>2, <4>1, <4>2, TrocaTipo
      <4>4. DOMAIN pilha' = 1..Len(pilha) /\ DOMAIN pilha = 1..Len(pilha)
        BY <4>3, PilhaFatos
      <4>5. PilhaOrdenada'
        BY <4>1, <4>3, <4>4 DEF IndEsquecido, PilhaOrdenada, Ciclo
      <4>6. EnvioAtual'
        BY <1>2, <4>1, <4>3, <4>4 DEF IndEsquecido, EnvioAtual
      <4>7. GercolsEsperado'
        BY <1>2, <1>3, <4>1, <4>3, <4>4 DEF IndEsquecido, GercolsEsperado
      <4>. QED
        BY <4>5, <4>6, <4>7
    <3>. QED
      BY <1>5, <3>1, <3>2 DEF EnvioOk, AposEnvio
  <2>. QED
    BY <1>2, <2>3, <2>4 DEF IndEsquecido
<1>6. CASE DiffResponde
  <2>1. Retorna /\ Topo.pc = "diff" /\ UNCHANGED enviaColeta
    BY <1>6 DEF DiffResponde, NoTopo
  <2>2. NadaEsquecido'
    BY <1>2, <2>1 DEF IndEsquecido, NadaEsquecido
  <2>3. MarcaEmAndamento'
    <3>1. enviaColeta => Len(pilha) # 1
      BY <1>4, <2>1 DEF IndEsquecido, MarcaEmAndamento
    <3>2. enviaColeta => Len(pilha) > 1
      BY <1>2, <3>1, PilhaFatos
    <3>. QED
      BY <1>2, <2>1, <3>2, RetornaFatos DEF IndEsquecido, MarcaEmAndamento
  <2>4. Len(pilha) \in Nat
    BY PilhaFatos
  <2>5. PilhaOrdenada'
    BY <1>2, <2>1, <2>4, RetornaFatos DEF IndEsquecido, PilhaOrdenada
  <2>6. EnvioAtual'
    BY <1>2, <2>1, RetornaFatos DEF IndEsquecido, EnvioAtual
  <2>7. GercolsEsperado'
    BY <1>2, <1>3, <2>1, RetornaFatos DEF IndEsquecido, GercolsEsperado
  <2>. QED
    BY <1>2, <2>2, <2>3, <2>5, <2>6, <2>7 DEF IndEsquecido
<1>. QED
  BY <1>1, <1>5, <1>6

\* The rest of the steps change nothing the invariant speaks of, or need a
\* disturbance.
LEMMA EsquecidoResto ==
  ASSUME TypeOK, IndEsquecido, Ambiente = {},
         \/ MudaInventario \/ PassaDia \/ Mapa
         \/ \E c \in emTransito : AtrasadaChega(c) \/ AtrasadaSePerde(c)
         \/ ServicoReinicia \/ MaquinaReinicia
         \/ UNCHANGED vars
  PROVE  IndEsquecido'
<1>1. MudaInventario \/ PassaDia \/ UNCHANGED vars
  BY DEF IndEsquecido, Mapa, MapaLe, MapaGrava, MapaRegistra, MapaFecha,
         ServicoReinicia, MaquinaReinicia
<1>2. UNCHANGED <<coleta, enviaColeta, gercols, mapa, pilha, gerente, emTransito>>
  BY <1>1 DEF MudaInventario, PassaDia, vars, arquivos, remoto
<1>. QED
  BY <1>2
  DEF IndEsquecido, PilhaOrdenada, GercolsEsperado, EnvioAtual,
      MarcaEmAndamento, NadaEsquecido, Topo

\* Nothing is forgotten when no request fails or times out, no process dies and
\* neither the form nor the timer gets in the way of a cycle: the user may press
\* FORCAR at any depth of the event loop, and the inventory may change at any
\* point. Each of the five disturbances left out breaks it.
THEOREM NadaEsquecidoSemFalhas ==
  ASSUME Ambiente = {}
  PROVE  Spec => []NadaEsquecido
<1>1. Init => IndEsquecido
  <2>. SUFFICES ASSUME Init PROVE IndEsquecido
    OBVIOUS
  <2>1. DOMAIN pilha = {}
    BY DEF Init
  <2>. QED
    BY <2>1
    DEF Init, IndEsquecido, PilhaOrdenada, GercolsEsperado, EnvioAtual,
        MarcaEmAndamento, NadaEsquecido, GercolsParado, MapaParado, SemColeta
<1>2. TypeOK /\ IndEsquecido /\ [Next]_vars => IndEsquecido'
  <2>1. TypeOK /\ IndEsquecido /\ UNCHANGED vars => IndEsquecido'
    BY EsquecidoResto
  <2>2. TypeOK /\ IndEsquecido /\ Servico => IndEsquecido'
    BY EsquecidoMslot, EsquecidoCiclo, EsquecidoEnviaNoCiclo, EsquecidoForcar,
       EsquecidoResposta
    DEF Servico
  <2>3. TypeOK /\ IndEsquecido /\ Next => IndEsquecido'
    BY <2>2, EsquecidoGercols, EsquecidoProcessa, EsquecidoResto DEF Next
  <2>. QED
    BY <2>1, <2>3
<1>3. IndEsquecido => NadaEsquecido
  BY DEF IndEsquecido
<1>. QED
  BY <1>1, <1>2, <1>3, TipoCorreto, PTL DEF Spec
=============================================================================
