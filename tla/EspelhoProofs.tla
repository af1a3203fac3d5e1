---------------------------- MODULE EspelhoProofs ----------------------------
(* Proofs about the manager's copy of the inventory: that it is a mirror,    *)
(* whatever happens, and that it never goes back when nothing but an error   *)
(* happens. Both rest on where a step takes the copies it makes from.        *)
EXTENDS ColetaProofs

\* The running frame is on the stack.
LEMMA TopoNaPilha ==
  ASSUME TypeOK, pilha # <<>>
  PROVE  Topo \in NaPilha /\ Topo \in Quadros
BY TopoTipo, PilhaFatos DEF NaPilha, Topo

\* A frame that a step brings to the stack is a stage of the timer slot, a
\* request with what the file holds, or a request that goes on.
QuadroNovo(q) ==
  \/ q.pc \in Ciclo /\ q.dado = SemColeta
  \/ q.pc = "coleta" /\ q.dado = coleta /\ UNCHANGED coleta
  \/ /\ q.pc \in {"coleta", "diff"} /\ UNCHANGED coleta
     /\ \E p \in NaPilha : p.pc = "coleta" /\ q.dado = p.dado

\* The frames of the timer slot carry nothing.
LEMMA CicloNovo ==
  ASSUME NEW pc \in Ciclo, NEW resta
  PROVE  QuadroNovo(QuadroCiclo(pc, resta))
BY DEF QuadroNovo, QuadroCiclo

\* The steps of the timer slot bring its own frames.
LEMMA NovosCiclo ==
  ASSUME TypeOK,
         \/ Mslot \/ ComunicaOk \/ ComunicaTimeout \/ ComunicaErro
         \/ ExecutaGercols \/ GercolsTerminou \/ PulaGercols
         \/ ConsultaMapa \/ GetMapaResponde
  PROVE  \A q \in NaPilha' : q \in NaPilha \/ QuadroNovo(q)
<1>1. CASE Mslot
  <2>1. QuadroCiclo("gerente", {}) \in Quadros
    BY QuadroCicloTipo DEF Pontos
  <2>2. QuadroNovo(QuadroCiclo("gerente", {}))
    BY CicloNovo DEF Ciclo
  <2>3. Empilha(QuadroCiclo("gerente", {}))
    BY <1>1 DEF Mslot
  <2>4. \A i \in DOMAIN pilha' :
          \/ i \in DOMAIN pilha /\ pilha'[i] = pilha[i]
          \/ pilha'[i] = QuadroCiclo("gerente", {})
    <3>1. DOMAIN pilha' = 1..(Len(pilha) + 1) /\ Len(pilha) \in Nat
      BY <2>1, <2>3, PilhaFatos, EmpilhaTipo
    <3>. QED
      BY <2>1, <2>3, <3>1, PilhaFatos, EmpilhaTipo
  <2>. QED
    BY <2>2, <2>4 DEF NaPilha
<1>2. CASE ComunicaErro
  BY <1>2, NovosRetorna DEF ComunicaErro, NoTopo, Retorna, NaPilha
<1>3. ASSUME \/ ComunicaOk \/ ComunicaTimeout \/ ExecutaGercols
             \/ GercolsTerminou \/ PulaGercols \/ ConsultaMapa
             \/ GetMapaResponde
      PROVE  \A q \in NaPilha' : q \in NaPilha \/ QuadroNovo(q)
  <2>1. pilha # <<>>
    BY <1>3
    DEF NoTopo, ComunicaOk, ComunicaTimeout, ExecutaGercols,
        GercolsTerminou, PulaGercols, ConsultaMapa, GetMapaResponde
  <2>2. Topo.resta \in SUBSET Modulos
    BY <2>1, TopoTipo DEF Quadros
  <2>3. \E pc \in {"modulos", "esperaGercols", "getMapa"} :
          \E resta \in {Modulos, Topo.resta, Topo.resta \ {"gercols"},
                         Topo.resta \ {"mapacacic"}} :
            TrocaTopo(QuadroCiclo(pc, resta))
    BY <1>3
    DEF ComunicaOk, ComunicaTimeout, ExecutaGercols,
        GercolsTerminou, PulaGercols, ConsultaMapa, GetMapaResponde
  <2>4. PICK pc \in Ciclo, resta \in SUBSET Modulos :
          TrocaTopo(QuadroCiclo(pc, resta))
    BY <2>2, <2>3 DEF Ciclo
  <2>5. QuadroCiclo(pc, resta) \in Quadros
    BY QuadroCicloTipo DEF Ciclo, Pontos
  <2>. QED
    BY <2>1, <2>4, <2>5, NovosTroca, CicloNovo
<1>. QED
  BY <1>1, <1>2, <1>3

\* A call of enviarColeta() brings the coleta of the file.
LEMMA NovosEnvio ==
  ASSUME TypeOK, EnviaNoCiclo \/ ForcarColeta
  PROVE  \A q \in NaPilha' : q \in NaPilha \/ QuadroNovo(q)
<1>1. PICK abaixo \in Seq(Quadros) :
        /\ EnviarColeta(abaixo)
        /\ {abaixo[i] : i \in DOMAIN abaixo} \subseteq NaPilha
  <2>1. CASE EnviaNoCiclo
    BY <2>1, RetornaTipo, NovosRetorna DEF EnviaNoCiclo, NoTopo
  <2>2. CASE ForcarColeta
    BY <2>2 DEF ForcarColeta, NaPilha, TypeOK
  <2>. QED
    BY <2>1, <2>2
<1>2. NaPilha' \subseteq NaPilha \cup {QuadroEnvio(RamoDoEnvio)}
  BY <1>1, NovosEnviar
<1>3. QuadroNovo(QuadroEnvio(RamoDoEnvio))
  BY DEF QuadroNovo, QuadroEnvio, EnviaNoCiclo, ForcarColeta, arquivos
<1>. QED
  BY <1>2, <1>3

\* An answer, or the manager's storing of a request, keeps what was posted.
LEMMA NovosResposta ==
  ASSUME TypeOK,
         \/ EnvioOk \/ EnvioTimeout \/ EnvioErro \/ DiffResponde
         \/ \E i \in 1..MaxPilha : GerenteProcessa(i)
  PROVE  \A q \in NaPilha' : q \in NaPilha \/ QuadroNovo(q)
<1>1. CASE EnvioErro \/ DiffResponde
  BY <1>1, NovosRetorna DEF EnvioErro, DiffResponde, NoTopo, Retorna, NaPilha
<1>2. CASE EnvioOk \/ EnvioTimeout
  <2>1. pilha # <<>> /\ Topo.pc = "coleta" /\ AposEnvio
    BY <1>2 DEF EnvioOk, EnvioTimeout, NoTopo
  <2>2. CASE Retorna
    BY <2>1, <2>2, NovosRetorna DEF Retorna, NaPilha
  <2>3. CASE TrocaTopo([Topo EXCEPT !.pc = "diff", !.entregue = FALSE])
    <3>. DEFINE d == [Topo EXCEPT !.pc = "diff", !.entregue = FALSE]
    <3>1. d \in Quadros /\ d.pc = "diff" /\ d.dado = Topo.dado
      BY <2>1, TopoNaPilha DEF Quadros, Pontos
    <3>2. QuadroNovo(d)
      <4>. HIDE DEF d
      <4>. QED
        BY <2>1, <3>1, TopoNaPilha DEF QuadroNovo, AposEnvio
    <3>3. TrocaTopo(d)
      BY <2>3
    <3>. HIDE DEF d
    <3>. QED
      BY <2>1, <3>1, <3>2, <3>3, NovosTroca
  <2>. QED
    BY <2>1, <2>2, <2>3 DEF AposEnvio
<1>3. ASSUME NEW i \in 1..MaxPilha, GerenteProcessa(i)
      PROVE  \A q \in NaPilha' : q \in NaPilha \/ QuadroNovo(q)
  <2>1. /\ i \in DOMAIN pilha /\ pilha[i] \in Quadros /\ pilha[i] \in NaPilha
        /\ pilha[i].pc = "coleta" /\ UNCHANGED coleta
    BY <1>3, PilhaFatos DEF GerenteProcessa, NaPilha, arquivos
  <2>. DEFINE e == [pilha[i] EXCEPT !.entregue = TRUE]
  <2>2. e.pc = "coleta" /\ e.dado = pilha[i].dado
    BY <2>1 DEF Quadros
  <2>3. \A q \in NaPilha' : q \in NaPilha \/ q = e
    BY <1>3, <2>1 DEF GerenteProcessa, NaPilha
  <2>. HIDE DEF e
  <2>4. QuadroNovo(e)
    BY <2>1, <2>2 DEF QuadroNovo
  <2>. QED
    BY <2>3, <2>4
<1>. QED
  BY <1>1, <1>2, <1>3

\* Whatever happens, a frame that was not on the stack is one of the three.
LEMMA NovosQuadros ==
  ASSUME TypeOK, Next
  PROVE  \A q \in NaPilha' : q \in NaPilha \/ QuadroNovo(q)
<1>1. CASE \/ MudaInventario \/ PassaDia \/ Gercols \/ Mapa
           \/ \E c \in emTransito : AtrasadaChega(c) \/ AtrasadaSePerde(c)
  <2>1. UNCHANGED pilha
    BY <1>1
    DEF MudaInventario, PassaDia, Gercols, GercolsLe, GercolsGrava, GercolsCompara,
        GercolsRegistra, Mapa, MapaLe, MapaGrava, MapaRegistra, MapaFecha,
        AtrasadaChega, AtrasadaSePerde
  <2>. QED
    BY <2>1 DEF NaPilha
<1>2. CASE ServicoReinicia \/ MaquinaReinicia
  BY <1>2 DEF ServicoReinicia, MaquinaReinicia, NaPilha
<1>. QED
  BY <1>1, <1>2, NovosCiclo, NovosEnvio, NovosResposta DEF Next, Servico

-----------------------------------------------------------------------------
(* No copy is ahead of the machine.                                          *)

\* The coletas on the stack are coletas.
LEMMA DadosTipo ==
  ASSUME TypeOK
  PROVE  \A q \in NaPilha : q.dado \in Coletas
BY PilhaFatos DEF NaPilha, Quadros

\* What a step collects, reads, writes and sends is made from another copy, and
\* the first of them from the machine.
LEMMA DeOndeVem ==
  ASSUME TypeOK, Next
  PROVE  /\ inventario' \in {inventario, inventario + 1}
         /\ coleta'.inv \in {coleta.inv, gercols.nova, mapa.lida.inv}
         /\ gercols'.nova \in {gercols.nova, inventario, 0}
         /\ mapa'.lida.inv \in {mapa.lida.inv, coleta.inv, 0}
<1>. USE DEF arquivos, remoto
<1>1. /\ gercols \in [pc : {"parado", "coletado", "lido", "gravado", "comparado"},
                      nova : 0..MaxVersao, velha : Coletas]
      /\ mapa \in [pc : {"parado", "aberto", "lido", "gravado"},
                   lida : Coletas]
      /\ mapa.lida \in Coletas
  BY DEF TypeOK
<1>2. GercolsParado.nova = 0 /\ MapaParado.lida.inv = 0
  BY DEF GercolsParado, MapaParado, SemColeta
<1>3. CASE MudaInventario \/ PassaDia
  BY <1>3 DEF MudaInventario, PassaDia
<1>4. CASE Gercols
  <2>1. CASE GercolsLe
    <3>1. gercols'.nova = gercols.nova
      BY <1>1, <2>1 DEF GercolsLe
    <3>. QED
      BY <2>1, <3>1 DEF GercolsLe
  <2>2. CASE GercolsGrava
    <3>1. gercols'.nova = gercols.nova /\ coleta'.inv = gercols.nova
      BY <1>1, <2>2 DEF GercolsGrava
    <3>. QED
      BY <2>2, <3>1 DEF GercolsGrava
  <2>3. CASE GercolsRegistra
    BY <1>2, <2>3 DEF GercolsRegistra
  <2>4. CASE GercolsCompara
    <3>1. gercols'.nova = gercols.nova
      BY <1>1, <2>4 DEF GercolsCompara
    <3>. QED
      BY <2>4, <3>1 DEF GercolsCompara
  <2>. QED
    BY <1>4, <2>1, <2>2, <2>3, <2>4 DEF Gercols
<1>5. CASE Mapa
  <2>1. CASE MapaGrava
    <3>1. coleta'.inv = mapa.lida.inv
      BY <1>1, <2>1 DEF MapaGrava, Coletas
    <3>. QED
      BY <1>1, <2>1, <3>1 DEF MapaGrava
  <2>. QED
    BY <1>1, <1>2, <1>5, <2>1 DEF Mapa, MapaLe, MapaRegistra, MapaFecha
<1>6. CASE ExecutaGercols
  <2>1. gercols'.nova = inventario
    BY <1>6 DEF ExecutaGercols, GercolsParado
  <2>. QED
    BY <1>6, <2>1 DEF ExecutaGercols
<1>7. CASE GetMapaResponde
  <2>1. mapa' = mapa \/ mapa' = [MapaParado EXCEPT !.pc = "aberto"]
    BY <1>7 DEF GetMapaResponde
  <2>2. mapa'.lida.inv \in {mapa.lida.inv, 0}
    BY <2>1 DEF MapaParado, SemColeta
  <2>. QED
    BY <1>7, <2>2 DEF GetMapaResponde
<1>8. CASE \/ Mslot \/ ComunicaOk \/ ComunicaTimeout \/ ComunicaErro
           \/ GercolsTerminou \/ PulaGercols \/ ConsultaMapa
           \/ EnviaNoCiclo \/ ForcarColeta
  BY <1>8
  DEF Mslot, ComunicaOk, ComunicaTimeout, ComunicaErro, GercolsTerminou,
      PulaGercols, ConsultaMapa, EnviaNoCiclo, ForcarColeta
<1>9. CASE \/ EnvioOk \/ EnvioTimeout \/ EnvioErro \/ DiffResponde
           \/ \E i \in 1..MaxPilha : GerenteProcessa(i)
           \/ \E c \in emTransito : AtrasadaChega(c) \/ AtrasadaSePerde(c)
  BY <1>9
  DEF EnvioOk, EnvioTimeout, EnvioErro, DiffResponde, AposEnvio,
      GerenteProcessa, AtrasadaChega, AtrasadaSePerde
<1>10. CASE ServicoReinicia \/ MaquinaReinicia
  BY <1>2, <1>10 DEF ServicoReinicia, MaquinaReinicia
<1>. QED
  BY <1>3, <1>4, <1>5, <1>6, <1>7, <1>8, <1>9, <1>10 DEF Next, Servico

\* What the manager stores was posted by the service, and so was what the
\* service leaves in transit.
LEMMA DeOndeChega ==
  ASSUME TypeOK, Next
  PROVE  /\ \/ gerente' = gerente
            \/ gerente' \in emTransito
            \/ \E q \in NaPilha : q.pc = "coleta" /\ gerente' = q.dado
         /\ \A c \in emTransito' :
              c \in emTransito \/ \E q \in NaPilha : c = q.dado
<1>. USE DEF arquivos, remoto
<1>1. ASSUME NEW i \in 1..MaxPilha, GerenteProcessa(i)
      PROVE  /\ \E q \in NaPilha : q.pc = "coleta" /\ gerente' = q.dado
             /\ UNCHANGED emTransito
  BY <1>1 DEF GerenteProcessa, NaPilha
<1>2. CASE \E c \in emTransito : AtrasadaChega(c) \/ AtrasadaSePerde(c)
  BY <1>2 DEF AtrasadaChega, AtrasadaSePerde
<1>3. CASE EnvioTimeout
  <2>1. pilha # <<>> /\ UNCHANGED gerente
        /\ emTransito' \subseteq emTransito \cup {Topo.dado}
    BY <1>3 DEF EnvioTimeout, AposEnvio, NoTopo
  <2>. QED
    BY <2>1, TopoNaPilha
<1>4. CASE ServicoReinicia \/ MaquinaReinicia
  <2>1. emTransito' = emTransito \cup Pendentes /\ UNCHANGED gerente
    BY <1>4 DEF ServicoReinicia, MaquinaReinicia
  <2>2. \A c \in Pendentes : \E q \in NaPilha : c = q.dado
    BY DEF Pendentes, NaPilha
  <2>. QED
    BY <2>1, <2>2
<1>5. CASE \/ MudaInventario \/ PassaDia \/ Gercols \/ Mapa
  BY <1>5
  DEF MudaInventario, PassaDia, Gercols, GercolsLe, GercolsGrava, GercolsCompara,
      GercolsRegistra, Mapa, MapaLe, MapaGrava, MapaRegistra, MapaFecha
<1>6. CASE \/ Mslot \/ ComunicaOk \/ ComunicaTimeout \/ ComunicaErro
           \/ ExecutaGercols \/ GercolsTerminou \/ PulaGercols \/ ConsultaMapa
           \/ GetMapaResponde \/ EnviaNoCiclo \/ ForcarColeta
           \/ EnvioOk \/ EnvioErro \/ DiffResponde
  BY <1>6
  DEF Mslot, ComunicaOk, ComunicaTimeout, ComunicaErro, ExecutaGercols,
      GercolsTerminou, PulaGercols, ConsultaMapa, GetMapaResponde,
      EnviaNoCiclo, ForcarColeta, EnvioOk, EnvioErro, DiffResponde, AposEnvio
<1>. QED
  BY <1>1, <1>2, <1>3, <1>4, <1>5, <1>6 DEF Next, Servico

\* The versions are numbers.
LEMMA VersoesTipo ==
  ASSUME TypeOK
  PROVE  /\ inventario \in Nat /\ coleta.inv \in Nat /\ gerente.inv \in Nat
         /\ gercols.nova \in Nat /\ mapa.lida.inv \in Nat
         /\ \A q \in NaPilha : q.dado.inv \in Nat
         /\ \A c \in emTransito : c.inv \in Nat
<1>1. \A c \in Coletas : c.inv \in Nat
  BY ColetaAssumption DEF Coletas
<1>2. /\ coleta \in Coletas /\ gerente \in Coletas /\ emTransito \subseteq Coletas
      /\ mapa.lida \in Coletas
      /\ inventario \in Nat /\ gercols.nova \in Nat
  BY ColetaAssumption DEF TypeOK, Versoes
<1>. QED
  BY <1>1, <1>2, DadosTipo

\* A step makes its copies from copies that are not ahead of the machine.
LEMMA AdiantadoPasso ==
  ASSUME TypeOK, NadaAdiantado, Next
  PROVE  NadaAdiantado'
<1>1. inventario' \in Nat /\ inventario' >= inventario
  BY VersoesTipo, DeOndeVem
<1>2. /\ coleta'.inv <= inventario' /\ gercols'.nova <= inventario'
      /\ mapa'.lida.inv <= inventario'
  BY <1>1, VersoesTipo, DeOndeVem DEF NadaAdiantado
<1>3. gerente'.inv <= inventario'
  BY <1>1, VersoesTipo, DeOndeChega DEF NadaAdiantado
<1>4. ASSUME NEW q \in NaPilha'
      PROVE  q.dado.inv <= inventario'
  <2>1. \/ q \in NaPilha
        \/ q.dado.inv = 0
        \/ q.dado = coleta
        \/ \E p \in NaPilha : q.dado = p.dado
    BY NovosQuadros DEF QuadroNovo, SemColeta
  <2>. QED
    BY <1>1, <2>1, VersoesTipo DEF NadaAdiantado
<1>5. ASSUME NEW c \in emTransito'
      PROVE  c.inv <= inventario'
  BY <1>1, <1>5, VersoesTipo, DeOndeChega DEF NadaAdiantado
<1>. QED
  BY <1>2, <1>3, <1>4, <1>5 DEF NadaAdiantado

\* The files, the collector, the form, the pending requests and the manager
\* never hold a version the machine has not had.
THEOREM NadaAdiantadoProvado == Spec => []NadaAdiantado
<1>1. Init => NadaAdiantado
  BY DEF Init, NadaAdiantado, NaPilha, SemColeta, GercolsParado, MapaParado
<1>2. TypeOK /\ NadaAdiantado /\ [Next]_vars => NadaAdiantado'
  <2>1. NadaAdiantado /\ UNCHANGED vars => NadaAdiantado'
    BY DEF vars, NadaAdiantado, NaPilha
  <2>. QED
    BY <2>1, AdiantadoPasso
<1>. QED
  BY <1>1, <1>2, TipoCorreto, PTL DEF Spec

\* The chain of files, registry, collector, form and requests implements what
\* the abstract mirror allows, in every environment: failures, false successes,
\* crashes, late requests and a form that brings an old version back included.
\* Each step is a change of the source, a step of the copy to a version the
\* source has had, or a stutter.
THEOREM EspelhoSeguro == Spec => EspelhoDoInventario!Seguro
<1>1. Init => EspelhoDoInventario!Init
  BY DEF Init, EspelhoDoInventario!Init, SemColeta
<1>2. ASSUME TypeOK, NadaAdiantado, Next
      PROVE  \/ EspelhoDoInventario!Next
             \/ UNCHANGED <<inventario, gerente.inv>>
  <2>1. CASE MudaInventario
    <3>1. inventario' = inventario + 1 /\ UNCHANGED gerente.inv
      BY <2>1 DEF MudaInventario, remoto
    <3>. QED
      BY <3>1 DEF EspelhoDoInventario!Next, EspelhoDoInventario!Muda
  <2>2. CASE UNCHANGED inventario
    <3>1. TypeOK'
      BY <1>2, TipoForaDoServico, TipoSlots, TipoCiclo, TipoEnvio, TipoQueda
      DEF Next, Servico
    <3>2. gerente'.inv <= inventario /\ inventario \in Nat
      BY <1>2, <2>2, AdiantadoPasso, VersoesTipo DEF NadaAdiantado
    <3>3. gerente'.inv \in Nat
      BY <3>1, ColetaAssumption DEF TypeOK, Coletas
    <3>4. gerente'.inv \in 0..inventario
      BY <3>2, <3>3
    <3>. QED
      BY <2>2, <3>4 DEF EspelhoDoInventario!Next, EspelhoDoInventario!Recebe
  <2>3. MudaInventario \/ UNCHANGED inventario
    BY <1>2
    DEF Next, PassaDia, Gercols, GercolsLe, GercolsGrava, GercolsCompara, GercolsRegistra,
        Mapa, MapaLe, MapaGrava, MapaRegistra, MapaFecha, Servico, Mslot,
        ComunicaOk, ComunicaTimeout, ComunicaErro, ExecutaGercols,
        GercolsTerminou, PulaGercols, ConsultaMapa, GetMapaResponde,
        EnviaNoCiclo, ForcarColeta, EnvioOk, EnvioTimeout, EnvioErro,
        DiffResponde, AposEnvio, GerenteProcessa, AtrasadaChega,
        AtrasadaSePerde, ServicoReinicia, MaquinaReinicia
  <2>. QED
    BY <2>1, <2>2, <2>3
<1>3. TypeOK /\ NadaAdiantado /\ [Next]_vars =>
        [EspelhoDoInventario!Next]_<<inventario, gerente.inv>>
  <2>1. UNCHANGED vars => UNCHANGED <<inventario, gerente.inv>>
    BY DEF vars
  <2>. QED
    BY <1>2, <2>1
<1>. QED
  BY <1>1, <1>3, TipoCorreto, NadaAdiantadoProvado, PTL
  DEF Spec, EspelhoDoInventario!Seguro

-----------------------------------------------------------------------------
(* The order of the stack, as long as the timer does not fire while another  *)
(* slot waits.                                                               *)

\* A stage of the timer slot replaces another, alone on the stack.
LEMMA OrdemTroca ==
  ASSUME TypeOK, PilhaOrdenada, pilha # <<>>,
         NEW q \in Quadros, TrocaTopo(q),
         q.pc = "diff" \/ Topo.pc \in Ciclo
  PROVE  PilhaOrdenada'
<1>1. /\ Len(pilha') = Len(pilha) /\ pilha'[Len(pilha)] = q
      /\ pilha' \in Seq(Quadros)
      /\ \A i \in 1..Len(pilha) : i # Len(pilha) => pilha'[i] = pilha[i]
  BY TrocaTipo
<1>2. DOMAIN pilha' = 1..Len(pilha) /\ DOMAIN pilha = 1..Len(pilha)
  BY <1>1, PilhaFatos
<1>3. CASE q.pc = "diff"
  BY <1>1, <1>2, <1>3 DEF PilhaOrdenada, Ciclo
<1>4. CASE Topo.pc \in Ciclo
  <2>1. Len(pilha) = 1
    BY <1>4, CicloSozinho
  <2>. QED
    BY <1>1, <1>2, <2>1 DEF PilhaOrdenada
<1>. QED
  BY <1>3, <1>4

\* A return leaves the order as it is.
LEMMA OrdemRetorna ==
  ASSUME TypeOK, PilhaOrdenada, pilha # <<>>, Retorna
  PROVE  PilhaOrdenada'
<1>1. Len(pilha) \in Nat
  BY PilhaFatos
<1>. QED
  BY <1>1, RetornaFatos DEF PilhaOrdenada

\* A slot that the event loop starts lies on slots that wait.
LEMMA OrdemEmpilha ==
  ASSUME TypeOK, PilhaOrdenada, DespachaEventos,
         NEW q \in Quadros, Empilha(q),
         pilha = <<>> \/ q.pc = "coleta"
  PROVE  PilhaOrdenada'
<1>. DEFINE n == Len(pilha)
<1>1. /\ Len(pilha') = n + 1 /\ pilha'[n + 1] = q /\ pilha' \in Seq(Quadros)
      /\ \A i \in 1..n : pilha'[i] = pilha[i]
  BY EmpilhaTipo
<1>2. DOMAIN pilha' = 1..(n + 1) /\ DOMAIN pilha = 1..n /\ n \in Nat
  BY <1>1, PilhaFatos
<1>3. pilha = <<>> => n = 0
  OBVIOUS
<1>4. \A i \in DOMAIN pilha : pilha[i].pc \in Espera
  BY <1>2 DEF PilhaOrdenada, DespachaEventos, Topo
<1>. HIDE DEF n
<1>5. ASSUME NEW i \in DOMAIN pilha'
      PROVE  /\ i # Len(pilha') => pilha'[i].pc \in Espera
             /\ pilha'[i].pc \in Ciclo => i = 1
  <2>1. CASE i = n + 1
    BY <1>1, <1>2, <1>3, <2>1 DEF Ciclo
  <2>2. CASE i \in DOMAIN pilha
    BY <1>1, <1>2, <1>4, <2>2 DEF PilhaOrdenada
  <2>. QED
    BY <1>2, <1>5, <2>1, <2>2
<1>. QED
  BY <1>5 DEF PilhaOrdenada

\* The timer slot goes on alone; what enviarColeta() starts there too.
LEMMA OrdemCiclo ==
  ASSUME TypeOK, PilhaOrdenada,
         \/ ComunicaOk \/ ComunicaTimeout \/ ComunicaErro
         \/ ExecutaGercols \/ GercolsTerminou \/ PulaGercols
         \/ ConsultaMapa \/ GetMapaResponde \/ EnviaNoCiclo
  PROVE  PilhaOrdenada'
<1>1. pilha # <<>> /\ Topo.pc \in Ciclo /\ Topo.resta \in SUBSET Modulos
  <2>1. pilha # <<>> /\ Topo.pc \in Ciclo
    BY DEF NoTopo, ComunicaOk, ComunicaTimeout, ComunicaErro, ExecutaGercols,
           GercolsTerminou, PulaGercols, ConsultaMapa, GetMapaResponde,
           EnviaNoCiclo, Ciclo
  <2>. QED
    BY <2>1, TopoTipo DEF Quadros
<1>2. CASE ComunicaErro
  BY <1>1, <1>2, OrdemRetorna DEF ComunicaErro
<1>3. CASE EnviaNoCiclo
  <2>1. Len(pilha) = 1
    BY <1>1, CicloSozinho
  <2>2. SemTopo \in Seq(Quadros) /\ Len(SemTopo) = 0
    BY <1>1, <2>1, RetornaTipo
  <2>3. pilha' \in Seq(Quadros) /\ Len(pilha') \in {0, 1}
    <3>1. EnviarColeta(SemTopo)
      BY <1>3 DEF EnviaNoCiclo
    <3>2. \/ pilha' \in Seq(Quadros) /\ Len(pilha') = Len(SemTopo) + 1
          \/ pilha' = SemTopo
      BY <2>2, <3>1, EnviarTipo
    <3>3. CASE pilha' = SemTopo
      <4>1. pilha' \in Seq(Quadros) /\ Len(pilha') = 0
        BY <2>2, <3>3, Zenon
      <4>. QED
        BY <4>1
    <3>4. CASE pilha' \in Seq(Quadros) /\ Len(pilha') = Len(SemTopo) + 1
      BY <2>2, <3>4
    <3>. QED
      BY <3>2, <3>3, <3>4
  <2>4. DOMAIN pilha' = 1..Len(pilha')
    BY <2>3
  <2>. QED
    BY <2>3, <2>4 DEF PilhaOrdenada
<1>4. CASE \/ ComunicaOk \/ ComunicaTimeout \/ ExecutaGercols
           \/ GercolsTerminou \/ PulaGercols \/ ConsultaMapa
           \/ GetMapaResponde
  <2>1. \E pc \in {"modulos", "esperaGercols", "getMapa"} :
          \E resta \in {Modulos, Topo.resta, Topo.resta \ {"gercols"},
                         Topo.resta \ {"mapacacic"}} :
            TrocaTopo(QuadroCiclo(pc, resta))
    BY <1>4
    DEF ComunicaOk, ComunicaTimeout, ExecutaGercols,
        GercolsTerminou, PulaGercols, ConsultaMapa, GetMapaResponde
  <2>2. PICK pc \in Pontos, resta \in SUBSET Modulos :
          TrocaTopo(QuadroCiclo(pc, resta))
    BY <1>1, <2>1 DEF Pontos
  <2>. QED
    BY <1>1, <2>2, QuadroCicloTipo, OrdemTroca
<1>. QED
  BY <1>2, <1>3, <1>4

\* The stack stays ordered: one timer slot at most, at the bottom, and only the
\* running frame outside an event loop.
LEMMA OrdemPasso ==
  ASSUME TypeOK, PilhaOrdenada, "reentrada" \notin Ambiente, [Next]_vars
  PROVE  PilhaOrdenada'
<1>1. CASE UNCHANGED pilha
  BY <1>1 DEF PilhaOrdenada
<1>2. CASE \/ MudaInventario \/ PassaDia \/ Gercols \/ Mapa
           \/ \E c \in emTransito : AtrasadaChega(c) \/ AtrasadaSePerde(c)
           \/ UNCHANGED vars
  BY <1>1, <1>2
  DEF MudaInventario, PassaDia, Gercols, GercolsLe, GercolsGrava, GercolsCompara,
      GercolsRegistra, Mapa, MapaLe, MapaGrava, MapaRegistra, MapaFecha,
      AtrasadaChega, AtrasadaSePerde, vars
<1>3. CASE ServicoReinicia \/ MaquinaReinicia
  <2>1. pilha' = <<>>
    BY <1>3 DEF ServicoReinicia, MaquinaReinicia
  <2>2. DOMAIN pilha' = {}
    BY <2>1
  <2>. QED
    BY <2>2 DEF PilhaOrdenada
<1>4. CASE Mslot
  <2>1. QuadroCiclo("gerente", {}) \in Quadros
    BY QuadroCicloTipo DEF Pontos
  <2>. QED
    BY <1>4, <2>1, OrdemEmpilha DEF Mslot
<1>5. CASE ForcarColeta
  <2>1. QuadroEnvio(RamoDoEnvio) \in Quadros
    BY QuadroEnvioTipo
  <2>2. QuadroEnvio(RamoDoEnvio).pc = "coleta"
    BY DEF QuadroEnvio
  <2>3. DespachaEventos /\ (UNCHANGED pilha \/ Empilha(QuadroEnvio(RamoDoEnvio)))
    BY <1>5 DEF ForcarColeta, EnviarColeta, Empilha
  <2>. QED
    BY <1>1, <2>1, <2>2, <2>3, OrdemEmpilha
<1>6. CASE EnvioOk \/ EnvioTimeout \/ EnvioErro \/ DiffResponde
  <2>1. pilha # <<>>
    BY <1>6 DEF EnvioOk, EnvioTimeout, EnvioErro, DiffResponde, NoTopo
  <2>2. \/ Retorna
        \/ TrocaTopo([Topo EXCEPT !.pc = "diff", !.entregue = FALSE])
    BY <1>6 DEF EnvioOk, EnvioTimeout, EnvioErro, DiffResponde, AposEnvio
  <2>. DEFINE d == [Topo EXCEPT !.pc = "diff", !.entregue = FALSE]
  <2>3. d \in Quadros /\ d.pc = "diff"
    BY <2>1, TopoTipo DEF Quadros, Pontos
  <2>4. Retorna \/ TrocaTopo(d)
    BY <2>2
  <2>. HIDE DEF d
  <2>. QED
    BY <2>1, <2>3, <2>4, OrdemRetorna, OrdemTroca
<1>7. ASSUME NEW i \in 1..MaxPilha, GerenteProcessa(i)
      PROVE  PilhaOrdenada'
  <2>1. /\ i \in DOMAIN pilha
        /\ pilha' = [pilha EXCEPT ![i].entregue = TRUE]
    BY <1>7 DEF GerenteProcessa
  <2>2. Len(pilha') = Len(pilha) /\ DOMAIN pilha' = DOMAIN pilha
    BY <2>1, PilhaFatos
  <2>3. \A j \in DOMAIN pilha : pilha'[j].pc = pilha[j].pc
    BY <2>1, PilhaFatos DEF Quadros
  <2>. QED
    BY <2>2, <2>3 DEF PilhaOrdenada
<1>. QED
  BY <1>2, <1>3, <1>4, <1>5, <1>6, <1>7, OrdemCiclo DEF Next, Servico

-----------------------------------------------------------------------------
(* The manager does not go back.                                             *)

\* While the collector runs, the timer slot that waits for it is alone, and
\* nothing is being sent.
LEMMA ColetandoSozinho ==
  ASSUME TypeOK, IndRegresso, gercols.pc # "parado"
  PROVE  /\ pilha # <<>> /\ Topo.pc = "esperaGercols"
         /\ DOMAIN pilha = {1} /\ pilha[1] = Topo
<1>1. pilha # <<>> /\ Topo.pc = "esperaGercols"
  BY DEF IndRegresso, EmFila
<1>2. Len(pilha) = 1 /\ pilha[1] = Topo
  BY <1>1, CicloSozinho DEF IndRegresso, Ciclo
<1>. QED
  BY <1>1, <1>2, PilhaFatos

\* A step of the service leaves the line of copies in order, whatever it does
\* to the stack, if the collector is not at work.
LEMMA EmFilaServico ==
  ASSUME TypeOK, IndRegresso, Next,
         UNCHANGED <<inventario, coleta, gerente, gercols>>,
         gercols.pc = "parado"
  PROVE  EmFila'
<1>1. \A q \in NaPilha : q.pc = "coleta" => q.dado.inv = coleta.inv
  BY DEF IndRegresso, EmFila, NaPilha
<1>2. ASSUME NEW i \in DOMAIN pilha', pilha'[i].pc = "coleta"
      PROVE  pilha'[i].dado.inv = coleta'.inv
  <2>1. pilha'[i] \in NaPilha'
    BY DEF NaPilha
  <2>2. \/ pilha'[i] \in NaPilha
        \/ pilha'[i].dado = coleta
        \/ \E p \in NaPilha : p.pc = "coleta" /\ pilha'[i].dado = p.dado
    BY <1>2, <2>1, NovosQuadros DEF QuadroNovo, Ciclo
  <2>. QED
    BY <1>1, <1>2, <2>2
<1>. QED
  BY <1>2 DEF IndRegresso, EmFila

\* The collector's steps: nothing is being sent while it writes the file.
LEMMA EmFilaGercols ==
  ASSUME TypeOK, IndRegresso, Gercols
  PROVE  EmFila'
<1>1. /\ gercols.pc # "parado"
      /\ UNCHANGED <<inventario, pilha, gerente>>
  BY DEF Gercols, GercolsLe, GercolsGrava, GercolsCompara, GercolsRegistra, remoto
<1>2. /\ pilha # <<>> /\ Topo.pc = "esperaGercols" /\ Topo' = Topo
      /\ DOMAIN pilha = {1} /\ pilha[1] = Topo
  BY <1>1, ColetandoSozinho DEF Topo
<1>3. /\ gerente.inv <= coleta.inv /\ coleta.inv <= gercols.nova
      /\ gercols.nova <= inventario
  BY <1>1 DEF IndRegresso, EmFila
<1>4. \/ coleta' = coleta /\ gercols'.nova = gercols.nova
      \/ coleta'.inv = gercols.nova /\ gercols'.nova = gercols.nova
      \/ coleta' = coleta /\ gercols'.pc = "parado"
  <2>1. gercols \in [pc : {"parado", "coletado", "lido", "gravado", "comparado"},
                     nova : 0..MaxVersao, velha : Coletas]
    BY DEF TypeOK
  <2>2. CASE GercolsLe
    BY <2>1, <2>2 DEF GercolsLe, arquivos
  <2>3. CASE GercolsGrava
    <3>1. gercols'.nova = gercols.nova /\ coleta'.inv = gercols.nova
      BY <2>1, <2>3 DEF GercolsGrava
    <3>. QED
      BY <3>1
  <2>4. CASE GercolsRegistra
    BY <2>4 DEF GercolsRegistra, GercolsParado
  <2>5. CASE GercolsCompara
    BY <2>1, <2>5 DEF GercolsCompara
  <2>. QED
    BY <2>2, <2>3, <2>4, <2>5 DEF Gercols
<1>. QED
  BY <1>1, <1>2, <1>3, <1>4, VersoesTipo DEF EmFila

\* Copies do not overtake one another.
LEMMA EmFilaPasso ==
  ASSUME TypeOK, IndRegresso, Ambiente \subseteq {"erro"}, Next
  PROVE  EmFila'
<1>1. CASE MudaInventario \/ PassaDia
  <2>1. /\ UNCHANGED <<coleta, gercols, pilha, gerente>>
        /\ inventario' \in {inventario, inventario + 1}
    BY <1>1 DEF MudaInventario, PassaDia, arquivos, remoto
  <2>. QED
    BY <2>1, VersoesTipo DEF IndRegresso, EmFila, Topo
<1>2. CASE Gercols
  BY <1>2, EmFilaGercols
<1>3. CASE ExecutaGercols
  <2>1. /\ pilha # <<>> /\ Topo.pc = "modulos"
        /\ TrocaTopo(QuadroCiclo("esperaGercols", Topo.resta \ {"gercols"}))
        /\ gercols'.nova = inventario
        /\ UNCHANGED <<inventario, coleta, gerente>>
    BY <1>3
    DEF ExecutaGercols, NoTopo, GercolsParado, arquivos, remoto
  <2>2. Topo.resta \ {"gercols"} \in SUBSET Modulos
    BY <2>1, TopoTipo DEF Quadros
  <2>3. QuadroCiclo("esperaGercols", Topo.resta \ {"gercols"}) \in Quadros
    BY <2>2, QuadroCicloTipo DEF Pontos
  <2>4. Len(pilha) = 1
    BY <2>1, CicloSozinho DEF IndRegresso, Ciclo
  <2>5. /\ Len(pilha') = 1 /\ pilha' \in Seq(Quadros)
        /\ pilha'[1] = QuadroCiclo("esperaGercols", Topo.resta \ {"gercols"})
    BY <2>1, <2>3, <2>4, TrocaTipo
  <2>6. /\ DOMAIN pilha' = {1} /\ pilha' # <<>> /\ Topo' = pilha'[1]
        /\ pilha'[1].pc = "esperaGercols"
    BY <2>5 DEF Topo, QuadroCiclo
  <2>. QED
    BY <2>1, <2>6, VersoesTipo DEF IndRegresso, EmFila
<1>4. ASSUME NEW i \in 1..MaxPilha, GerenteProcessa(i)
      PROVE  EmFila'
  <2>1. /\ i \in DOMAIN pilha /\ pilha[i].pc = "coleta"
        /\ gerente' = pilha[i].dado
        /\ UNCHANGED <<inventario, coleta, gercols>>
    BY <1>4 DEF GerenteProcessa, arquivos
  <2>2. gercols.pc = "parado"
    BY <2>1, ColetandoSozinho
  <2>3. gerente'.inv = coleta.inv
    BY <2>1 DEF IndRegresso, EmFila
  <2>4. /\ DOMAIN pilha' = DOMAIN pilha
        /\ \A j \in DOMAIN pilha : /\ pilha'[j].pc = pilha[j].pc
                                   /\ pilha'[j].dado = pilha[j].dado
    BY <1>4, PilhaFatos DEF GerenteProcessa, Quadros
  <2>. QED
    BY <2>1, <2>2, <2>3, <2>4, VersoesTipo DEF IndRegresso, EmFila
<1>5. CASE Servico /\ ~ExecutaGercols
  <2>1. UNCHANGED <<inventario, coleta, gerente, gercols>>
    BY <1>5
    DEF Servico, Mslot, ComunicaOk, ComunicaTimeout, ComunicaErro,
        GercolsTerminou, PulaGercols, ConsultaMapa, GetMapaResponde,
        EnviaNoCiclo, ForcarColeta, EnvioOk, EnvioTimeout, EnvioErro,
        DiffResponde, AposEnvio, arquivos, remoto
  <2>2. \/ pilha = <<>> \/ Topo.pc # "esperaGercols"
        \/ gercols.pc = "parado"
    BY <1>5
    DEF Servico, Mslot, ComunicaOk, ComunicaTimeout, ComunicaErro,
        GercolsTerminou, PulaGercols, ConsultaMapa, GetMapaResponde,
        EnviaNoCiclo, ForcarColeta, EnvioOk, EnvioTimeout, EnvioErro,
        DiffResponde, NoTopo, DespachaEventos, Espera
  <2>3. gercols.pc = "parado"
    BY <2>2, ColetandoSozinho
  <2>. QED
    BY <2>1, <2>3, EmFilaServico
<1>6. CASE \/ Mapa
           \/ \E c \in emTransito : AtrasadaChega(c) \/ AtrasadaSePerde(c)
           \/ ServicoReinicia \/ MaquinaReinicia
  BY <1>6
  DEF IndRegresso, Mapa, MapaLe, MapaGrava, MapaRegistra, MapaFecha,
      ServicoReinicia, MaquinaReinicia
<1>. QED
  BY <1>1, <1>2, <1>3, <1>4, <1>5, <1>6 DEF Next

\* The invariant holds again after a step.
LEMMA RegressoPasso ==
  ASSUME TypeOK, IndRegresso, Ambiente \subseteq {"erro"}, [Next]_vars
  PROVE  IndRegresso'
<1>1. PilhaOrdenada'
  BY OrdemPasso DEF IndRegresso
<1>2. EmFila'
  <2>1. UNCHANGED vars /\ EmFila => EmFila'
    BY DEF vars, EmFila, Topo
  <2>. QED
    BY <2>1, EmFilaPasso DEF IndRegresso
<1>3. mapa'.pc = "parado" /\ emTransito' = {}
  <2>1. UNCHANGED <<mapa, emTransito>>
    BY DEF IndRegresso, vars, Next, MudaInventario, PassaDia,
           Gercols, GercolsLe, GercolsGrava, GercolsCompara, GercolsRegistra,
           Mapa, MapaLe, MapaGrava, MapaRegistra, MapaFecha,
           Servico, Mslot, ComunicaOk, ComunicaTimeout, ComunicaErro,
           ExecutaGercols, GercolsTerminou, PulaGercols, ConsultaMapa,
           GetMapaResponde, EnviaNoCiclo, ForcarColeta, EnvioOk, EnvioTimeout,
           EnvioErro, DiffResponde, AposEnvio, GerenteProcessa,
           ServicoReinicia, MaquinaReinicia, remoto
  <2>. QED
    BY <2>1 DEF IndRegresso
<1>. QED
  BY <1>1, <1>2, <1>3 DEF IndRegresso

\* The manager never goes back to an older inventory, at every nesting of the
\* user's requests and with any number of failed ones, as long as no request is
\* taken for answered without an answer, no process dies, the form is not used
\* and the timer does not fire inside a cycle. Each of these four breaks it.
THEOREM SemRegressoProvado ==
  ASSUME Ambiente \subseteq {"erro"}
  PROVE  Spec => SemRegresso
<1>1. Init => IndRegresso
  <2>. SUFFICES ASSUME Init PROVE IndRegresso
    OBVIOUS
  <2>1. DOMAIN pilha = {}
    BY DEF Init
  <2>. QED
    BY <2>1
    DEF Init, IndRegresso, PilhaOrdenada, EmFila, GercolsParado, MapaParado,
        SemColeta
<1>2. TypeOK /\ IndRegresso /\ [Next]_vars => IndRegresso'
  BY RegressoPasso
<1>3. ASSUME TypeOK, IndRegresso, [Next]_vars
      PROVE  gerente'.inv >= gerente.inv \/ UNCHANGED vars
  <2>1. CASE UNCHANGED vars
    BY <2>1
  <2>2. CASE Next
    <3>1. \/ gerente' = gerente
          \/ \E q \in NaPilha : q.pc = "coleta" /\ gerente' = q.dado
      BY <1>3, <2>2, DeOndeChega DEF IndRegresso
    <3>2. \A q \in NaPilha : q.pc = "coleta" => q.dado.inv = coleta.inv
      BY <1>3 DEF IndRegresso, EmFila, NaPilha
    <3>3. gerente.inv <= coleta.inv
      BY <1>3 DEF IndRegresso, EmFila
    <3>. QED
      BY <1>3, <3>1, <3>2, <3>3, VersoesTipo
  <2>. QED
    BY <1>3, <2>1, <2>2
<1>4. TypeOK /\ IndRegresso /\ [Next]_vars => [gerente'.inv >= gerente.inv]_vars
  BY <1>3
<1>. QED
  BY <1>1, <1>2, <1>4, TipoCorreto, PTL DEF Spec, SemRegresso
=============================================================================
