----------------------------- MODULE ColetaProps -----------------------------
(* What the delivery of the coleta must achieve, and what it rests on.      *)
EXTENDS Coleta

\* The files, the registry and the frames hold what the code stores in them.
TypeOK ==
  /\ inventario \in Versoes
  /\ coleta \in Coletas
  /\ temDiff \in BOOLEAN
  /\ enviaColeta \in BOOLEAN
  /\ data \in {SemData} \cup 0..PrazoReenvio
  /\ forcar \in BOOLEAN
  /\ gercols \in [pc : {"parado", "coletado", "lido", "gravado", "comparado"},
                  nova : 0..MaxVersao, velha : Coletas]
  /\ gercols.pc # "parado" => gercols.nova # 0
  /\ mapa \in [pc : {"parado", "aberto", "lido", "gravado"}, lida : Coletas]
  /\ pilha \in Seq(Quadros)
  /\ Len(pilha) <= MaxPilha
  /\ gerente \in Coletas
  /\ emTransito \in SUBSET Coletas
  /\ quedas \in 0..MaxQuedas

\* Once gercols has compared, coleta.json is either marked for sending or is
\* what the manager has: no change is forgotten. Relates the registry value
\* that gercols and realizarEnviodeColeta() both write to the manager's copy.
\* The agent's document promises it without conditions.
NadaEsquecido ==
  (~enviaColeta /\ coleta # SemColeta /\ gercols.pc \notin {"gravado", "comparado"})
    => gerente.inv = coleta.inv

\* The manager never goes back to an older inventory than it holds. Several
\* requests can be pending at once, nested in each other's event loop and stored
\* in any order, and the collector rewrites the file between two of them: what
\* keeps them in step is that iniciarThread() waits for gercols outside any
\* event loop.
SemRegresso == [][gerente'.inv >= gerente.inv]_vars

\* The clock of the seven-day resend only runs once the manager has stored a
\* coleta, whatever failed, crashed or was interleaved before:
\* registrarDataEnvioDeColeta() is reached through an answered request.
DataSoDepoisDaEntrega == data # SemData => gerente # SemColeta

\* When the inventory stops changing and the user stops saving the form, the
\* manager ends up with the inventory for good. Every way of losing a change
\* (a failed send, a timeout taken for success, a crash between the file and
\* the registry) is made good by the seven-day resend of enviarColeta().
EntregaEventual ==
  <>[](mapa.pc # "gravado") => <>[](gerente.inv = inventario)

\* The chain of files, registry, collector and requests is a mirror.
EspelhoDoInventario ==
  INSTANCE Espelho WITH fonte <- inventario, copia <- gerente.inv

\* The agent implements the abstract mirror, its liveness included.
CopiaFiel == EspelhoDoInventario!Spec

-----------------------------------------------------------------------------
(* The inductive invariants behind the two safety properties.               *)

Ciclo == {"gerente", "modulos", "esperaGercols", "getMapa"}

\* A frame that got as far as an answer proves that the manager has a coleta.
QuadroProvado(q) ==
  /\ q.pc = "coleta" => q.dado # SemColeta
  /\ q.pc = "diff" \/ q.entregue => gerente # SemColeta

NaPilha == {pilha[i] : i \in DOMAIN pilha}

EntregaProvada ==
  /\ DataSoDepoisDaEntrega
  /\ \A q \in NaPilha : QuadroProvado(q)
  /\ SemColeta \notin emTransito

\* Only the running frame is outside an event loop; there is one timer slot at
\* most, below everything else.
PilhaOrdenada ==
  \A i \in DOMAIN pilha :
    /\ i # Len(pilha) => pilha[i].pc \in Espera
    /\ pilha[i].pc \in Ciclo => i = 1

\* The collector runs only while the service waits for it, with nothing marked
\* for sending, and what it compares with is what the manager has.
GercolsEsperado ==
  /\ gercols.pc # "parado" =>
       pilha # <<>> /\ Topo.pc = "esperaGercols" /\ ~enviaColeta
  /\ gercols.pc = "lido" => gercols.velha = coleta
  /\ gercols.pc \in {"gravado", "comparado"} => coleta.inv = gercols.nova
  /\ gercols.pc \in {"lido", "gravado", "comparado"} /\ gercols.velha # SemColeta =>
       gerente.inv = gercols.velha.inv
  /\ gercols.velha.pat = FALSE
  /\ \A i \in DOMAIN pilha :
       pilha[i].pc = "esperaGercols" => "gercols" \notin pilha[i].resta

\* A pending send carries the coleta of the file.
EnvioAtual ==
  \A i \in DOMAIN pilha : pilha[i].pc = "coleta" =>
    /\ pilha[i].dado = coleta
    /\ pilha[i].entregue => gerente.inv = coleta.inv

\* What is marked for sending is on its way: the timer slot that marked it has
\* not returned.
MarcaEmAndamento ==
  enviaColeta =>
    /\ coleta # SemColeta
    /\ pilha # <<>>
    /\ \/ pilha[1].pc = "coleta"
       \/ /\ pilha[1].pc \in {"modulos", "esperaGercols", "getMapa"}
          /\ "gercols" \notin pilha[1].resta

\* The manager is behind the file, the file behind the collector, and the
\* collector behind the machine; every pending send carries the file.
EmFila ==
  /\ gerente.inv <= coleta.inv
  /\ coleta.inv <= inventario
  /\ gercols.pc # "parado" =>
       /\ pilha # <<>> /\ Topo.pc = "esperaGercols"
       /\ coleta.inv <= gercols.nova /\ gercols.nova <= inventario
  /\ \A i \in DOMAIN pilha :
       pilha[i].pc = "coleta" => pilha[i].dado.inv = coleta.inv

IndRegresso ==
  /\ mapa.pc = "parado" /\ emTransito = {}
  /\ PilhaOrdenada
  /\ EmFila

\* No copy of the inventory, wherever it is held, is ahead of the machine.
NadaAdiantado ==
  /\ coleta.inv <= inventario
  /\ gercols.nova <= inventario
  /\ mapa.lida.inv <= inventario
  /\ gerente.inv <= inventario
  /\ \A q \in NaPilha : q.dado.inv <= inventario
  /\ \A c \in emTransito : c.inv <= inventario

IndEsquecido ==
  /\ mapa.pc = "parado" /\ emTransito = {} /\ ~coleta.pat
  /\ PilhaOrdenada
  /\ GercolsEsperado
  /\ EnvioAtual
  /\ MarcaEmAndamento
  /\ NadaEsquecido
==============================================================================
