-------------------------------- MODULE Parada --------------------------------
(***************************************************************************)
(* How the two Windows services start and stop, and how the stop of        *)
(* cacic-service ends the interface (Windows build).                       *)
(*                                                                         *)
(* Each service is a process with three threads: the main one runs the     *)
(* event loop; the system's calls of serviceMain() and of the control      *)
(* handler come on two others, which post an event to the main one and     *)
(* wait on a condition until it has been handled. ServiceController, run   *)
(* by an installer and by the main thread of each service against the      *)
(* other, asks the service control manager and waits in its turn.          *)
(* cacicD::stop() writes STOPUI to the interface and waits for its ACK in  *)
(* a nested event loop that only quit() ends.                              *)
(***************************************************************************)
EXTENDS Naturals, Sequences

CONSTANTS
  MaxTentativas, \* ServiceClient::MAX_CONNECTION_TRIALS
  MaxPedidos     \* bound: stops and updates that something asks for

ASSUME ParadaAssumption ==
  /\ MaxTentativas \in Nat \ {0}
  /\ MaxPedidos \in Nat

Servico  == "CacicDaemon"
Vigia    == "CheckCacic"
Servicos == {Servico, Vigia}
Clientes == Servicos \cup {"instalador"}

VARIABLES
  scm,       \* status of each service in the control manager
  fio,       \* main thread of each service
  inicio,    \* thread of serviceMain()
  controle,  \* thread of the control handler
  mutex,     \* free, or held by one of those two
  eventos,   \* events posted to the main thread
  chamada,   \* call of ServiceController in progress, of each client
  cliente,   \* ServiceClient of cacic-service
  conexao,   \* its connection to the interface
  ui,        \* the interface runs
  finalizar, \* on_finalizar() is queued in the interface
  pedidos    \* how many so far

servVars == <<scm, fio, inicio, controle, mutex, eventos, chamada>>
uiVars   == <<cliente, conexao, ui, finalizar>>
vars     == <<servVars, uiVars, pedidos>>

-----------------------------------------------------------------------------
Pendentes == {"START_PENDING", "STOP_PENDING"}

\* ninho: the nested loop of stop() is on the stack; quit: quit() was called.
Fora == [pc |-> "fora", ninho |-> FALSE, quit |-> FALSE]
Pontos == {"fora", "semaforo", "laco", "chama", "acorda"}

\* sc: the command SC, which does not wait; depois: what the caller does next.
Livre == [pc |-> "livre", alvo |-> Servico, sc |-> FALSE, depois |-> "volta"]
Passos == {"livre", "pergunta", "pede", "controle", "esperaParada",
           "perguntaInicio", "consulta", "lanca", "esperaInicio"}

\* perdeu, a history variable: STOPUI or its ACK was lost when a process ended.
SemCliente == [connected |-> FALSE, canSend |-> FALSE, tentativas |-> 0,
               connectTimer |-> FALSE, reconnectTimer |-> FALSE, perdeu |-> FALSE]

\* ida: STOPUI not read; buffer: ACK written and not sent; volta: ACK not read.
SemConexao == [estado |-> "nenhuma", ida |-> FALSE, buffer |-> FALSE,
               volta |-> FALSE]
Ligada == [SemConexao EXCEPT !.estado = "ligada"]

Outro(s)     == IF s = Servico THEN Vigia ELSE Servico
Em(s, pc)    == fio[s].pc = pc
NoLaco(s)    == Em(s, "laco") /\ ~fio[s].quit
Vai(s, pc)   == fio' = [fio EXCEPT ![s].pc = pc]
Iniciado(s)  == inicio[s] \in {"acordado", "fim"}
Passa(c, pc) == chamada' = [chamada EXCEPT ![c].pc = pc]

\* At boot the system starts both.
Init ==
  /\ scm = [s \in Servicos |-> "START_PENDING"]
  /\ fio = [s \in Servicos |-> [Fora EXCEPT !.pc = "semaforo"]]
  /\ inicio = [s \in Servicos |-> "chamado"]
  /\ controle = [s \in Servicos |-> "livre"]
  /\ mutex = [s \in Servicos |-> "livre"]
  /\ eventos = [s \in Servicos |-> <<>>]
  /\ chamada = [c \in Clientes |-> Livre]
  /\ cliente = SemCliente
  /\ conexao = SemConexao
  /\ ui \in BOOLEAN
  /\ finalizar = FALSE
  /\ pedidos = 0

-----------------------------------------------------------------------------
(* The two threads that the system calls: serviceMain() and handler().      *)

\* serviceMain() releases the first semaphore, and waits for the second until
\* the main thread has its event loop.
SemaforosLiberados(s) ==
  /\ Em(s, "semaforo") /\ inicio[s] = "chamado"
  /\ inicio' = [inicio EXCEPT ![s] = "registra"]
  /\ Vai(s, "laco")
  /\ UNCHANGED <<scm, controle, mutex, eventos, chamada, uiVars, pedidos>>

\* handler(): the status is set and the event posted with the mutex held.
Posta(s, quem, status, evento) ==
  /\ mutex[s] = "livre"
  /\ mutex' = [mutex EXCEPT ![s] = quem]
  /\ scm' = [scm EXCEPT ![s] = status]
  /\ eventos' = [eventos EXCEPT ![s] = Append(@, evento)]

\* Mutant: the service is reported to run before start().
MutPostaInicio(s) ==
  /\ inicio[s] = "registra"
  /\ Posta(s, "inicio", "RUNNING", "STARTUP")
  /\ inicio' = [inicio EXCEPT ![s] = "postou"]
  /\ UNCHANGED <<fio, controle, chamada, uiVars, pedidos>>

PostaInicio(s) ==
  /\ inicio[s] = "registra"
  /\ Posta(s, "inicio", "START_PENDING", "STARTUP")
  /\ inicio' = [inicio EXCEPT ![s] = "postou"]
  /\ UNCHANGED <<fio, controle, chamada, uiVars, pedidos>>

PostaParada(s) ==
  /\ controle[s] = "chamado"
  /\ Posta(s, "controle", "STOP_PENDING", "STOP")
  /\ controle' = [controle EXCEPT ![s] = "postou"]
  /\ UNCHANGED <<fio, inicio, chamada, uiVars, pedidos>>

\* condition.wait() releases the mutex.
EsperaInicio(s) ==
  /\ inicio[s] = "postou"
  /\ inicio' = [inicio EXCEPT ![s] = "espera"]
  /\ mutex' = [mutex EXCEPT ![s] = "livre"]
  /\ UNCHANGED <<scm, fio, controle, eventos, chamada, uiVars, pedidos>>

\* Mutant: the wait keeps the mutex.
MutEsperaParada(s) ==
  /\ controle[s] = "postou"
  /\ controle' = [controle EXCEPT ![s] = "espera"]
  /\ UNCHANGED <<scm, fio, inicio, mutex, eventos, chamada, uiVars, pedidos>>

EsperaParada(s) ==
  /\ controle[s] = "postou"
  /\ controle' = [controle EXCEPT ![s] = "espera"]
  /\ mutex' = [mutex EXCEPT ![s] = "livre"]
  /\ UNCHANGED <<scm, fio, inicio, eventos, chamada, uiVars, pedidos>>

\* serviceMain() has been woken; it returns.
AnunciaInicio(s) ==
  /\ inicio[s] = "acordado"
  /\ mutex[s] = "livre"
  /\ inicio' = [inicio EXCEPT ![s] = "fim"]
  /\ scm' = [scm EXCEPT ![s] = "RUNNING"]
  /\ UNCHANGED <<fio, controle, mutex, eventos, chamada, uiVars, pedidos>>

Devolve(s) ==
  /\ controle[s] = "acordado"
  /\ mutex[s] = "livre"
  /\ controle' = [controle EXCEPT ![s] = "livre"]
  /\ UNCHANGED <<scm, fio, inicio, mutex, eventos, chamada, uiVars, pedidos>>

-----------------------------------------------------------------------------
(* The main thread. start() of each service only creates timers.           *)

TrataInicio(s) ==
  /\ NoLaco(s)
  /\ eventos[s] # <<>> /\ Head(eventos[s]) = "STARTUP"
  /\ eventos' = [eventos EXCEPT ![s] = Tail(@)]
  /\ Vai(s, "acorda")
  /\ UNCHANGED <<scm, inicio, controle, mutex, chamada, uiVars, pedidos>>

Acordado(x) == IF x = "espera" THEN "acordado" ELSE x

\* wakeAll() reaches the threads that are waiting now.
AcordaTodas(s) ==
  /\ inicio' = [inicio EXCEPT ![s] = Acordado(@)]
  /\ controle' = [controle EXCEPT ![s] = Acordado(@)]

\* Mutant: wakeAll() without the mutex.
MutAcorda(s) ==
  /\ Em(s, "acorda")
  /\ AcordaTodas(s)
  /\ Vai(s, "laco")
  /\ UNCHANGED <<scm, mutex, eventos, chamada, uiVars, pedidos>>

\* The end of handleCustomEvent().
Acorda(s) ==
  /\ Em(s, "acorda")
  /\ mutex[s] = "livre"
  /\ AcordaTodas(s)
  /\ Vai(s, "laco")
  /\ UNCHANGED <<scm, mutex, eventos, chamada, uiVars, pedidos>>

\* exec() returns: the process reports STOPPED, waits for its handler thread
\* and ends, with its threads and its connection. A STOPUI that the nested loop,
\* ended by another quit(), has not sent is lost.
Termina(s) ==
  /\ Em(s, "laco") /\ fio[s].quit /\ ~fio[s].ninho
  /\ scm' = [scm EXCEPT ![s] = "STOPPED"]
  /\ fio' = [fio EXCEPT ![s] = Fora]
  /\ inicio' = [inicio EXCEPT ![s] = "fora"]
  /\ controle' = [controle EXCEPT ![s] = "livre"]
  /\ mutex' = [mutex EXCEPT ![s] = "livre"]
  /\ eventos' = [eventos EXCEPT ![s] = <<>>]
  /\ IF s = Servico
     THEN \E chega \in {conexao.ida, FALSE} :
            /\ conexao' = [SemConexao EXCEPT !.ida = chega]
            /\ cliente' = [SemCliente EXCEPT !.perdeu = conexao.ida /\ ~chega]
     ELSE UNCHANGED <<cliente, conexao>>
  /\ UNCHANGED <<chamada, ui, finalizar, pedidos>>

-----------------------------------------------------------------------------
(* The event STOP: stop(), then quit().                                    *)

\* setupSocketConnection(). A failure starts connectTimer, the first time; the
\* last one stops both timers.
Conecta ==
  /\ ui
  /\ conexao' = Ligada
  /\ cliente' = [cliente EXCEPT !.connected = TRUE, !.canSend = TRUE,
                                !.reconnectTimer = FALSE]

NaoConecta ==
  /\ ~ui
  /\ cliente' = [cliente EXCEPT
       !.connectTimer = (@ \/ cliente.tentativas = 0) /\ cliente.tentativas < MaxTentativas,
       !.reconnectTimer = @ /\ cliente.tentativas < MaxTentativas,
       !.tentativas = IF @ > MaxTentativas THEN @ ELSE @ + 1]
  /\ UNCHANGED conexao

TrataParada(s) ==
  /\ NoLaco(s)
  /\ eventos[s] # <<>> /\ Head(eventos[s]) = "STOP"
  /\ eventos' = [eventos EXCEPT ![s] = Tail(@)]

\* chksys::stop() calls quit() at once.
ParaVigia ==
  /\ TrataParada(Vigia)
  /\ fio' = [fio EXCEPT ![Vigia].pc = "acorda", ![Vigia].quit = TRUE]
  /\ UNCHANGED <<scm, inicio, controle, mutex, chamada, uiVars, pedidos>>

\* cacicD::stop(): the ServiceClient connects when it is created. Connected, it
\* writes STOPUI and runs the nested loop.
ParaServico ==
  /\ TrataParada(Servico)
  /\ \/ /\ ui
        /\ cliente' = [SemCliente EXCEPT !.connected = TRUE, !.canSend = TRUE]
        /\ conexao' = [Ligada EXCEPT !.ida = TRUE]
        /\ fio' = [fio EXCEPT ![Servico].ninho = TRUE]
     \/ /\ ~ui
        /\ cliente' = [SemCliente EXCEPT !.connectTimer = TRUE, !.tentativas = 1]
        /\ fio' = [fio EXCEPT ![Servico].pc = "acorda", ![Servico].quit = TRUE]
        /\ UNCHANGED conexao
  /\ UNCHANGED <<scm, inicio, controle, mutex, chamada, ui, finalizar, pedidos>>

\* The nested loop has ended: stop() returns and quit() is called again.
NinhoTermina ==
  /\ Em(Servico, "laco") /\ fio[Servico].quit /\ fio[Servico].ninho
  /\ fio' = [fio EXCEPT ![Servico].pc = "acorda", ![Servico].ninho = FALSE]
  /\ UNCHANGED <<scm, inicio, controle, mutex, eventos, chamada, uiVars, pedidos>>

\* Mutant: the ACK only enables canSend.
MutLeAck ==
  /\ NoLaco(Servico) /\ conexao.volta
  /\ conexao' = [conexao EXCEPT !.volta = FALSE]
  /\ cliente' = [cliente EXCEPT !.canSend = TRUE]
  /\ UNCHANGED <<servVars, ui, finalizar, pedidos>>

\* on_readyRead(): the ACK of STOPUI, uiStopped() and on_uiStopped().
LeAck ==
  /\ NoLaco(Servico) /\ conexao.volta
  /\ conexao' = [conexao EXCEPT !.volta = FALSE]
  /\ cliente' = [cliente EXCEPT !.canSend = TRUE]
  /\ fio' = [fio EXCEPT ![Servico].quit = TRUE]
  /\ UNCHANGED <<scm, inicio, controle, mutex, eventos, chamada, ui, finalizar,
                 pedidos>>

\* Mutant: the end of the connection is handled before what came on it.
MutDesconecta ==
  /\ NoLaco(Servico)
  /\ conexao.estado = "uiFechou"
  /\ conexao' = SemConexao
  /\ cliente' = [cliente EXCEPT !.connected = FALSE, !.reconnectTimer = TRUE]
  /\ UNCHANGED <<servVars, ui, finalizar, pedidos>>

\* on_disconnected(), after what the interface had sent.
Desconecta ==
  /\ NoLaco(Servico)
  /\ conexao.estado = "uiFechou" /\ ~conexao.volta
  /\ conexao' = SemConexao
  /\ cliente' = [cliente EXCEPT !.connected = FALSE, !.reconnectTimer = TRUE]
  /\ UNCHANGED <<servVars, ui, finalizar, pedidos>>

\* A timer connects again; STOPUI is not written again.
Reconecta ==
  /\ NoLaco(Servico)
  /\ cliente.connectTimer \/ cliente.reconnectTimer
  /\ conexao.estado = "nenhuma"
  /\ Conecta \/ NaoConecta
  /\ UNCHANGED <<servVars, ui, finalizar, pedidos>>

-----------------------------------------------------------------------------
(* The interface: UiServerThread, and the main thread.                     *)

AbreUi ==
  /\ ~ui
  /\ ui' = TRUE
  /\ UNCHANGED <<servVars, cliente, conexao, finalizar, pedidos>>

\* Mutant: the ACK is all that is done.
MutLeStopUi ==
  /\ ui /\ conexao.ida
  /\ conexao' = [conexao EXCEPT !.ida = FALSE, !.buffer = (conexao.estado = "ligada")]
  /\ UNCHANGED <<servVars, cliente, ui, finalizar, pedidos>>

\* readyRead(): the ACK is written, which only the thread's loop sends, and
\* finalizarUi() is queued for the main thread.
LeStopUi ==
  /\ ui /\ conexao.ida
  /\ conexao' = [conexao EXCEPT !.ida = FALSE, !.buffer = (conexao.estado = "ligada")]
  /\ finalizar' = TRUE
  /\ UNCHANGED <<servVars, cliente, ui, pedidos>>

EnviaAck ==
  /\ ui /\ conexao.buffer
  /\ conexao' = [conexao EXCEPT !.buffer = FALSE, !.volta = TRUE]
  /\ UNCHANGED <<servVars, cliente, ui, finalizar, pedidos>>

\* The process ends: what was not read or not sent is lost.
UiTermina ==
  /\ ui
  /\ ui' = FALSE
  /\ finalizar' = FALSE
  /\ conexao' = IF conexao.estado = "ligada"
                THEN [conexao EXCEPT !.estado = "uiFechou", !.ida = FALSE, !.buffer = FALSE]
                ELSE [conexao EXCEPT !.ida = FALSE]
  /\ cliente' = [cliente EXCEPT !.perdeu =
                   @ \/ (conexao.estado = "ligada" /\ (conexao.ida \/ conexao.buffer))]
  /\ UNCHANGED <<servVars, pedidos>>

on_finalizar == finalizar /\ UiTermina

\* The user ends the session.
FechaSessao == UiTermina

-----------------------------------------------------------------------------
(* ServiceController: the calls of each client.                            *)

\* What the caller does after stop(), whatever its result: on_finalizar() calls
\* quit(), the updates start the service again.
DepoisDaParada(c) ==
  CASE chamada[c].depois = "start" ->
         /\ chamada' = [chamada EXCEPT ![c].pc = "perguntaInicio", ![c].depois = "volta"]
         /\ UNCHANGED fio
    [] chamada[c].depois = "quit" ->
         /\ chamada' = [chamada EXCEPT ![c] = Livre]
         /\ fio' = [fio EXCEPT ![c].pc = "laco", ![c].quit = TRUE]
    [] OTHER ->
         /\ chamada' = [chamada EXCEPT ![c] = Livre]
         /\ IF c \in Servicos THEN Vai(c, "laco") ELSE UNCHANGED fio

Retorna(c) ==
  /\ chamada' = [chamada EXCEPT ![c] = Livre]
  /\ IF c \in Servicos THEN Vai(c, "laco") ELSE UNCHANGED fio

Chamando(c, pc) == chamada[c].pc = pc
Status(c)       == scm[chamada[c].alvo]

\* isRunning(), before stop().
Pergunta(c) ==
  /\ Chamando(c, "pergunta")
  /\ IF Status(c) = "RUNNING" THEN Passa(c, "pede") /\ UNCHANGED fio
                              ELSE DepoisDaParada(c)
  /\ UNCHANGED <<scm, inicio, controle, mutex, eventos, uiVars, pedidos>>

\* ControlService(): the control manager takes the request when the service
\* runs, one at a time, and otherwise answers with the status.
PedeParada(c) ==
  LET s == chamada[c].alvo
  IN  /\ Chamando(c, "pede")
      /\ controle[s] = "livre"
      /\ \/ /\ scm[s] = "RUNNING"
            /\ controle' = [controle EXCEPT ![s] = "chamado"]
            /\ Passa(c, "controle")
            /\ UNCHANGED fio
         \/ /\ scm[s] = "STOP_PENDING" /\ ~chamada[c].sc
            /\ Passa(c, "esperaParada")
            /\ UNCHANGED <<fio, controle>>
         \/ /\ scm[s] # "RUNNING" /\ (scm[s] = "STOP_PENDING" => chamada[c].sc)
            /\ DepoisDaParada(c)
            /\ UNCHANGED controle
      /\ UNCHANGED <<scm, inicio, mutex, eventos, uiVars, pedidos>>

\* The handler has returned, or its process has ended.
Respondido(c) ==
  /\ Chamando(c, "controle")
  /\ controle[chamada[c].alvo] = "livre"
  /\ IF Status(c) = "STOP_PENDING" /\ ~chamada[c].sc
     THEN Passa(c, "esperaParada") /\ UNCHANGED fio
     ELSE DepoisDaParada(c)
  /\ UNCHANGED <<scm, inicio, controle, mutex, eventos, uiVars, pedidos>>

\* ControlService() fails after 30 seconds of a busy handler, and lpsStatus, which
\* it has not filled and nothing else has, may say anything.
ControleExpira(c) ==
  /\ Chamando(c, "controle") \/ Chamando(c, "pede")
  /\ controle[chamada[c].alvo] # "livre"
  /\ \/ Passa(c, "esperaParada") /\ ~chamada[c].sc /\ UNCHANGED fio
     \/ DepoisDaParada(c)
  /\ UNCHANGED <<scm, inicio, controle, mutex, eventos, uiVars, pedidos>>

\* Mutant: each query of waitPending() counts the 30 seconds anew.
MutEsperou(c) == Status(c) \notin Pendentes

\* waitPending() ends with the pending status, or after 30 seconds of it.
Esperou(c) == TRUE

FimDaEspera(c) ==
  /\ Esperou(c)
  /\ \/ Chamando(c, "esperaParada") /\ DepoisDaParada(c)
     \/ Chamando(c, "esperaInicio") /\ Retorna(c)
  /\ UNCHANGED <<scm, inicio, controle, mutex, eventos, uiVars, pedidos>>

\* isRunning(), before start().
PerguntaInicio(c) ==
  /\ Chamando(c, "perguntaInicio")
  /\ IF Status(c) = "RUNNING" THEN Retorna(c) ELSE Passa(c, "consulta") /\ UNCHANGED fio
  /\ UNCHANGED <<scm, inicio, controle, mutex, eventos, uiVars, pedidos>>

\* start() begins with a query of its own.
Consulta(c) ==
  /\ Chamando(c, "consulta")
  /\ IF Status(c) \in {"STOPPED", "STOP_PENDING"}
     THEN Passa(c, "lanca") /\ UNCHANGED fio
     ELSE Retorna(c)
  /\ UNCHANGED <<scm, inicio, controle, mutex, eventos, uiVars, pedidos>>

\* StartService() on a stopped service.
Inicia(s) ==
  /\ scm' = [scm EXCEPT ![s] = "START_PENDING"]
  /\ fio' = [fio EXCEPT ![s].pc = "semaforo"]
  /\ inicio' = [inicio EXCEPT ![s] = "chamado"]

\* StartService(), after waitPending(): it fails unless the service is stopped.
Lanca(c) ==
  LET s == chamada[c].alvo
  IN  /\ Chamando(c, "lanca")
      /\ Esperou(c)
      /\ IF scm[s] = "STOPPED"
         THEN Inicia(s) /\ Passa(c, "esperaInicio")
         ELSE Retorna(c) /\ UNCHANGED <<scm, inicio>>
      /\ UNCHANGED <<controle, mutex, eventos, uiVars, pedidos>>

-----------------------------------------------------------------------------
(* Who calls it.                                                           *)

Chama(c, pc, sc, depois) ==
  chamada' = [chamada EXCEPT ![c] = [pc |-> pc, sc |-> sc, depois |-> depois,
                 alvo |-> IF c \in Servicos THEN Outro(c) ELSE Servico]]

\* Mutant: the service is started only after it was stopped for an update.
MutTimerVigia ==
  /\ NoLaco(Vigia) /\ Iniciado(Vigia)
  /\ pedidos < MaxPedidos /\ pedidos' = pedidos + 1
  /\ Chama(Vigia, "pergunta", FALSE, "start")
  /\ Vai(Vigia, "chama")
  /\ UNCHANGED <<scm, inicio, controle, mutex, eventos, uiVars>>

\* onTimerCheckService(): a new version of the service stops it, and it is
\* started whenever it does not run.
TimerVigia ==
  /\ NoLaco(Vigia) /\ Iniciado(Vigia)
  /\ \/ /\ pedidos < MaxPedidos /\ pedidos' = pedidos + 1
        /\ Chama(Vigia, "pergunta", FALSE, "start")
     \/ Chama(Vigia, "perguntaInicio", FALSE, "volta") /\ UNCHANGED pedidos
  /\ Vai(Vigia, "chama")
  /\ UNCHANGED <<scm, inicio, controle, mutex, eventos, uiVars>>

Pedido(c) == /\ chamada[c].pc = "livre"
             /\ pedidos < MaxPedidos /\ pedidos' = pedidos + 1

NoServico == /\ NoLaco(Servico) /\ Iniciado(Servico)
             /\ Vai(Servico, "chama")

\* on_finalizar(), for FINALIZAR or a new version of the service itself.
Finaliza ==
  /\ Pedido(Servico) /\ NoServico
  /\ Chama(Servico, "pergunta", FALSE, "quit")
  /\ UNCHANGED <<scm, inicio, controle, mutex, eventos, uiVars>>

\* verificarModulos() with a new version of chksys.
AtualizaVigia ==
  /\ Pedido(Servico) /\ NoServico
  /\ Chama(Servico, "pergunta", TRUE, "start")
  /\ UNCHANGED <<scm, inicio, controle, mutex, eventos, uiVars>>

\* The cycle runs every module of the list; chksys.exe, run from a process, asks
\* for the start of the service CheckCacic and does not wait for it.
IniciaVigia ==
  /\ NoLaco(Servico) /\ Iniciado(Servico)
  /\ scm[Vigia] = "STOPPED"
  /\ Inicia(Vigia)
  /\ UNCHANGED <<controle, mutex, eventos, chamada, uiVars, pedidos>>

\* An installer, another process, stops the service.
InstaladorPara ==
  /\ Pedido("instalador")
  /\ Chama("instalador", "pergunta", FALSE, "volta")
  /\ UNCHANGED <<scm, fio, inicio, controle, mutex, eventos, uiVars>>

-----------------------------------------------------------------------------
Fio(s) ==
  \/ TrataInicio(s) \/ Acorda(s) \/ Termina(s)
  \/ s = Vigia   /\ (ParaVigia \/ TimerVigia)
  \/ s = Servico /\ (ParaServico \/ NinhoTermina \/ LeAck \/ Desconecta \/ Reconecta
                     \/ Finaliza \/ AtualizaVigia \/ IniciaVigia)

Sistema(s) ==
  \/ SemaforosLiberados(s)
  \/ PostaInicio(s) \/ EsperaInicio(s) \/ AnunciaInicio(s)
  \/ PostaParada(s) \/ EsperaParada(s) \/ Devolve(s)

ServiceController(c) ==
  \/ Pergunta(c) \/ PedeParada(c) \/ Respondido(c) \/ ControleExpira(c)
  \/ FimDaEspera(c) \/ PerguntaInicio(c) \/ Consulta(c) \/ Lanca(c)

Interface == AbreUi \/ LeStopUi \/ EnviaAck \/ on_finalizar \/ FechaSessao

Next ==
  \/ \E s \in Servicos : Fio(s) \/ Sistema(s)
  \/ \E c \in Clientes : ServiceController(c)
  \/ InstaladorPara
  \/ Interface

Spec == Init /\ [][Next]_vars

\* The threads run, a wait with a limit ends, and what was sent arrives. Qt
\* dispatches the posted events at each turn of the loop, before the timers: a
\* slot that starts again does not keep them waiting.
FairSpec ==
  /\ Spec
  /\ \A s \in Servicos :
       /\ WF_vars(Sistema(s))
       /\ SF_vars(TrataInicio(s)) /\ WF_vars(Acorda(s)) /\ WF_vars(Termina(s))
  /\ SF_vars(ParaVigia) /\ SF_vars(ParaServico) /\ WF_vars(TimerVigia)
  /\ WF_vars(IniciaVigia)
  /\ WF_vars(NinhoTermina) /\ SF_vars(LeAck)
  /\ \A c \in Clientes : WF_vars(ServiceController(c))
  /\ WF_vars(LeStopUi) /\ WF_vars(EnviaAck) /\ WF_vars(on_finalizar)
===============================================================================
