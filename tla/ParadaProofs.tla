----------------------------- MODULE ParadaProofs -----------------------------
(***************************************************************************)
(* Proofs about Parada, for any number of connection trials and of stops.  *)
(* The inductive invariant names the nine phases that a service goes       *)
(* through: each fixes its status, where its three threads are and what is *)
(* in the queue of the main one. A wait on the condition is in the phases  *)
(* whose event is queued or in handling, so it will be woken.              *)
(***************************************************************************)
EXTENDS ParadaProps, TLAPS

NaVida(s) == fio[s].pc \in {"laco", "chama"}

Parado(s) ==
  /\ scm[s] = "STOPPED" /\ inicio[s] = "fora" /\ controle[s] = "livre"
  /\ fio[s] = Fora /\ eventos[s] = <<>>

Chamado(s) ==
  /\ scm[s] = "START_PENDING" /\ inicio[s] = "chamado" /\ controle[s] = "livre"
  /\ fio[s].pc = "semaforo" /\ ~fio[s].ninho /\ ~fio[s].quit /\ eventos[s] = <<>>

Registra(s) ==
  /\ scm[s] = "START_PENDING" /\ inicio[s] = "registra" /\ controle[s] = "livre"
  /\ fio[s].pc = "laco" /\ ~fio[s].ninho /\ ~fio[s].quit /\ eventos[s] = <<>>

Partida(s) ==
  /\ scm[s] = "START_PENDING" /\ inicio[s] \in {"postou", "espera"}
  /\ controle[s] = "livre" /\ ~fio[s].ninho /\ ~fio[s].quit
  /\ \/ fio[s].pc = "laco"   /\ eventos[s] = <<"STARTUP">>
     \/ fio[s].pc = "acorda" /\ eventos[s] = <<>>

Iniciando(s) ==
  /\ scm[s] = "START_PENDING" /\ inicio[s] = "acordado" /\ controle[s] = "livre"
  /\ NaVida(s) /\ ~fio[s].ninho /\ eventos[s] = <<>>

Rodando(s) ==
  /\ scm[s] = "RUNNING" /\ inicio[s] = "fim" /\ controle[s] \in {"livre", "chamado"}
  /\ NaVida(s) /\ ~fio[s].ninho /\ eventos[s] = <<>>

ParadaPedida(s) ==
  /\ scm[s] = "STOP_PENDING" /\ inicio[s] = "fim"
  /\ controle[s] \in {"postou", "espera"}
  /\ NaVida(s) /\ ~fio[s].ninho /\ eventos[s] = <<"STOP">>

Parando(s) ==
  /\ scm[s] = "STOP_PENDING" /\ inicio[s] = "fim"
  /\ controle[s] \in {"postou", "espera"} /\ eventos[s] = <<>>
  /\ \/ fio[s].ninho /\ NaVida(s)
     \/ ~fio[s].ninho /\ fio[s].quit /\ fio[s].pc = "acorda"

ParadaFeita(s) ==
  /\ scm[s] = "STOP_PENDING" /\ inicio[s] = "fim"
  /\ controle[s] \in {"acordado", "livre"} /\ eventos[s] = <<>>
  /\ fio[s].pc = "laco" /\ ~fio[s].ninho /\ fio[s].quit

Fase(s) ==
  \/ Parado(s) \/ Chamado(s) \/ Registra(s) \/ Partida(s) \/ Iniciando(s)
  \/ Rodando(s) \/ ParadaPedida(s) \/ Parando(s) \/ ParadaFeita(s)

\* A main thread is in a call when, and only when, it is the caller of one, and
\* not after quit().
NaChamada(s) ==
  /\ fio[s].pc = "chama" <=> chamada[s].pc # "livre"
  /\ fio[s].pc = "chama" => ~fio[s].quit

\* There is a connection to the interface, or a timer for one, only while the
\* service stops.
ComUi ==
  \/ conexao.estado # "nenhuma" \/ conexao.buffer \/ conexao.volta
  \/ cliente.connectTimer \/ cliente.reconnectTimer

SoParando == ComUi => Parando(Servico) \/ ParadaFeita(Servico)

IInv ==
  /\ TypeOK
  /\ \A s \in Servicos : Fase(s) /\ NaChamada(s)
  /\ SoParando

-----------------------------------------------------------------------------
\* An event is posted to an empty queue and taken from a queue that holds it.
LEMMA UmEvento ==
  ASSUME NEW e \in {"STARTUP", "STOP"}
  PROVE  /\ Append(<<>>, e) = <<e>>
         /\ Tail(<<e>>) = <<>> /\ Head(<<e>>) = e
         /\ <<e>> # <<>> /\ <<e>> \in Filas /\ <<>> \in Filas
  BY DEF Filas

LEMMA FilaVazia == <<>> \in Filas
  BY DEF Filas

\* What each assignment to a main thread leaves.
LEMMA FioTipo ==
  ASSUME NEW f \in [Servicos -> Fios], NEW s \in Servicos, NEW pc \in Pontos
  PROVE  /\ [f EXCEPT ![s].pc = pc] \in [Servicos -> Fios]
         /\ [f EXCEPT ![s].quit = TRUE] \in [Servicos -> Fios]
         /\ [f EXCEPT ![s].ninho = TRUE] \in [Servicos -> Fios]
         /\ [f EXCEPT ![s].pc = pc, ![s].quit = TRUE] \in [Servicos -> Fios]
         /\ [f EXCEPT ![s].pc = pc, ![s].ninho = FALSE] \in [Servicos -> Fios]
<1>1. f[s] \in Fios
  OBVIOUS
<1>2. /\ [f[s] EXCEPT !.pc = pc] \in Fios
      /\ [f[s] EXCEPT !.quit = TRUE] \in Fios
      /\ [f[s] EXCEPT !.ninho = TRUE] \in Fios
      /\ [f[s] EXCEPT !.pc = pc, !.quit = TRUE] \in Fios
      /\ [f[s] EXCEPT !.pc = pc, !.ninho = FALSE] \in Fios
  BY <1>1 DEF Fios
<1> HIDE DEF Fios
<1> QED BY <1>2

\* What a step does not touch of a service keeps its phase.
LEMMA FaseIgual ==
  ASSUME NEW t \in Servicos, Fase(t), NaChamada(t),
         scm'[t] = scm[t], fio'[t] = fio[t], inicio'[t] = inicio[t],
         controle'[t] = controle[t], eventos'[t] = eventos[t],
         chamada'[t].pc = "livre" <=> chamada[t].pc = "livre"
  PROVE  /\ Fase(t)' /\ NaChamada(t)'
         /\ Parando(t) => Parando(t)'
         /\ ParadaFeita(t) => ParadaFeita(t)'
  BY DEF Fase, NaChamada, Parado, Chamado, Registra, Partida, Iniciando, Rodando,
         ParadaPedida, Parando, ParadaFeita, NaVida

LEMMA ParadaInicial == Init => IInv
<1> SUFFICES ASSUME Init PROVE IInv
  OBVIOUS
<1>1. TypeOK
  <2>1. fio \in [Servicos -> Fios]
    BY DEF Init, Fora, Fios, Pontos
  <2>2. Livre \in Chamada
    BY DEF Livre, Passos, Servicos, Chamada
  <2>3. SemCliente \in Cliente
    BY ParadaAssumption DEF SemCliente, Cliente
  <2>4. SemConexao \in Conexao
    BY DEF SemConexao, Conexao
  <2>5. /\ chamada \in [Clientes -> Chamada]
        /\ cliente \in Cliente /\ conexao \in Conexao
        /\ pedidos \in 0..MaxPedidos
    BY <2>2, <2>3, <2>4, ParadaAssumption DEF Init
  <2> QED BY <2>1, <2>5 DEF Init, TypeOK, Filas
<1>3. \A s \in Servicos : Chamado(s) /\ NaChamada(s)
  BY DEF Init, Chamado, NaChamada, Fora, Livre, Clientes
<1>4. SoParando
  BY DEF Init, SoParando, ComUi, SemConexao, SemCliente
<1> QED BY <1>1, <1>3, <1>4 DEF IInv, Fase

-----------------------------------------------------------------------------
(* Steps of the threads of serviceMain() and of the control handler.        *)

\* A step of one of those two threads touches one service, calls nobody and has
\* nothing to do with the interface.
LEMMA SistemaMantem ==
  ASSUME NEW s \in Servicos, SoParando,
         \A t \in Servicos : Fase(t) /\ NaChamada(t),
         TypeOK', Fase(s)', NaChamada(s)',
         Parando(s) \/ ParadaFeita(s) => Parando(s)' \/ ParadaFeita(s)',
         chamada' = chamada, uiVars' = uiVars,
         \A t \in Servicos : t # s =>
             /\ scm'[t] = scm[t] /\ fio'[t] = fio[t] /\ inicio'[t] = inicio[t]
             /\ controle'[t] = controle[t] /\ eventos'[t] = eventos[t]
  PROVE  IInv'
<1>1. ASSUME NEW t \in Servicos
      PROVE  /\ Fase(t)' /\ NaChamada(t)'
             /\ Parando(t) \/ ParadaFeita(t) => Parando(t)' \/ ParadaFeita(t)'
  <2>1. CASE t = s
    BY <2>1
  <2>2. CASE t # s
    BY <2>2, FaseIgual
  <2> QED BY <2>1, <2>2
<1>2. SoParando'
  BY <1>1 DEF SoParando, ComUi, uiVars, Servicos
<1> QED BY <1>1, <1>2 DEF IInv

LEMMA PassoSistema ==
  ASSUME IInv, NEW s \in Servicos, Sistema(s)
  PROVE  IInv'
<1> SUFFICES ASSUME TypeOK, \A t \in Servicos : Fase(t) /\ NaChamada(t), SoParando
             PROVE  IInv'
  BY DEF IInv
<1>1. CASE SemaforosLiberados(s)
  <2>1. Chamado(s)
    BY <1>1 DEF SemaforosLiberados, Em, Fase, Parado, Chamado, Registra, Partida, Iniciando, Rodando, ParadaPedida, Parando, ParadaFeita, NaVida
  <2>2. Registra(s)'
    BY <1>1, <2>1, UmEvento DEF SemaforosLiberados, TypeOK, Vai, Chamado, Registra
  <2>3. /\ chamada' = chamada /\ uiVars' = uiVars
        /\ \A t \in Servicos : t # s =>
             /\ scm'[t] = scm[t] /\ fio'[t] = fio[t] /\ inicio'[t] = inicio[t]
             /\ controle'[t] = controle[t] /\ eventos'[t] = eventos[t] /\ mutex'[t] = mutex[t]
    BY <1>1 DEF SemaforosLiberados, Vai, TypeOK, uiVars
  <2>4. TypeOK'
    <3>1. fio' \in [Servicos -> Fios]
      BY <1>1, FioTipo DEF SemaforosLiberados, Vai, TypeOK, Pontos
    <3> QED BY <1>1, <2>1, <3>1, UmEvento
            DEF SemaforosLiberados, Chamado, TypeOK, uiVars
  <2>5. NaChamada(s)'
    BY <1>1, <2>1, <2>2, <2>3 DEF NaChamada, SemaforosLiberados, Vai, Chamado, Registra, TypeOK
  <2>6. Fase(s)' /\ (Parando(s) \/ ParadaFeita(s) => Parando(s)' \/ ParadaFeita(s)')
    BY <2>1, <2>2 DEF Fase, Chamado, Parando, ParadaFeita
  <2> QED BY <2>2, <2>3, <2>4, <2>5, <2>6, SistemaMantem
<1>2. CASE PostaInicio(s)
  <2>1. Registra(s)
    BY <1>2 DEF PostaInicio, Fase, Parado, Chamado, Registra, Partida, Iniciando, Rodando, ParadaPedida, Parando, ParadaFeita, NaVida
  <2>2. Partida(s)'
    BY <1>2, <2>1, UmEvento DEF PostaInicio, Posta, TypeOK, Vai, Registra, Partida
  <2>3. /\ chamada' = chamada /\ uiVars' = uiVars
        /\ \A t \in Servicos : t # s =>
             /\ scm'[t] = scm[t] /\ fio'[t] = fio[t] /\ inicio'[t] = inicio[t]
             /\ controle'[t] = controle[t] /\ eventos'[t] = eventos[t] /\ mutex'[t] = mutex[t]
    BY <1>2 DEF PostaInicio, Posta, Vai, TypeOK, uiVars
  <2>4. TypeOK'
    BY <1>2, <2>1, UmEvento DEF PostaInicio, Posta, Registra, TypeOK, Filas, uiVars
  <2>5. NaChamada(s)'
    BY <1>2, <2>1, <2>2, <2>3 DEF NaChamada, PostaInicio, Registra, Partida, TypeOK
  <2>6. Fase(s)' /\ (Parando(s) \/ ParadaFeita(s) => Parando(s)' \/ ParadaFeita(s)')
    BY <2>1, <2>2 DEF Fase, Registra, Parando, ParadaFeita
  <2> QED BY <2>2, <2>3, <2>4, <2>5, <2>6, SistemaMantem
<1>3. CASE PostaParada(s)
  <2>1. Rodando(s)
    BY <1>3 DEF PostaParada, Fase, Parado, Chamado, Registra, Partida, Iniciando, Rodando, ParadaPedida, Parando, ParadaFeita, NaVida
  <2>2. ParadaPedida(s)'
    BY <1>3, <2>1, UmEvento DEF PostaParada, Posta, TypeOK, Vai, Rodando, ParadaPedida, NaVida
  <2>3. /\ chamada' = chamada /\ uiVars' = uiVars
        /\ \A t \in Servicos : t # s =>
             /\ scm'[t] = scm[t] /\ fio'[t] = fio[t] /\ inicio'[t] = inicio[t]
             /\ controle'[t] = controle[t] /\ eventos'[t] = eventos[t] /\ mutex'[t] = mutex[t]
    BY <1>3 DEF PostaParada, Posta, Vai, TypeOK, uiVars
  <2>4. TypeOK'
    BY <1>3, <2>1, UmEvento DEF PostaParada, Posta, Rodando, TypeOK, Filas, uiVars
  <2>5. NaChamada(s)'
    BY <1>3, <2>1, <2>2, <2>3 DEF NaChamada, PostaParada, Rodando, ParadaPedida, NaVida, TypeOK
  <2>6. Fase(s)' /\ (Parando(s) \/ ParadaFeita(s) => Parando(s)' \/ ParadaFeita(s)')
    BY <2>1, <2>2 DEF Fase, Rodando, Parando, ParadaFeita
  <2> QED BY <2>2, <2>3, <2>4, <2>5, <2>6, SistemaMantem
<1>4. CASE EsperaInicio(s)
  <2>1. Partida(s)
    BY <1>4 DEF EsperaInicio, Fase, Parado, Chamado, Registra, Partida, Iniciando, Rodando, ParadaPedida, Parando, ParadaFeita, NaVida
  <2>2. Partida(s)'
    BY <1>4, <2>1, UmEvento DEF EsperaInicio, TypeOK, Vai, Partida
  <2>3. /\ chamada' = chamada /\ uiVars' = uiVars
        /\ \A t \in Servicos : t # s =>
             /\ scm'[t] = scm[t] /\ fio'[t] = fio[t] /\ inicio'[t] = inicio[t]
             /\ controle'[t] = controle[t] /\ eventos'[t] = eventos[t] /\ mutex'[t] = mutex[t]
    BY <1>4 DEF EsperaInicio, Vai, TypeOK, uiVars
  <2>4. TypeOK'
    BY <1>4, <2>1, UmEvento DEF EsperaInicio, Partida, TypeOK, Filas, uiVars
  <2>5. NaChamada(s)'
    BY <1>4, <2>1, <2>2, <2>3 DEF NaChamada, EsperaInicio, Partida, TypeOK
  <2>6. Fase(s)' /\ (Parando(s) \/ ParadaFeita(s) => Parando(s)' \/ ParadaFeita(s)')
    BY <2>1, <2>2 DEF Fase, Partida, Parando, ParadaFeita
  <2> QED BY <2>2, <2>3, <2>4, <2>5, <2>6, SistemaMantem
<1>5. CASE EsperaParada(s)
  <2>1. ParadaPedida(s) \/ Parando(s)
    BY <1>5 DEF EsperaParada, Fase, Parado, Chamado, Registra, Partida, Iniciando, Rodando, ParadaPedida, Parando, ParadaFeita, NaVida
  <2>2. ParadaPedida(s)' \/ Parando(s)'
    BY <1>5, <2>1, UmEvento DEF EsperaParada, TypeOK, Vai, ParadaPedida, Parando, NaVida
  <2>3. /\ chamada' = chamada /\ uiVars' = uiVars
        /\ \A t \in Servicos : t # s =>
             /\ scm'[t] = scm[t] /\ fio'[t] = fio[t] /\ inicio'[t] = inicio[t]
             /\ controle'[t] = controle[t] /\ eventos'[t] = eventos[t] /\ mutex'[t] = mutex[t]
    BY <1>5 DEF EsperaParada, Vai, TypeOK, uiVars
  <2>4. TypeOK'
    <3>1. inicio[s] = "fim"
      BY <2>1 DEF ParadaPedida, Parando
    <3> QED BY <1>5, <3>1 DEF EsperaParada, TypeOK, uiVars
  <2>5. NaChamada(s)'
    BY <1>5, <2>1, <2>2, <2>3 DEF NaChamada, EsperaParada, ParadaPedida, Parando, NaVida, TypeOK
  <2>6. Fase(s)' /\ (Parando(s) \/ ParadaFeita(s) => Parando(s)' \/ ParadaFeita(s)')
    BY <1>5, <2>1, <2>2, UmEvento DEF EsperaParada, Fase, ParadaPedida, Parando, ParadaFeita
  <2> QED BY <2>2, <2>3, <2>4, <2>5, <2>6, SistemaMantem
<1>6. CASE AnunciaInicio(s)
  <2>1. Iniciando(s)
    BY <1>6 DEF AnunciaInicio, Fase, Parado, Chamado, Registra, Partida, Iniciando, Rodando, ParadaPedida, Parando, ParadaFeita, NaVida
  <2>2. Rodando(s)'
    BY <1>6, <2>1, UmEvento DEF AnunciaInicio, TypeOK, Vai, Iniciando, Rodando, NaVida
  <2>3. /\ chamada' = chamada /\ uiVars' = uiVars
        /\ \A t \in Servicos : t # s =>
             /\ scm'[t] = scm[t] /\ fio'[t] = fio[t] /\ inicio'[t] = inicio[t]
             /\ controle'[t] = controle[t] /\ eventos'[t] = eventos[t] /\ mutex'[t] = mutex[t]
    BY <1>6 DEF AnunciaInicio, Vai, TypeOK, uiVars
  <2>4. TypeOK'
    BY <1>6, <2>1, UmEvento DEF AnunciaInicio, Iniciando, TypeOK, Filas, uiVars
  <2>5. NaChamada(s)'
    BY <1>6, <2>1, <2>2, <2>3 DEF NaChamada, AnunciaInicio, Iniciando, Rodando, NaVida, TypeOK
  <2>6. Fase(s)' /\ (Parando(s) \/ ParadaFeita(s) => Parando(s)' \/ ParadaFeita(s)')
    BY <2>1, <2>2 DEF Fase, Iniciando, Parando, ParadaFeita
  <2> QED BY <2>2, <2>3, <2>4, <2>5, <2>6, SistemaMantem
<1>7. CASE Devolve(s)
  <2>1. ParadaFeita(s)
    BY <1>7 DEF Devolve, Fase, Parado, Chamado, Registra, Partida, Iniciando, Rodando, ParadaPedida, Parando, ParadaFeita, NaVida
  <2>2. ParadaFeita(s)'
    BY <1>7, <2>1, UmEvento DEF Devolve, TypeOK, Vai, ParadaFeita
  <2>3. /\ chamada' = chamada /\ uiVars' = uiVars
        /\ \A t \in Servicos : t # s =>
             /\ scm'[t] = scm[t] /\ fio'[t] = fio[t] /\ inicio'[t] = inicio[t]
             /\ controle'[t] = controle[t] /\ eventos'[t] = eventos[t] /\ mutex'[t] = mutex[t]
    BY <1>7 DEF Devolve, Vai, TypeOK, uiVars
  <2>4. TypeOK'
    BY <1>7, <2>1, UmEvento DEF Devolve, ParadaFeita, TypeOK, Filas, uiVars
  <2>5. NaChamada(s)'
    BY <1>7, <2>1, <2>2, <2>3 DEF NaChamada, Devolve, ParadaFeita, TypeOK
  <2>6. Fase(s)' /\ (Parando(s) \/ ParadaFeita(s) => Parando(s)' \/ ParadaFeita(s)')
    BY <2>1, <2>2 DEF Fase, ParadaFeita
  <2> QED BY <2>2, <2>3, <2>4, <2>5, <2>6, SistemaMantem
<1> QED BY <1>1, <1>2, <1>3, <1>4, <1>5, <1>6, <1>7 DEF Sistema

-----------------------------------------------------------------------------
(* Steps of ServiceController.                                              *)

\* A call goes on.
LEMMA CallAvanca ==
  ASSUME IInv, NEW c \in Clientes, NEW pc \in Passos, pc # "livre",
         chamada[c].pc # "livre",
         chamada'[c].pc = pc, chamada'[c] \in Chamada,
         chamada' = [chamada EXCEPT ![c] = chamada'[c]],
         UNCHANGED <<scm, fio, inicio, controle, mutex, eventos, uiVars, pedidos>>
  PROVE  IInv'
<1>1. TypeOK'
  BY DEF IInv, TypeOK, uiVars
<1>2. ASSUME NEW t \in Servicos
      PROVE  /\ Fase(t)' /\ NaChamada(t)'
             /\ Parando(t) => Parando(t)'
             /\ ParadaFeita(t) => ParadaFeita(t)'
  <2>1. CASE t = c
    BY <2>1, FaseIgual DEF IInv
  <2>2. CASE t # c
    BY <2>2, FaseIgual DEF IInv, TypeOK, Clientes
  <2> QED BY <2>1, <2>2
<1>3. SoParando'
  BY <1>2 DEF SoParando, ComUi, uiVars, Servicos, IInv
<1> QED BY <1>1, <1>2, <1>3 DEF IInv

LEMMA PassaMantem ==
  ASSUME IInv, NEW c \in Clientes, NEW pc \in Passos, pc # "livre",
         chamada[c].pc # "livre", Passa(c, pc),
         UNCHANGED <<scm, fio, inicio, controle, mutex, eventos, uiVars, pedidos>>
  PROVE  IInv'
<1>1. chamada[c] \in Chamada
  BY DEF IInv, TypeOK
<1>2. [chamada[c] EXCEPT !.pc = pc] \in Chamada
  BY <1>1 DEF Chamada
<1>3. chamada'[c] = [chamada[c] EXCEPT !.pc = pc]
  BY DEF Passa, IInv, TypeOK
<1>4. chamada'[c].pc = pc /\ chamada'[c] \in Chamada
  BY <1>1, <1>2, <1>3 DEF Chamada
<1>5. chamada' = [chamada EXCEPT ![c] = chamada'[c]]
  BY <1>3 DEF Passa
<1> QED BY <1>4, <1>5, CallAvanca

\* A call returns: the main thread that made it is back in its loop, and may
\* have called quit().
LEMMA CallVolta ==
  ASSUME IInv, NEW c \in Clientes,
         chamada[c].pc # "livre",
         chamada' = [chamada EXCEPT ![c] = Livre],
         c \in Servicos =>
           \/ fio' = [fio EXCEPT ![c].pc = "laco"]
           \/ fio' = [fio EXCEPT ![c].pc = "laco", ![c].quit = TRUE],
         c \notin Servicos => fio' = fio,
         UNCHANGED <<scm, inicio, controle, mutex, eventos, uiVars, pedidos>>
  PROVE  IInv'
<1>1. TypeOK'
  <2>1. chamada' \in [Clientes -> Chamada]
    BY DEF IInv, TypeOK, Livre, Chamada, Passos, Servicos
  <2>2. fio' \in [Servicos -> Fios]
    <3>1. CASE c \in Servicos
      <4>1. "laco" \in Pontos
        BY DEF Pontos
      <4>2. /\ [fio EXCEPT ![c].pc = "laco"] \in [Servicos -> Fios]
            /\ [fio EXCEPT ![c].pc = "laco", ![c].quit = TRUE] \in [Servicos -> Fios]
        BY <3>1, <4>1, FioTipo DEF IInv, TypeOK
      <4> QED BY <3>1, <4>2
    <3>2. CASE c \notin Servicos
      BY <3>2 DEF IInv, TypeOK
    <3> QED BY <3>1, <3>2
  <2> QED BY <2>1, <2>2 DEF IInv, TypeOK, uiVars
<1>2. ASSUME NEW t \in Servicos
      PROVE  /\ Fase(t)' /\ NaChamada(t)'
             /\ Parando(t) => Parando(t)'
             /\ ParadaFeita(t) => ParadaFeita(t)'
  <2>1. CASE t = c
    <3>1. /\ fio[t] \in Fios /\ fio[t].pc = "chama" /\ chamada'[t].pc = "livre"
      BY <2>1 DEF IInv, NaChamada, TypeOK, Livre
    <3>2. /\ fio'[t].pc = "laco" /\ fio'[t].ninho = fio[t].ninho
          /\ fio[t].quit => fio'[t].quit
      BY <2>1, <3>1 DEF IInv, TypeOK, Fios
    <3>3. NaChamada(t)'
      BY <3>1, <3>2 DEF NaChamada
    <3>4. /\ Iniciando(t) \/ Rodando(t) \/ ParadaPedida(t) \/ Parando(t)
          /\ ~ParadaFeita(t)
      BY <2>1, <3>1 DEF IInv, Fase, Parado, Chamado, Registra, Partida, Iniciando,
         Rodando, ParadaPedida, Parando, ParadaFeita, NaVida, Fora
    <3>5. /\ Iniciando(t) => Iniciando(t)' 
          /\ Rodando(t) => Rodando(t)'
          /\ ParadaPedida(t) => ParadaPedida(t)'
          /\ Parando(t) => Parando(t)'
      BY <3>1, <3>2 DEF Iniciando, Rodando, ParadaPedida, Parando, NaVida
    <3> QED BY <3>3, <3>4, <3>5 DEF Fase
  <2>2. CASE t # c
    <3>1. fio'[t] = fio[t] /\ chamada'[t] = chamada[t]
      BY <2>2 DEF IInv, TypeOK, Clientes
    <3> QED BY <3>1, FaseIgual DEF IInv
  <2> QED BY <2>1, <2>2
<1>3. SoParando'
  BY <1>2 DEF SoParando, ComUi, uiVars, Servicos, IInv
<1> QED BY <1>1, <1>2, <1>3 DEF IInv

LEMMA RetornaMantem ==
  ASSUME IInv, NEW c \in Clientes, chamada[c].pc # "livre", Retorna(c),
         UNCHANGED <<scm, inicio, controle, mutex, eventos, uiVars, pedidos>>
  PROVE  IInv'
  BY CallVolta DEF Retorna, Vai

LEMMA DepoisMantem ==
  ASSUME IInv, NEW c \in Clientes, chamada[c].pc # "livre", DepoisDaParada(c),
         UNCHANGED <<scm, inicio, controle, mutex, eventos, uiVars, pedidos>>
  PROVE  IInv'
<1>1. chamada[c] \in Chamada
  BY DEF IInv, TypeOK
<1>2. CASE chamada[c].depois = "start"
  <2> DEFINE x == [chamada[c] EXCEPT !.pc = "perguntaInicio", !.depois = "volta"]
  <2>1. x \in Chamada /\ x.pc = "perguntaInicio"
    BY <1>1 DEF Chamada, Passos
  <2>2. /\ chamada' = [chamada EXCEPT ![c].pc = "perguntaInicio", ![c].depois = "volta"]
        /\ fio' = fio
    BY <1>2 DEF DepoisDaParada
  <2>3. chamada' = [chamada EXCEPT ![c] = x]
    BY <2>2
  <2>4. chamada'[c] = x
    BY <2>3 DEF IInv, TypeOK
  <2>5. "perguntaInicio" \in Passos
    BY DEF Passos
  <2> HIDE DEF x
  <2> QED BY <2>1, <2>2, <2>3, <2>4, <2>5, CallAvanca
<1>3. CASE chamada[c].depois = "quit"
  <2>1. /\ chamada' = [chamada EXCEPT ![c] = Livre]
        /\ fio' = [fio EXCEPT ![c].pc = "laco", ![c].quit = TRUE]
    BY <1>3 DEF DepoisDaParada
  <2>2. c \notin Servicos => fio' = fio
    BY <2>1 DEF IInv, TypeOK
  <2> QED BY <2>1, <2>2, CallVolta
<1>4. CASE chamada[c].depois \notin {"start", "quit"}
  <2>1. /\ chamada' = [chamada EXCEPT ![c] = Livre]
        /\ IF c \in Servicos THEN Vai(c, "laco") ELSE UNCHANGED fio
    BY <1>4 DEF DepoisDaParada
  <2> QED BY <2>1, CallVolta DEF Vai
<1> QED BY <1>2, <1>3, <1>4

\* A stopped service is started.
LEMMA IniciaMantem ==
  ASSUME IInv, NEW s \in Servicos, scm[s] = "STOPPED", Inicia(s),
         UNCHANGED <<controle, mutex, eventos, uiVars, pedidos>>,
         chamada' \in [Clientes -> Chamada],
         \A t \in Servicos : chamada'[t].pc = "livre" <=> chamada[t].pc = "livre"
  PROVE  IInv'
<1>1. /\ scm' = [scm EXCEPT ![s] = "START_PENDING"]
      /\ fio' = [fio EXCEPT ![s].pc = "semaforo"]
      /\ inicio' = [inicio EXCEPT ![s] = "chamado"]
  BY DEF Inicia
<1>2. Parado(s)
  BY DEF IInv, Fase, Chamado, Registra, Partida, Iniciando, Rodando,
     ParadaPedida, Parando, ParadaFeita
<1>3. fio' \in [Servicos -> Fios]
  BY <1>1, FioTipo DEF IInv, TypeOK, Pontos
<1>4. TypeOK'
  BY <1>1, <1>2, <1>3 DEF IInv, TypeOK, uiVars, Parado
<1>5. Chamado(s)' /\ NaChamada(s)'
  <2>1. fio[s] \in Fios /\ fio[s] = Fora
    BY <1>2 DEF IInv, TypeOK, Parado
  <2>2. fio'[s].pc = "semaforo" /\ ~fio'[s].ninho /\ ~fio'[s].quit
    BY <1>1, <2>1 DEF IInv, TypeOK, Fora, Fios
  <2>3. chamada'[s].pc = "livre"
    BY <2>1 DEF IInv, NaChamada, Fora
  <2> QED BY <1>1, <1>2, <2>2, <2>3 DEF IInv, TypeOK, Chamado, Parado, NaChamada
<1>6. ASSUME NEW t \in Servicos, t # s
      PROVE  /\ Fase(t)' /\ NaChamada(t)'
             /\ Parando(t) => Parando(t)'
             /\ ParadaFeita(t) => ParadaFeita(t)'
  <2>1. Fase(t) /\ NaChamada(t)
    BY DEF IInv
  <2>2. /\ scm'[t] = scm[t] /\ fio'[t] = fio[t] /\ inicio'[t] = inicio[t]
        /\ controle'[t] = controle[t] /\ eventos'[t] = eventos[t]
    BY <1>1, <1>6 DEF IInv, TypeOK
  <2>3. chamada'[t].pc = "livre" <=> chamada[t].pc = "livre"
    OBVIOUS
  <2> QED BY <2>1, <2>2, <2>3, FaseIgual
<1>7. SoParando'
  <2>1. ~Parando(s) /\ ~ParadaFeita(s)
    BY <1>2 DEF Parado, Parando, ParadaFeita
  <2> QED BY <1>6, <2>1 DEF IInv, SoParando, ComUi, uiVars, Servicos
<1>8. Fase(s)' /\ NaChamada(s)'
  BY <1>5 DEF Fase
<1>9. \A t \in Servicos : Fase(t)' /\ NaChamada(t)'
  BY <1>6, <1>8
<1> QED BY <1>4, <1>7, <1>9 DEF IInv

LEMMA PassoControlador ==
  ASSUME IInv, NEW c \in Clientes, ServiceController(c)
  PROVE  IInv'
<1> USE DEF Chamando
<1>1. \A pc \in {"pede", "esperaParada", "controle", "consulta", "lanca", "esperaInicio",
               "perguntaInicio"} : pc \in Passos /\ pc # "livre"
  BY DEF Passos
<1>2. CASE Pergunta(c)
  BY <1>1, <1>2, PassaMantem, DepoisMantem DEF Pergunta
<1>3. CASE PedeParada(c)
  <2> DEFINE s == chamada[c].alvo
  <2>1. CASE /\ scm[s] = "RUNNING" /\ controle[s] = "livre"
             /\ controle' = [controle EXCEPT ![s] = "chamado"]
             /\ Passa(c, "controle") /\ UNCHANGED fio
    <3>1. /\ chamada[c] \in Chamada /\ chamada[c].pc # "livre" /\ s \in Servicos
          /\ UNCHANGED <<scm, inicio, mutex, eventos, uiVars, pedidos>>
      BY <1>3 DEF IInv, TypeOK, PedeParada, Chamada
    <3>2. /\ chamada' = [chamada EXCEPT ![c].pc = "controle"]
          /\ [chamada[c] EXCEPT !.pc = "controle"] \in Chamada
      BY <1>1, <2>1, <3>1 DEF Passa, Chamada
    <3>3. TypeOK'
      BY <2>1, <3>1, <3>2 DEF IInv, TypeOK, uiVars
    <3>4. ASSUME NEW t \in Servicos PROVE NaChamada(t)'
      BY <2>1, <3>1, <3>2 DEF IInv, TypeOK, NaChamada, Chamada, Clientes
    <3>5. ASSUME NEW t \in Servicos
          PROVE  /\ Fase(t)'
                 /\ Parando(t) \/ ParadaFeita(t) => Parando(t)' \/ ParadaFeita(t)'
      <4>1. CASE t = s
        <5>1. Rodando(t)
          BY <2>1, <4>1 DEF IInv, Fase, Parado, Chamado, Registra, Partida, Iniciando,
             ParadaPedida, Parando, ParadaFeita
        <5>2. Rodando(t)'
          BY <2>1, <3>1, <4>1, <5>1 DEF IInv, TypeOK, Rodando, NaVida
        <5> QED BY <5>1, <5>2 DEF Fase, Rodando, Parando, ParadaFeita
      <4>2. CASE t # s
        <5>1. controle'[t] = controle[t] /\ (chamada'[t].pc = "livre" <=> chamada[t].pc = "livre")
          BY <2>1, <3>1, <3>2, <4>2 DEF IInv, TypeOK, Chamada, Clientes
        <5> QED BY <2>1, <3>1, <5>1, FaseIgual DEF IInv
      <4> QED BY <4>1, <4>2
    <3>6. SoParando'
      BY <3>1, <3>5 DEF IInv, SoParando, ComUi, uiVars, Servicos
    <3> QED BY <3>3, <3>4, <3>5, <3>6 DEF IInv
  <2>2. CASE Passa(c, "esperaParada") /\ UNCHANGED <<fio, controle>>
    BY <1>1, <1>3, <2>2, PassaMantem DEF PedeParada
  <2>3. CASE DepoisDaParada(c) /\ UNCHANGED controle
    BY <1>3, <2>3, DepoisMantem DEF PedeParada
  <2> QED BY <1>3, <2>1, <2>2, <2>3 DEF PedeParada
<1>4. CASE Respondido(c)
  BY <1>1, <1>4, PassaMantem, DepoisMantem DEF Respondido
<1>5. CASE ControleExpira(c)
  BY <1>1, <1>5, PassaMantem, DepoisMantem DEF ControleExpira
<1>6. CASE FimDaEspera(c)
  BY <1>1, <1>6, RetornaMantem, DepoisMantem DEF FimDaEspera
<1>7. CASE PerguntaInicio(c)
  BY <1>1, <1>7, PassaMantem, RetornaMantem DEF PerguntaInicio
<1>8. CASE Consulta(c)
  BY <1>1, <1>8, PassaMantem, RetornaMantem DEF Consulta
<1>9. CASE Lanca(c)
  <2>0. PICK s \in Servicos : s = chamada[c].alvo
    BY DEF IInv, TypeOK, Chamada
  <2>1. CASE scm[s] = "STOPPED"
    <3>1. /\ chamada[c] \in Chamada /\ chamada[c].pc = "lanca"
          /\ UNCHANGED <<controle, mutex, eventos, uiVars, pedidos>>
          /\ Inicia(s)
          /\ chamada' = [chamada EXCEPT ![c].pc = "esperaInicio"]
      BY <1>9, <2>0, <2>1 DEF IInv, TypeOK, Lanca, Passa
    <3>2. [chamada[c] EXCEPT !.pc = "esperaInicio"] \in Chamada
      BY <1>1, <3>1 DEF Chamada
    <3>3. chamada' \in [Clientes -> Chamada]
      BY <3>1, <3>2 DEF IInv, TypeOK
    <3>4. \A t \in Servicos : chamada'[t].pc = "livre" <=> chamada[t].pc = "livre"
      BY <3>1 DEF IInv, TypeOK, Chamada, Clientes
    <3> QED BY <2>1, <3>1, <3>3, <3>4, IniciaMantem
  <2>2. CASE scm[s] # "STOPPED"
    BY <1>9, <2>0, <2>2, RetornaMantem DEF Lanca
  <2> QED BY <2>1, <2>2
<1> QED BY <1>2, <1>3, <1>4, <1>5, <1>6, <1>7, <1>8, <1>9 DEF ServiceController

-----------------------------------------------------------------------------
(* Steps of the main threads.                                               *)

\* A main thread makes a call from its loop.
LEMMA CallComeca ==
  ASSUME IInv, NEW c \in Servicos, NoLaco(c), Iniciado(c),
         NEW r \in Chamada, r.pc # "livre", chamada' = [chamada EXCEPT ![c] = r],
         Vai(c, "chama"), (pedidos \in 0..MaxPedidos)',
         UNCHANGED <<scm, inicio, controle, mutex, eventos, uiVars>>
  PROVE  IInv'
<1>1. TypeOK'
  <2>1. fio' \in [Servicos -> Fios]
    BY FioTipo DEF IInv, TypeOK, Vai, Pontos
  <2> QED BY <2>1 DEF IInv, TypeOK, uiVars, Clientes
<1>2. ASSUME NEW t \in Servicos
      PROVE  /\ Fase(t)' /\ NaChamada(t)'
             /\ Parando(t) => Parando(t)'
             /\ ParadaFeita(t) => ParadaFeita(t)'
  <2>0. Fase(t) /\ NaChamada(t)
    BY DEF IInv
  <2>1. CASE t = c
    <3>1. /\ Iniciando(t) \/ Rodando(t) \/ ParadaPedida(t) \/ Parando(t)
          /\ ~ParadaFeita(t)
      BY <2>0, <2>1 DEF Iniciado, NoLaco, Em, Fase, Parado, Chamado, Registra, Partida,
         Iniciando, Rodando, ParadaPedida, Parando, ParadaFeita, NaVida, Fora
    <3>2. fio'[t].pc = "chama" /\ fio'[t].ninho = fio[t].ninho /\ ~fio'[t].quit
      BY <2>1 DEF IInv, TypeOK, Fios, Vai, NoLaco
    <3>3. NaChamada(t)'
      BY <2>1, <3>2 DEF NaChamada, IInv, TypeOK, Clientes
    <3>4. NoLaco(t)
      BY <2>1
    <3>5. /\ Iniciando(t) => Iniciando(t)'
          /\ Rodando(t) => Rodando(t)'
          /\ ParadaPedida(t) => ParadaPedida(t)'
          /\ Parando(t) => Parando(t)'
      BY <3>2, <3>4 DEF NoLaco, Em, Iniciando, Rodando, ParadaPedida, Parando, NaVida
    <3> QED BY <3>1, <3>3, <3>5 DEF Fase
  <2>2. CASE t # c
    <3>1. fio'[t] = fio[t] /\ chamada'[t] = chamada[t]
      BY <2>2 DEF IInv, TypeOK, Clientes, Vai
    <3> QED BY <2>0, <3>1, FaseIgual
  <2> QED BY <2>1, <2>2
<1>3. SoParando'
  BY <1>2 DEF SoParando, ComUi, uiVars, Servicos, IInv
<1> QED BY <1>1, <1>2, <1>3 DEF IInv

\* A step of one main thread that makes no call.
LEMMA UmServico ==
  ASSUME IInv, NEW s \in Servicos,
         TypeOK', Fase(s)', NaChamada(s)', SoParando', chamada' = chamada,
         \A t \in Servicos : t # s =>
             /\ scm'[t] = scm[t] /\ fio'[t] = fio[t] /\ inicio'[t] = inicio[t]
             /\ controle'[t] = controle[t] /\ eventos'[t] = eventos[t]
  PROVE  IInv'
<1>1. ASSUME NEW t \in Servicos
      PROVE  Fase(t)' /\ NaChamada(t)'
  <2>1. CASE t = s
    BY <2>1
  <2>2. CASE t # s
    BY <2>2, FaseIgual DEF IInv
  <2> QED BY <2>1, <2>2
<1> QED BY <1>1 DEF IInv

LEMMA TrataInicioMantem ==
  ASSUME IInv, NEW s \in Servicos, TrataInicio(s)
  PROVE  IInv'
<1>0. TypeOK /\ Fase(s) /\ NaChamada(s)
  BY DEF IInv
<1>1. Partida(s) /\ fio[s].pc = "laco" /\ eventos[s] = <<"STARTUP">>
  BY <1>0, UmEvento DEF TrataInicio, NoLaco, Em, Fase, Parado, Chamado, Registra, Partida,
     Iniciando, Rodando, ParadaPedida, Parando, ParadaFeita, NaVida
<1>2. fio' \in [Servicos -> Fios]
  BY <1>0, FioTipo DEF TrataInicio, Vai, TypeOK, Pontos
<1>3. TypeOK'
  <2>1. eventos' = [eventos EXCEPT ![s] = <<>>]
    BY <1>0, <1>1, UmEvento DEF TrataInicio
  <2>2. eventos' \in [Servicos -> Filas]
    BY <1>0, <2>1, FilaVazia DEF TypeOK
  <2> QED BY <1>0, <1>2, <2>2 DEF TrataInicio, TypeOK, uiVars
<1>4. fio'[s].pc = "acorda" /\ fio'[s].ninho = fio[s].ninho /\ fio'[s].quit = fio[s].quit
  BY <1>0 DEF TrataInicio, Vai, TypeOK, Fios
<1>5. Partida(s)'
  BY <1>0, <1>1, <1>4, UmEvento DEF TrataInicio, TypeOK, Partida
<1>6. NaChamada(s)'
  BY <1>0, <1>1, <1>4 DEF TrataInicio, NaChamada
<1>7. SoParando'
  <2>1. ~Parando(s) /\ ~ParadaFeita(s)
    BY <1>1 DEF Partida, Parando, ParadaFeita
  <2> QED BY <1>0, <2>1, FaseIgual DEF IInv, SoParando, ComUi, uiVars, Servicos, TrataInicio, Vai, TypeOK
<1>8. /\ chamada' = chamada
      /\ \A t \in Servicos : t # s =>
           /\ scm'[t] = scm[t] /\ fio'[t] = fio[t] /\ inicio'[t] = inicio[t]
           /\ controle'[t] = controle[t] /\ eventos'[t] = eventos[t]
  BY <1>0 DEF TrataInicio, Vai, TypeOK
<1> QED BY <1>3, <1>5, <1>6, <1>7, <1>8, UmServico DEF Fase

LEMMA AcordaMantem ==
  ASSUME IInv, NEW s \in Servicos, Acorda(s)
  PROVE  IInv'
<1>0. TypeOK /\ Fase(s) /\ NaChamada(s) /\ fio[s].pc = "acorda"
  BY DEF IInv, Acorda, Em
<1>1. Partida(s) \/ Parando(s)
  BY <1>0 DEF Fase, Parado, Chamado, Registra, Partida, Iniciando, Rodando,
     ParadaPedida, Parando, ParadaFeita, NaVida, Fora
<1>2. inicio[s] # "postou" /\ controle[s] # "postou"
  BY <1>0 DEF Acorda, TypeOK
<1>3. /\ fio' \in [Servicos -> Fios]
      /\ fio'[s].pc = "laco" /\ fio'[s].ninho = fio[s].ninho /\ fio'[s].quit = fio[s].quit
  <2>1. fio' \in [Servicos -> Fios]
    BY <1>0, FioTipo DEF Acorda, Vai, TypeOK, Pontos
  <2> QED BY <1>0, <2>1 DEF Acorda, Vai, TypeOK, Fios
<1>4. inicio'[s] = Acordado(inicio[s]) /\ controle'[s] = Acordado(controle[s])
  BY <1>0 DEF Acorda, AcordaTodas, TypeOK
<1>5. TypeOK'
  <2>1. /\ inicio' = [inicio EXCEPT ![s] = Acordado(inicio[s])]
        /\ controle' = [controle EXCEPT ![s] = Acordado(controle[s])]
        /\ Acordado(inicio[s]) \in {"fora", "chamado", "registra", "postou", "espera",
                                    "acordado", "fim"}
        /\ Acordado(controle[s]) \in {"livre", "chamado", "postou", "espera", "acordado"}
        /\ Acordado(inicio[s]) = "postou" <=> inicio[s] = "postou"
        /\ Acordado(controle[s]) = "postou" <=> controle[s] = "postou"
    BY <1>0 DEF Acorda, AcordaTodas, Acordado, TypeOK
  <2> QED BY <1>0, <1>3, <2>1 DEF Acorda, TypeOK, uiVars
<1>6. /\ Partida(s) => Iniciando(s)'
      /\ Parando(s) => ParadaFeita(s)'
  BY <1>0, <1>2, <1>3, <1>4 DEF Acorda, Acordado, Partida, Iniciando, Parando, ParadaFeita,
     NaVida
<1>7. NaChamada(s)'
  BY <1>0, <1>3 DEF Acorda, NaChamada
<1>8. /\ chamada' = chamada /\ uiVars' = uiVars
      /\ \A t \in Servicos : t # s =>
           /\ scm'[t] = scm[t] /\ fio'[t] = fio[t] /\ inicio'[t] = inicio[t]
           /\ controle'[t] = controle[t] /\ eventos'[t] = eventos[t]
  BY <1>0 DEF Acorda, AcordaTodas, Vai, TypeOK
<1>9. Parando(s) \/ ParadaFeita(s) => Parando(s)' \/ ParadaFeita(s)'
  BY <1>1, <1>6 DEF Partida, ParadaFeita
<1> QED BY <1>1, <1>5, <1>6, <1>7, <1>8, <1>9, SistemaMantem DEF Fase, IInv

LEMMA TerminaMantem ==
  ASSUME IInv, NEW s \in Servicos, Termina(s)
  PROVE  IInv'
<1>0. TypeOK /\ Fase(s) /\ NaChamada(s)
  BY DEF IInv
<1>1. Fora \in Fios /\ SemConexao \in Conexao /\ SemCliente \in Cliente
  BY ParadaAssumption DEF Fora, Fios, Pontos, SemConexao, Conexao, SemCliente, Cliente
<1>2. s = Servico =>
        /\ conexao' \in Conexao /\ cliente' \in Cliente
        /\ ~ComUi'
  <2> SUFFICES ASSUME s = Servico
               PROVE  conexao' \in Conexao /\ cliente' \in Cliente /\ ~ComUi'
    OBVIOUS
  <2>1. conexao.ida \in BOOLEAN
    BY <1>0 DEF TypeOK, Conexao
  <2>2. PICK chega \in {conexao.ida, FALSE} :
            /\ conexao' = [SemConexao EXCEPT !.ida = chega]
            /\ cliente' = [SemCliente EXCEPT !.perdeu = conexao.ida /\ ~chega]
    BY DEF Termina
  <2>3. chega \in BOOLEAN /\ (conexao.ida /\ ~chega) \in BOOLEAN
    BY <2>1
  <2>4. conexao' \in Conexao /\ conexao'.estado = "nenhuma" /\ ~conexao'.buffer /\ ~conexao'.volta
    BY <2>2, <2>3 DEF SemConexao, Conexao
  <2>5. \A b \in BOOLEAN :
          LET x == [SemCliente EXCEPT !.perdeu = b]
          IN  x \in Cliente /\ ~x.connectTimer /\ ~x.reconnectTimer
    BY <1>1 DEF SemCliente, Cliente
  <2>6. cliente' \in Cliente /\ ~cliente'.connectTimer /\ ~cliente'.reconnectTimer
    BY <2>2, <2>3, <2>5
  <2> QED BY <2>4, <2>6 DEF ComUi
<1>3. s # Servico => UNCHANGED <<cliente, conexao>>
  BY DEF Termina
<1>4. conexao' \in Conexao /\ cliente' \in Cliente
  BY <1>0, <1>2, <1>3 DEF TypeOK
<1>5. TypeOK'
  BY <1>0, <1>1, <1>4, UmEvento DEF Termina, TypeOK
<1>6. Parado(s)'
  BY <1>0 DEF Termina, TypeOK, Parado
<1>7. NaChamada(s)'
  BY <1>0, <1>6 DEF Termina, Em, NaChamada, Parado, Fora
<1>8. /\ chamada' = chamada
      /\ \A t \in Servicos : t # s =>
           /\ scm'[t] = scm[t] /\ fio'[t] = fio[t] /\ inicio'[t] = inicio[t]
           /\ controle'[t] = controle[t] /\ eventos'[t] = eventos[t]
  BY <1>0 DEF Termina, TypeOK
<1>9. SoParando'
  <2>1. CASE s = Servico
    BY <1>2, <2>1 DEF SoParando
  <2>2. CASE s # Servico
    BY <1>3, <1>8, <2>2, FaseIgual DEF IInv, SoParando, ComUi, Servicos
  <2> QED BY <2>1, <2>2
<1> QED BY <1>5, <1>6, <1>7, <1>8, <1>9, UmServico DEF Fase

LEMMA ParaMantem ==
  ASSUME IInv, ParaVigia \/ ParaServico \/ NinhoTermina \/ LeAck
  PROVE  IInv'
<1>0. TypeOK /\ Servico \in Servicos /\ Vigia \in Servicos /\ Servico # Vigia
  BY DEF IInv, Servicos, Servico, Vigia
<1>1. ASSUME NEW s \in Servicos, TrataParada(s)
      PROVE  /\ ParadaPedida(s) /\ fio[s].pc = "laco" /\ ~fio[s].quit
             /\ eventos' = [eventos EXCEPT ![s] = <<>>] /\ eventos' \in [Servicos -> Filas]
             /\ eventos'[s] = <<>>
  <2>1. Fase(s)
    BY DEF IInv
  <2>2. ParadaPedida(s)
    BY <1>1, <2>1, UmEvento DEF TrataParada, NoLaco, Em, Fase, Parado, Chamado, Registra,
       Partida, Iniciando, Rodando, ParadaPedida, Parando, ParadaFeita, NaVida
  <2>3. eventos' = [eventos EXCEPT ![s] = <<>>]
    BY <1>1, <2>2, UmEvento DEF TrataParada, ParadaPedida
  <2>4. eventos' \in [Servicos -> Filas] /\ eventos'[s] = <<>>
    BY <1>0, <2>3, FilaVazia DEF TypeOK
  <2> QED BY <1>1, <2>2, <2>3, <2>4 DEF TrataParada, NoLaco, Em
<1>2. CASE ParaVigia
  <2>1. TrataParada(Vigia)
    BY <1>2 DEF ParaVigia
  <2>2. /\ fio' \in [Servicos -> Fios]
        /\ fio'[Vigia].pc = "acorda" /\ fio'[Vigia].quit
        /\ fio'[Vigia].ninho = fio[Vigia].ninho
    <3>1. fio' \in [Servicos -> Fios]
      BY <1>0, <1>2, FioTipo DEF ParaVigia, TypeOK, Pontos
    <3> QED BY <1>0, <1>2, <3>1 DEF ParaVigia, TypeOK, Fios
  <2>3. TypeOK'
    BY <1>0, <1>1, <1>2, <2>1, <2>2 DEF ParaVigia, TypeOK, uiVars
  <2>4. Parando(Vigia)'
    BY <1>0, <1>1, <1>2, <2>1, <2>2 DEF ParaVigia, ParadaPedida, Parando
  <2>5. NaChamada(Vigia)'
    BY <1>0, <1>1, <1>2, <2>1, <2>2 DEF ParaVigia, NaChamada, IInv
  <2>6. /\ chamada' = chamada /\ uiVars' = uiVars
        /\ \A t \in Servicos : t # Vigia =>
             /\ scm'[t] = scm[t] /\ fio'[t] = fio[t] /\ inicio'[t] = inicio[t]
             /\ controle'[t] = controle[t] /\ eventos'[t] = eventos[t]
    BY <1>0, <1>1, <1>2, <2>1 DEF ParaVigia, TypeOK
  <2> QED BY <1>0, <2>3, <2>4, <2>5, <2>6, SistemaMantem DEF Fase, IInv
<1>3. CASE ParaServico
  <2>1. TrataParada(Servico)
    BY <1>3 DEF ParaServico
  <2>2. /\ fio' \in [Servicos -> Fios]
        /\ \/ /\ fio'[Servico].pc = "laco" /\ fio'[Servico].ninho
              /\ fio'[Servico].quit = fio[Servico].quit
           \/ /\ fio'[Servico].pc = "acorda" /\ fio'[Servico].quit
              /\ fio'[Servico].ninho = fio[Servico].ninho
        /\ \A t \in Servicos : t # Servico => fio'[t] = fio[t]
    <3>1. CASE fio' = [fio EXCEPT ![Servico].ninho = TRUE]
      <4>1. "acorda" \in Pontos /\ fio \in [Servicos -> Fios]
        BY <1>0 DEF TypeOK, Pontos
      <4>2. fio' \in [Servicos -> Fios]
        BY <1>0, <3>1, <4>1, FioTipo
      <4> QED BY <1>0, <1>1, <2>1, <3>1, <4>1, <4>2 DEF Fios
    <3>2. CASE fio' = [fio EXCEPT ![Servico].pc = "acorda", ![Servico].quit = TRUE]
      <4>1. "acorda" \in Pontos /\ fio \in [Servicos -> Fios]
        BY <1>0 DEF TypeOK, Pontos
      <4>2. fio' \in [Servicos -> Fios]
        BY <1>0, <3>2, <4>1, FioTipo
      <4> QED BY <1>0, <1>1, <2>1, <3>2, <4>1, <4>2 DEF Fios
    <3> QED BY <1>3, <3>1, <3>2 DEF ParaServico
  <2>3. cliente' \in Cliente /\ conexao' \in Conexao
    <3>1. /\ [SemCliente EXCEPT !.connected = TRUE, !.canSend = TRUE] \in Cliente
          /\ [SemCliente EXCEPT !.connectTimer = TRUE, !.tentativas = 1] \in Cliente
          /\ [Ligada EXCEPT !.ida = TRUE] \in Conexao
      <4>1. SemCliente \in Cliente /\ 1 \in 0..(MaxTentativas + 1) /\ SemConexao \in Conexao
        BY ParadaAssumption DEF SemCliente, Cliente, SemConexao, Conexao
      <4>2. Ligada \in Conexao
        BY <4>1 DEF Ligada, Conexao
      <4> QED BY <4>1, <4>2 DEF Cliente, Conexao
    <3> QED BY <1>0, <1>3, <3>1 DEF ParaServico, TypeOK
  <2>4. TypeOK'
    BY <1>0, <1>1, <1>3, <2>1, <2>2, <2>3 DEF ParaServico, TypeOK
  <2>5. Parando(Servico)'
    BY <1>0, <1>1, <1>3, <2>1, <2>2 DEF ParaServico, ParadaPedida, Parando, NaVida
  <2>6. NaChamada(Servico)'
    BY <1>0, <1>1, <1>3, <2>1, <2>2 DEF ParaServico, NaChamada, IInv
  <2>7. /\ chamada' = chamada
        /\ \A t \in Servicos : t # Servico =>
             /\ scm'[t] = scm[t] /\ fio'[t] = fio[t] /\ inicio'[t] = inicio[t]
             /\ controle'[t] = controle[t] /\ eventos'[t] = eventos[t]
    BY <1>0, <1>1, <1>3, <2>1, <2>2 DEF ParaServico, TypeOK
  <2> QED BY <1>0, <2>4, <2>5, <2>6, <2>7, UmServico DEF Fase, SoParando
<1>4. CASE NinhoTermina
  <2>1. /\ Fase(Servico) /\ NaChamada(Servico) /\ fio[Servico].pc = "laco"
        /\ fio[Servico].quit /\ fio[Servico].ninho
    BY <1>0, <1>4 DEF IInv, NinhoTermina, Em
  <2>2. Parando(Servico)
    BY <2>1 DEF Fase, Parado, Chamado, Registra, Partida, Iniciando, Rodando,
       ParadaPedida, Parando, ParadaFeita, Fora
  <2>3. /\ fio' \in [Servicos -> Fios]
        /\ fio'[Servico].pc = "acorda" /\ fio'[Servico].quit /\ ~fio'[Servico].ninho
    <3>1. fio' \in [Servicos -> Fios]
      BY <1>0, <1>4, FioTipo DEF NinhoTermina, TypeOK, Pontos
    <3> QED BY <1>0, <1>4, <2>1, <3>1 DEF NinhoTermina, TypeOK, Fios
  <2>4. TypeOK'
    BY <1>0, <1>4, <2>3 DEF NinhoTermina, TypeOK, uiVars
  <2>5. Parando(Servico)' /\ NaChamada(Servico)'
    BY <1>4, <2>1, <2>2, <2>3 DEF NinhoTermina, Parando, NaChamada
  <2>6. /\ chamada' = chamada /\ uiVars' = uiVars
        /\ \A t \in Servicos : t # Servico =>
             /\ scm'[t] = scm[t] /\ fio'[t] = fio[t] /\ inicio'[t] = inicio[t]
             /\ controle'[t] = controle[t] /\ eventos'[t] = eventos[t]
    BY <1>0, <1>4 DEF NinhoTermina, TypeOK
  <2> QED BY <1>0, <2>4, <2>5, <2>6, SistemaMantem DEF Fase, IInv
<1>5. CASE LeAck
  <2>1. /\ Fase(Servico) /\ NaChamada(Servico) /\ fio[Servico].pc = "laco"
        /\ ~fio[Servico].quit /\ conexao.volta
    BY <1>0, <1>5 DEF IInv, LeAck, NoLaco, Em
  <2>2. Parando(Servico)
    BY <2>1 DEF IInv, SoParando, ComUi, Parando, ParadaFeita
  <2>3. /\ fio' \in [Servicos -> Fios]
        /\ fio'[Servico].pc = "laco" /\ fio'[Servico].quit
        /\ fio'[Servico].ninho = fio[Servico].ninho
    <3>1. "laco" \in Pontos /\ fio \in [Servicos -> Fios] /\ fio' = [fio EXCEPT ![Servico].quit = TRUE]
      BY <1>0, <1>5 DEF LeAck, TypeOK, Pontos
    <3>2. fio' \in [Servicos -> Fios]
      BY <1>0, <3>1, FioTipo
    <3> QED BY <1>0, <2>1, <3>1, <3>2 DEF Fios
  <2>4. TypeOK'
    <3>1. conexao' \in Conexao /\ cliente' \in Cliente
      BY <1>0, <1>5 DEF LeAck, TypeOK, Conexao, Cliente
    <3> QED BY <1>0, <1>5, <2>3, <3>1 DEF LeAck, TypeOK
  <2>5. Parando(Servico)' /\ NaChamada(Servico)'
    BY <1>5, <2>1, <2>2, <2>3 DEF LeAck, Parando, NaChamada, NaVida
  <2>6. /\ chamada' = chamada
        /\ \A t \in Servicos : t # Servico =>
             /\ scm'[t] = scm[t] /\ fio'[t] = fio[t] /\ inicio'[t] = inicio[t]
             /\ controle'[t] = controle[t] /\ eventos'[t] = eventos[t]
    BY <1>0, <1>5 DEF LeAck, TypeOK
  <2> QED BY <1>0, <2>4, <2>5, <2>6, UmServico DEF Fase, SoParando
<1> QED BY <1>2, <1>3, <1>4, <1>5

\* A step that leaves the services alone and brings no connection that was not
\* being made.
LEMMA UiMantem ==
  ASSUME IInv, UNCHANGED servVars, UNCHANGED pedidos,
         cliente' \in Cliente, conexao' \in Conexao, ui' \in BOOLEAN, finalizar' \in BOOLEAN,
         ComUi' => ComUi
  PROVE  IInv'
<1>1. TypeOK'
  BY DEF IInv, TypeOK, servVars
<1>2. \A t \in Servicos : /\ Fase(t)' /\ NaChamada(t)'
                          /\ Parando(t) => Parando(t)'
                          /\ ParadaFeita(t) => ParadaFeita(t)'
  BY FaseIgual DEF IInv, servVars
<1>3. SoParando'
  BY <1>2 DEF IInv, SoParando, Servicos
<1> QED BY <1>1, <1>2, <1>3 DEF IInv

LEMMA PassoInterface ==
  ASSUME IInv, Interface \/ Desconecta \/ Reconecta
  PROVE  IInv'
<1>1. /\ cliente \in Cliente /\ conexao \in Conexao
      /\ ui \in BOOLEAN /\ finalizar \in BOOLEAN
  BY DEF IInv, TypeOK
<1>2. CASE AbreUi
  BY <1>1, <1>2, UiMantem DEF AbreUi, ComUi
<1>3. CASE LeStopUi
  <2>1. CASE conexao.estado = "ligada"
    <3>1. conexao' = [conexao EXCEPT !.ida = FALSE, !.buffer = TRUE]
      BY <1>3, <2>1 DEF LeStopUi
    <3>2. conexao' \in Conexao /\ ComUi
      BY <1>1, <2>1, <3>1 DEF Conexao, ComUi
    <3> QED BY <1>1, <1>3, <3>2, UiMantem DEF LeStopUi
  <2>2. CASE conexao.estado # "ligada"
    <3>1. conexao' = [conexao EXCEPT !.ida = FALSE, !.buffer = FALSE]
      BY <1>3, <2>2 DEF LeStopUi
    <3>2. conexao' \in Conexao /\ (ComUi' => ComUi)
      BY <1>1, <1>3, <3>1 DEF LeStopUi, Conexao, ComUi
    <3> QED BY <1>1, <1>3, <3>2, UiMantem DEF LeStopUi
  <2> QED BY <2>1, <2>2
<1>4. CASE EnviaAck
  <2>1. conexao' \in Conexao
    BY <1>1, <1>4 DEF EnviaAck, Conexao
  <2> QED BY <1>1, <1>4, <2>1, UiMantem DEF EnviaAck, ComUi
<1>5. CASE UiTermina
  <2>1. conexao' \in Conexao
    BY <1>1, <1>5 DEF UiTermina, Conexao
  <2>2. /\ conexao'.estado # "nenhuma" => conexao.estado # "nenhuma"
        /\ conexao'.buffer => conexao.buffer
        /\ conexao'.volta = conexao.volta
    BY <1>1, <1>5 DEF UiTermina, Conexao
  <2>3. PICK b : cliente' = [cliente EXCEPT !.perdeu = b] /\ b \in BOOLEAN
    <3> DEFINE b == cliente.perdeu \/ (conexao.estado = "ligada" /\ (conexao.ida \/ conexao.buffer))
    <3>1. cliente' = [cliente EXCEPT !.perdeu = b]
      BY <1>5 DEF UiTermina
    <3>2. b \in BOOLEAN
      OBVIOUS
    <3> QED BY <3>1, <3>2
  <2>4. /\ cliente' \in Cliente
        /\ cliente'.connectTimer = cliente.connectTimer
        /\ cliente'.reconnectTimer = cliente.reconnectTimer
    BY <1>1, <2>3 DEF Cliente
  <2> QED BY <1>1, <1>5, <2>1, <2>2, <2>4, UiMantem DEF UiTermina, ComUi
<1>6. CASE Desconecta
  <2>1. /\ cliente' \in Cliente /\ SemConexao \in Conexao
        /\ conexao.estado # "nenhuma"
    BY <1>1, <1>6 DEF Desconecta, Cliente, SemConexao, Conexao
  <2> QED BY <1>1, <1>6, <2>1, UiMantem DEF Desconecta, ComUi
<1>7. CASE Reconecta
  <2>1. CASE Conecta
    <3>1. cliente' \in Cliente /\ conexao' \in Conexao
      BY <1>1, <2>1 DEF Conecta, Cliente, Ligada, SemConexao, Conexao
    <3> QED BY <1>1, <1>7, <3>1, UiMantem DEF Reconecta, ComUi
  <2>2. CASE NaoConecta
    <3>1. cliente' \in Cliente
      <4> DEFINE a == (cliente.connectTimer \/ cliente.tentativas = 0)
                        /\ cliente.tentativas < MaxTentativas
                 b == cliente.reconnectTimer /\ cliente.tentativas < MaxTentativas
                 n == IF cliente.tentativas > MaxTentativas THEN cliente.tentativas
                                                            ELSE cliente.tentativas + 1
      <4>1. a \in BOOLEAN /\ b \in BOOLEAN
        OBVIOUS
      <4>2. n \in 0..(MaxTentativas + 1)
        BY <1>1, ParadaAssumption DEF Cliente
      <4>3. cliente' = [cliente EXCEPT !.connectTimer = a, !.reconnectTimer = b, !.tentativas = n]
        BY <2>2 DEF NaoConecta
      <4> HIDE DEF a, b, n
      <4> QED BY <1>1, <4>1, <4>2, <4>3 DEF Cliente
    <3> QED BY <1>1, <1>7, <2>2, <3>1, UiMantem DEF Reconecta, NaoConecta, ComUi
  <2> QED BY <1>7, <2>1, <2>2 DEF Reconecta
<1> QED BY <1>2, <1>3, <1>4, <1>5, <1>6, <1>7 DEF Interface, on_finalizar, FechaSessao

-----------------------------------------------------------------------------
\* The call that Chama() stores.
Registro(c, pc, sc, depois) ==
  [pc |-> pc, sc |-> sc, depois |-> depois,
   alvo |-> IF c \in Servicos THEN Outro(c) ELSE Servico]

LEMMA PassoChamador ==
  ASSUME IInv, TimerVigia \/ Finaliza \/ AtualizaVigia \/ InstaladorPara
  PROVE  IInv'
<1>1. \A c \in Clientes, pc \in {"pergunta", "perguntaInicio"}, sc \in BOOLEAN,
         depois \in {"volta", "start", "quit"} :
        Registro(c, pc, sc, depois) \in Chamada /\ Registro(c, pc, sc, depois).pc # "livre"
  BY DEF Registro, Chamada, Passos, Servicos, Outro
<1>2. /\ Vigia \in Servicos /\ Servico \in Servicos /\ Servicos \subseteq Clientes
      /\ pedidos \in 0..MaxPedidos
  BY DEF Servicos, Clientes, IInv, TypeOK
<1>3. pedidos < MaxPedidos /\ pedidos' = pedidos + 1 => pedidos' \in 0..MaxPedidos
  BY <1>2, ParadaAssumption
<1>4. \A c \in Clientes, pc \in {"pergunta", "perguntaInicio"}, sc \in BOOLEAN,
         depois \in {"volta", "start", "quit"} :
        Chama(c, pc, sc, depois) =>
          chamada' = [chamada EXCEPT ![c] = Registro(c, pc, sc, depois)]
  BY DEF Chama, Registro
<1>5. ASSUME NEW c \in Servicos, NEW pc \in {"pergunta", "perguntaInicio"},
             NEW sc \in BOOLEAN, NEW depois \in {"volta", "start", "quit"},
             Chama(c, pc, sc, depois), NoLaco(c), Iniciado(c), Vai(c, "chama"),
             pedidos' \in 0..MaxPedidos,
             UNCHANGED <<scm, inicio, controle, mutex, eventos, uiVars>>
      PROVE  IInv'
  <2> DEFINE r == Registro(c, pc, sc, depois)
  <2>1. r \in Chamada /\ r.pc # "livre" /\ chamada' = [chamada EXCEPT ![c] = r]
    BY <1>1, <1>2, <1>4, <1>5
  <2> HIDE DEF r
  <2> QED BY <1>5, <2>1, CallComeca
<1>6. CASE TimerVigia
  BY <1>2, <1>3, <1>5, <1>6 DEF TimerVigia
<1>7. CASE Finaliza
  BY <1>2, <1>3, <1>5, <1>7 DEF Finaliza, Pedido, NoServico
<1>8. CASE AtualizaVigia
  BY <1>2, <1>3, <1>5, <1>8 DEF AtualizaVigia, Pedido, NoServico
<1>9. CASE InstaladorPara
  <2> DEFINE r == Registro("instalador", "pergunta", FALSE, "volta")
  <2>1. r \in Chamada /\ chamada' = [chamada EXCEPT !["instalador"] = r]
    BY <1>1, <1>4, <1>9 DEF InstaladorPara, Clientes
  <2>2. "instalador" \notin Servicos
    BY DEF Servicos, Servico, Vigia
  <2> HIDE DEF r
  <2>3. TypeOK'
    BY <1>3, <1>9, <2>1 DEF InstaladorPara, Pedido, IInv, TypeOK, uiVars
  <2>4. \A t \in Servicos : chamada'[t] = chamada[t]
    BY <2>1, <2>2 DEF IInv, TypeOK, Clientes
  <2>5. \A t \in Servicos : /\ Fase(t)' /\ NaChamada(t)'
                            /\ Parando(t) => Parando(t)'
                            /\ ParadaFeita(t) => ParadaFeita(t)'
    BY <1>9, <2>4, FaseIgual DEF IInv, InstaladorPara
  <2>6. SoParando'
    BY <1>2, <1>9, <2>5 DEF IInv, SoParando, ComUi, InstaladorPara, uiVars
  <2> QED BY <2>3, <2>5, <2>6 DEF IInv
<1> QED BY <1>6, <1>7, <1>8, <1>9

-----------------------------------------------------------------------------
\* The phases, and with them the invariant, are kept by every step.
THEOREM ParadaIndutiva == Spec => []IInv
<1>1. IInv /\ [Next]_vars => IInv'
  <2> SUFFICES ASSUME IInv, [Next]_vars PROVE IInv'
    OBVIOUS
  <2>1. ASSUME NEW s \in Servicos, Fio(s) PROVE IInv'
    <3>1. CASE TrataInicio(s)
      BY <3>1, TrataInicioMantem
    <3>2. CASE Acorda(s)
      BY <3>2, AcordaMantem
    <3>3. CASE Termina(s)
      BY <3>3, TerminaMantem
    <3>4. CASE ParaVigia \/ ParaServico \/ NinhoTermina \/ LeAck
      BY <3>4, ParaMantem
    <3>5. CASE Desconecta \/ Reconecta
      BY <3>5, PassoInterface
    <3>6. CASE TimerVigia \/ Finaliza \/ AtualizaVigia
      BY <3>6, PassoChamador
    <3>9. CASE IniciaVigia
      BY <3>9, IniciaMantem DEF IInv, TypeOK, IniciaVigia, Servicos
    <3> USE <3>1, <3>2, <3>3, <3>4, <3>5, <3>6, <3>9
    <3>7. CASE s = Vigia /\ (ParaVigia \/ TimerVigia)
      BY <3>7
    <3>8. CASE s = Servico /\ (ParaServico \/ NinhoTermina \/ LeAck \/ Desconecta
                              \/ Reconecta \/ Finaliza \/ AtualizaVigia \/ IniciaVigia)
      BY <3>8
    <3> QED BY <2>1, <3>7, <3>8 DEF Fio
  <2>2. ASSUME NEW s \in Servicos, Sistema(s) PROVE IInv'
    BY <2>2, PassoSistema
  <2>3. ASSUME NEW c \in Clientes, ServiceController(c) PROVE IInv'
    BY <2>3, PassoControlador
  <2>4. CASE InstaladorPara
    BY <2>4, PassoChamador
  <2>5. CASE Interface
    BY <2>5, PassoInterface
  <2>6. CASE UNCHANGED vars
    <3>1. TypeOK'
      BY <2>6 DEF IInv, TypeOK, vars, servVars, uiVars
    <3>2. \A t \in Servicos : /\ Fase(t)' /\ NaChamada(t)'
                              /\ Parando(t) => Parando(t)'
                              /\ ParadaFeita(t) => ParadaFeita(t)'
      BY <2>6, FaseIgual DEF IInv, vars, servVars
    <3>3. SoParando'
      BY <2>6, <3>2 DEF IInv, SoParando, ComUi, vars, uiVars, Servicos
    <3> QED BY <3>1, <3>2, <3>3 DEF IInv
  <2>7. CASE \E s \in Servicos : Fio(s) \/ Sistema(s)
    BY <2>1, <2>2, <2>7
  <2>8. CASE \E c \in Clientes : ServiceController(c)
    BY <2>3, <2>8
  <2>9. CASE Next
    BY <2>4, <2>5, <2>7, <2>8, <2>9 DEF Next
  <2> QED BY <2>6, <2>9
<1> QED BY <1>1, ParadaInicial, PTL DEF Spec

\* What the threads, the calls and the connection hold.
THEOREM ParadaTipos == Spec => []TypeOK
<1>1. IInv => TypeOK
  BY DEF IInv
<1> QED BY <1>1, ParadaIndutiva, PTL

\* The control manager is told the truth about each service.
THEOREM ParadaStatus == Spec => []StatusVerdadeiro
<1>1. IInv => StatusVerdadeiro
  <2> SUFFICES ASSUME IInv, NEW s \in Servicos
               PROVE  /\ scm[s] = "STOPPED" <=> fio[s].pc = "fora"
                      /\ scm[s] = "RUNNING" => /\ inicio[s] = "fim"
                                               /\ controle[s] \in {"livre", "chamado"}
                                               /\ eventos[s] = <<>> /\ ~fio[s].ninho
                      /\ scm[s] = "STOP_PENDING" =>
                           \/ \E i \in DOMAIN eventos[s] : eventos[s][i] = "STOP"
                           \/ fio[s].ninho \/ fio[s].quit
    BY DEF StatusVerdadeiro
  <2>1. Fase(s)
    BY DEF IInv
  <2>2. ParadaPedida(s) => \E i \in DOMAIN eventos[s] : eventos[s][i] = "STOP"
    BY DEF ParadaPedida
  <2> QED BY <2>1, <2>2 DEF Fase, Parado, Chamado, Registra, Partida, Iniciando, Rodando,
          ParadaPedida, Parando, ParadaFeita, NaVida, Fora
<1> QED BY <1>1, ParadaIndutiva, PTL

\* No thread waits on the condition for a wakeAll() that has already been.
THEOREM ParadaDespertar == Spec => []DespertarGarantido
<1>1. IInv => DespertarGarantido
  <2> SUFFICES ASSUME IInv, NEW s \in Servicos
               PROVE  /\ inicio[s] = "espera" =>
                           \/ \E i \in DOMAIN eventos[s] : eventos[s][i] = "STARTUP"
                           \/ fio[s].pc = "acorda"
                      /\ controle[s] = "espera" =>
                           \/ \E i \in DOMAIN eventos[s] : eventos[s][i] = "STOP"
                           \/ fio[s].ninho \/ fio[s].pc = "acorda"
    BY DEF DespertarGarantido
  <2>1. Fase(s)
    BY DEF IInv
  <2>2. /\ eventos[s] = <<"STARTUP">> => \E i \in DOMAIN eventos[s] : eventos[s][i] = "STARTUP"
        /\ eventos[s] = <<"STOP">> => \E i \in DOMAIN eventos[s] : eventos[s][i] = "STOP"
    OBVIOUS
  <2> QED BY <2>1, <2>2 DEF Fase, Parado, Chamado, Registra, Partida, Iniciando, Rodando,
          ParadaPedida, Parando, ParadaFeita
<1> QED BY <1>1, ParadaIndutiva, PTL

-----------------------------------------------------------------------------
(* The life cycle the control manager sees.                                 *)

\* What each phase says of a step that is about to change the status.
LEMMA FaseDoPasso ==
  ASSUME IInv, NEW s \in Servicos
  PROVE  /\ scm \in [Servicos -> {"STOPPED", "START_PENDING", "RUNNING", "STOP_PENDING"}]
         /\ inicio[s] = "registra" => scm[s] = "START_PENDING"
         /\ inicio[s] = "acordado" => scm[s] = "START_PENDING"
         /\ controle[s] = "chamado" => scm[s] = "RUNNING"
         /\ fio[s].pc = "laco" => scm[s] # "STOPPED"
  BY DEF IInv, TypeOK, Fase, Parado, Chamado, Registra, Partida, Iniciando, Rodando,
     ParadaPedida, Parando, ParadaFeita, NaVida, Fora

\* The threads of a service report its status.
LEMMA CicloSistema ==
  ASSUME IInv, NEW s \in Servicos, Sistema(s)
  PROVE  CicloNoSistema!Next \/ UNCHANGED scm
<1>1. CASE PostaInicio(s)
  <2>1. scm' = [scm EXCEPT ![s] = "START_PENDING"] /\ scm[s] = "START_PENDING"
    BY <1>1, FaseDoPasso DEF PostaInicio, Posta
  <2>2. scm' = scm
    BY <2>1, FaseDoPasso
  <2> QED BY <2>2
<1>2. CASE PostaParada(s)
  <2>1. CicloNoSistema!Para(s)
    BY <1>2, FaseDoPasso DEF PostaParada, Posta, CicloNoSistema!Para, CicloNoSistema!Vai
  <2> QED BY <2>1 DEF CicloNoSistema!Next
<1>3. CASE AnunciaInicio(s)
  <2>1. CicloNoSistema!Anuncia(s)
    BY <1>3, FaseDoPasso DEF AnunciaInicio, CicloNoSistema!Anuncia, CicloNoSistema!Vai
  <2> QED BY <2>1 DEF CicloNoSistema!Next
<1>4. CASE SemaforosLiberados(s) \/ EsperaInicio(s) \/ EsperaParada(s) \/ Devolve(s)
  BY <1>4 DEF SemaforosLiberados, EsperaInicio, EsperaParada, Devolve
<1> QED BY <1>1, <1>2, <1>3, <1>4 DEF Sistema

\* Only a stopped service is started.
LEMMA CicloComeca ==
  ASSUME IInv, NEW s \in Servicos, scm[s] = "STOPPED", Inicia(s)
  PROVE  CicloNoSistema!Next
<1>1. CicloNoSistema!Comeca(s)
  BY DEF Inicia, CicloNoSistema!Comeca, CicloNoSistema!Vai
<1> QED BY <1>1 DEF CicloNoSistema!Next

\* The end of a process is the only step of a main thread that the control
\* manager sees, but for the start of chksys.
LEMMA CicloFio ==
  ASSUME IInv, NEW s \in Servicos, Fio(s)
  PROVE  CicloNoSistema!Next \/ UNCHANGED scm
<1>1. CASE Termina(s)
  <2>1. scm[s] \in {"START_PENDING", "RUNNING", "STOP_PENDING"}
    BY <1>1, FaseDoPasso DEF Termina, Em
  <2>2. CicloNoSistema!Termina(s)
    BY <1>1, <2>1 DEF Termina, CicloNoSistema!Termina, CicloNoSistema!Vai
  <2> QED BY <2>2 DEF CicloNoSistema!Next
<1>2. CASE IniciaVigia
  BY <1>2, CicloComeca DEF IniciaVigia, Servicos
<1>3. CASE \/ TrataInicio(s) \/ Acorda(s) \/ ParaVigia \/ TimerVigia \/ ParaServico
           \/ NinhoTermina \/ LeAck \/ Desconecta \/ Reconecta \/ Finaliza \/ AtualizaVigia
  BY <1>3 DEF TrataInicio, Acorda, ParaVigia, TimerVigia, ParaServico, NinhoTermina,
     LeAck, Desconecta, Reconecta, Finaliza, AtualizaVigia, servVars
<1> QED BY <1>1, <1>2, <1>3 DEF Fio

\* A call of ServiceController starts a stopped service or changes no status.
LEMMA CicloControlador ==
  ASSUME IInv, NEW c \in Clientes, ServiceController(c)
  PROVE  CicloNoSistema!Next \/ UNCHANGED scm
<1>1. CASE Lanca(c)
  <2>1. PICK s \in Servicos : s = chamada[c].alvo
    BY DEF IInv, TypeOK, Chamada
  <2> QED BY <1>1, <2>1, CicloComeca DEF Lanca
<1>2. CASE \/ Pergunta(c) \/ PedeParada(c) \/ Respondido(c) \/ ControleExpira(c)
           \/ FimDaEspera(c) \/ PerguntaInicio(c) \/ Consulta(c)
  BY <1>2 DEF Pergunta, PedeParada, Respondido, ControleExpira, FimDaEspera,
     PerguntaInicio, Consulta
<1> QED BY <1>1, <1>2 DEF ServiceController

\* The threads, the callers and the stops that cross implement the life cycle of
\* a service: none is reported to run again after a stop was reported, or to
\* have started without a new process.
THEOREM CicloProvado == Spec => CicloDosServicos
<1>1. Init => CicloNoSistema!Init
  BY DEF Init, CicloNoSistema!Init
<1>2. IInv /\ [Next]_vars => [CicloNoSistema!Next]_scm
  <2> SUFFICES ASSUME IInv, [Next]_vars
               PROVE  CicloNoSistema!Next \/ UNCHANGED scm
    OBVIOUS
  <2>1. CASE \E s \in Servicos : Fio(s) \/ Sistema(s)
    BY <2>1, CicloFio, CicloSistema
  <2>2. CASE \E c \in Clientes : ServiceController(c)
    BY <2>2, CicloControlador
  <2>3. CASE InstaladorPara \/ Interface
    BY <2>3 DEF InstaladorPara, Interface, AbreUi, LeStopUi, EnviaAck, on_finalizar,
       FechaSessao, UiTermina, servVars
  <2>4. CASE UNCHANGED vars
    BY <2>4 DEF vars, servVars
  <2> QED BY <2>1, <2>2, <2>3, <2>4 DEF Next
<1> QED BY <1>1, <1>2, ParadaIndutiva, PTL DEF Spec, CicloDosServicos, CicloNoSistema!Spec

-----------------------------------------------------------------------------
(* The answer that the nested loop is owed.                                 *)

\* The loop of the service leaves what the answer depends on as it is.
Alheio ==
  /\ UNCHANGED <<cliente, conexao>>
  /\ fio'[Servico].ninho => fio[Servico].ninho
  /\ fio'[Servico].ninho => (fio[Servico].quit => fio'[Servico].quit)

LEMMA AlheioMantem ==
  ASSUME IndResposta, Alheio
  PROVE  IndResposta'
  BY DEF IndResposta, RespostaDevida, ConexaoCoerente, Alheio

\* Moves of a main thread, its own or the other's, keep the nested loop and the
\* call of quit().
LEMMA MoveAlheio ==
  ASSUME TypeOK, NEW s \in Servicos, NEW pc, UNCHANGED <<cliente, conexao>>,
         \/ UNCHANGED fio
         \/ Vai(s, pc)
         \/ fio' = [fio EXCEPT ![s].pc = pc, ![s].quit = TRUE]
  PROVE  Alheio
<1>1. fio[Servico] \in Fios /\ fio[s] \in Fios /\ Servico \in Servicos
  BY DEF TypeOK, Servicos
<1>2. /\ fio'[Servico].ninho = fio[Servico].ninho
      /\ fio[Servico].quit => fio'[Servico].quit
  <2>1. CASE UNCHANGED fio
    BY <2>1
  <2>2. CASE fio' = [fio EXCEPT ![s].pc = pc]
    <3>1. CASE s = Servico
      BY <1>1, <2>2, <3>1 DEF TypeOK, Fios
    <3>2. CASE s # Servico
      BY <1>1, <2>2, <3>2 DEF TypeOK
    <3> QED BY <3>1, <3>2
  <2>3. CASE fio' = [fio EXCEPT ![s].pc = pc, ![s].quit = TRUE]
    <3>1. CASE s = Servico
      BY <1>1, <2>3, <3>1 DEF TypeOK, Fios
    <3>2. CASE s # Servico
      BY <1>1, <2>3, <3>2 DEF TypeOK
    <3> QED BY <3>1, <3>2
  <2> QED BY <2>1, <2>2, <2>3 DEF Vai
<1> QED BY <1>2 DEF Alheio

\* The steps of the system's threads, of the callers and of the event loops that
\* have nothing to do with the interface.
LEMMA RespostaAlheia ==
  ASSUME IInv, IndResposta,
         \/ \E s \in Servicos : \/ Sistema(s) \/ TrataInicio(s) \/ Acorda(s)
         \/ \E c \in Clientes : ServiceController(c)
         \/ ParaVigia \/ TimerVigia \/ Finaliza \/ AtualizaVigia \/ IniciaVigia
         \/ InstaladorPara \/ AbreUi \/ UNCHANGED vars
  PROVE  IndResposta'
<1>0. TypeOK /\ Servico \in Servicos /\ Vigia \in Servicos
  BY DEF IInv, Servicos
<1>1. ASSUME NEW s \in Servicos, Sistema(s) \/ TrataInicio(s) \/ Acorda(s)
      PROVE  Alheio
  <2>1. /\ UNCHANGED <<cliente, conexao>>
        /\ UNCHANGED fio \/ \E pc : Vai(s, pc)
    BY <1>1 DEF Sistema, SemaforosLiberados, PostaInicio, EsperaInicio, AnunciaInicio,
       PostaParada, EsperaParada, Devolve, TrataInicio, Acorda, uiVars
  <2> QED BY <1>0, <2>1, MoveAlheio
<1>2. ASSUME NEW c \in Clientes, ServiceController(c)
      PROVE  Alheio
  <2>1. /\ UNCHANGED <<cliente, conexao>>
        /\ \/ DepoisDaParada(c) \/ Retorna(c) \/ UNCHANGED fio
           \/ \E s \in Servicos : Inicia(s)
    <3>1. CASE Lanca(c)
      <4>1. PICK s \in Servicos : s = chamada[c].alvo
        BY <1>0 DEF TypeOK, Chamada
      <4> QED BY <3>1, <4>1 DEF Lanca, uiVars
    <3>2. CASE ~Lanca(c)
      BY <1>2, <3>2 DEF ServiceController, Pergunta, PedeParada, Respondido,
         ControleExpira, FimDaEspera, PerguntaInicio, Consulta, uiVars
    <3> QED BY <3>1, <3>2
  <2>2. CASE DepoisDaParada(c)
    <3>1. CASE c \in Servicos
      <4>1. \/ UNCHANGED fio
            \/ fio' = [fio EXCEPT ![c].pc = "laco", ![c].quit = TRUE]
            \/ Vai(c, "laco")
        BY <2>2, <3>1 DEF DepoisDaParada
      <4> QED BY <1>0, <2>1, <3>1, <4>1, MoveAlheio
    <3>2. CASE c \notin Servicos
      <4>1. UNCHANGED fio
        BY <1>0, <2>2, <3>2 DEF DepoisDaParada, TypeOK
      <4> QED BY <1>0, <2>1, <4>1, MoveAlheio
    <3> QED BY <3>1, <3>2
  <2>3. CASE Retorna(c)
    <3>1. UNCHANGED fio \/ (c \in Servicos /\ Vai(c, "laco"))
      BY <2>3 DEF Retorna
    <3> QED BY <1>0, <2>1, <3>1, MoveAlheio
  <2>4. ASSUME NEW s \in Servicos, Inicia(s)
        PROVE  Alheio
    <3>1. Vai(s, "semaforo")
      BY <2>4 DEF Inicia, Vai
    <3> QED BY <1>0, <2>1, <3>1, MoveAlheio
  <2>5. CASE UNCHANGED fio
    BY <1>0, <2>1, <2>5, MoveAlheio
  <2> QED BY <2>1, <2>2, <2>3, <2>4, <2>5
<1>3. CASE ParaVigia \/ TimerVigia \/ Finaliza \/ AtualizaVigia \/ IniciaVigia
  <2>1. /\ UNCHANGED <<cliente, conexao>>
        /\ \E s \in Servicos, pc \in Pontos :
             \/ Vai(s, pc)
             \/ fio' = [fio EXCEPT ![s].pc = pc, ![s].quit = TRUE]
    BY <1>0, <1>3 DEF ParaVigia, TimerVigia, Finaliza, AtualizaVigia, IniciaVigia,
       NoServico, Inicia, Vai, uiVars, Pontos
  <2>2. Alheio
    BY <1>0, <2>1, MoveAlheio
  <2> QED BY <2>2, AlheioMantem
<1>4. CASE InstaladorPara \/ AbreUi \/ UNCHANGED vars
  <2>1. UNCHANGED <<cliente, conexao, fio>>
    BY <1>4 DEF InstaladorPara, AbreUi, uiVars, servVars, vars
  <2>2. Alheio
    BY <2>1 DEF Alheio
  <2> QED BY <2>2, AlheioMantem
<1> QED BY <1>1, <1>2, <1>3, <1>4, AlheioMantem

\* The start and the end of the nested loop, and the end of the service.
LEMMA RespostaNinho ==
  ASSUME IInv, IndResposta,
         ParaServico \/ NinhoTermina \/ (\E s \in Servicos : Termina(s))
  PROVE  IndResposta'
<1>0. TypeOK /\ fio \in [Servicos -> Fios] /\ Servico \in Servicos /\ Fase(Servico)
  BY DEF IInv, TypeOK, Servicos
<1>1. CASE ParaServico /\ ui
  <2>1. conexao' = [Ligada EXCEPT !.ida = TRUE]
    BY <1>1 DEF ParaServico
  <2>2. conexao'.ida /\ conexao'.estado = "ligada"
    BY <2>1 DEF Ligada, SemConexao
  <2> QED BY <2>2 DEF IndResposta, RespostaDevida, ConexaoCoerente
<1>2. CASE ParaServico /\ ~ui
  <2>1. /\ UNCHANGED conexao
        /\ fio' = [fio EXCEPT ![Servico].pc = "acorda", ![Servico].quit = TRUE]
        /\ fio[Servico].pc = "laco" /\ ~fio[Servico].quit /\ eventos[Servico] # <<>>
        /\ Head(eventos[Servico]) = "STOP"
    BY <1>2 DEF ParaServico, TrataParada, NoLaco, Em
  <2>2. ~fio[Servico].ninho
    BY <1>0, <2>1 DEF Fase, Parado, Chamado, Registra, Partida, Iniciando, Rodando,
       ParadaPedida, Parando, ParadaFeita, NaVida, Fora
  <2>3. ~fio'[Servico].ninho
    BY <1>0, <2>1, <2>2 DEF Fios
  <2> QED BY <2>1, <2>3 DEF IndResposta, RespostaDevida, ConexaoCoerente
<1>3. CASE NinhoTermina
  <2>1. UNCHANGED <<cliente, conexao>> /\ ~fio'[Servico].ninho
    BY <1>0, <1>3 DEF NinhoTermina, uiVars, Fios
  <2> QED BY <2>1, AlheioMantem DEF Alheio
<1>4. CASE Termina(Servico)
  <2>1. ~fio'[Servico].ninho
    BY <1>0, <1>4 DEF Termina, Fora
  <2>2. PICK chega \in {conexao.ida, FALSE} : conexao' = [SemConexao EXCEPT !.ida = chega]
    BY <1>4 DEF Termina
  <2>3. conexao'.estado = "nenhuma" /\ ~conexao'.buffer /\ ~conexao'.volta
    BY <2>2 DEF SemConexao
  <2> QED BY <2>1, <2>3 DEF IndResposta, RespostaDevida, ConexaoCoerente
<1>5. CASE Termina(Vigia)
  <2>1. UNCHANGED <<cliente, conexao>> /\ fio'[Servico] = fio[Servico]
    BY <1>0, <1>5 DEF Termina, Servico, Vigia
  <2> QED BY <2>1, AlheioMantem DEF Alheio
<1> QED BY <1>1, <1>2, <1>3, <1>4, <1>5 DEF Servicos

\* What happens on the connection, and at both of its ends.
LEMMA RespostaConexao ==
  ASSUME IInv, IndResposta,
         LeAck \/ Desconecta \/ Reconecta \/ LeStopUi \/ EnviaAck \/ UiTermina
  PROVE  IndResposta'
<1>0. /\ fio \in [Servicos -> Fios] /\ Servico \in Servicos
      /\ cliente \in Cliente /\ conexao \in Conexao
  BY DEF IInv, TypeOK, Servicos
<1> USE DEF IndResposta, RespostaDevida, ConexaoCoerente
<1>1. CASE LeAck
  <2>1. fio'[Servico].quit /\ fio'[Servico].ninho = fio[Servico].ninho
    BY <1>0, <1>1 DEF LeAck, Fios
  <2>2. /\ conexao'.estado = conexao.estado /\ conexao'.ida = conexao.ida
        /\ conexao'.buffer = conexao.buffer /\ ~conexao'.volta
    BY <1>0, <1>1 DEF LeAck, Conexao
  <2> QED BY <2>1, <2>2
<1>2. CASE Desconecta
  <2>1. /\ UNCHANGED fio /\ cliente'.perdeu = cliente.perdeu
        /\ conexao' = SemConexao
        /\ ~conexao.volta /\ ~conexao.ida /\ ~conexao.buffer
    BY <1>0, <1>2 DEF Desconecta, servVars, Cliente
  <2> QED BY <2>1 DEF SemConexao
<1>3. CASE Reconecta
  <2>1. UNCHANGED fio /\ conexao.estado = "nenhuma"
    BY <1>3 DEF Reconecta, servVars
  <2>2. cliente'.perdeu = cliente.perdeu
    BY <1>0, <1>3 DEF Reconecta, Conecta, NaoConecta, Cliente
  <2>3. conexao' = conexao \/ conexao' = Ligada
    BY <1>3 DEF Reconecta, Conecta, NaoConecta
  <2>4. fio[Servico].ninho /\ ~fio[Servico].quit => cliente.perdeu
    BY <2>1
  <2>5. conexao' = Ligada => conexao'.estado = "ligada"
    BY DEF Ligada, SemConexao
  <2> QED BY <2>1, <2>2, <2>3, <2>4, <2>5
<1>4. CASE LeStopUi
  <2>1. /\ UNCHANGED <<fio, cliente>> /\ conexao.ida
        /\ conexao' = [conexao EXCEPT !.ida = FALSE, !.buffer = (conexao.estado = "ligada")]
    BY <1>4 DEF LeStopUi, servVars
  <2>2. /\ conexao'.estado = conexao.estado /\ ~conexao'.ida
        /\ conexao'.buffer = (conexao.estado = "ligada")
        /\ conexao'.volta = conexao.volta
    BY <1>0, <2>1 DEF Conexao
  <2>3. conexao.estado = "nenhuma" => ~fio[Servico].ninho
    BY <2>1
  <2>4. conexao.estado \in {"nenhuma", "ligada"}
    BY <1>0, <2>1 DEF Conexao
  <2> QED BY <2>1, <2>2, <2>3, <2>4
<1>5. CASE EnviaAck
  <2>1. /\ UNCHANGED <<fio, cliente>> /\ conexao.buffer
        /\ conexao' = [conexao EXCEPT !.buffer = FALSE, !.volta = TRUE]
    BY <1>5 DEF EnviaAck, servVars
  <2>2. /\ conexao'.estado = conexao.estado /\ conexao'.ida = conexao.ida
        /\ ~conexao'.buffer /\ conexao'.volta
    BY <1>0, <2>1 DEF Conexao
  <2>3. conexao.estado = "ligada"
    BY <1>0, <2>1 DEF Conexao
  <2> QED BY <2>1, <2>2, <2>3
<1>6. CASE UiTermina /\ conexao.estado = "ligada"
  <2>1. /\ UNCHANGED fio
        /\ conexao' = [conexao EXCEPT !.estado = "uiFechou", !.ida = FALSE, !.buffer = FALSE]
        /\ cliente' = [cliente EXCEPT !.perdeu = @ \/ (conexao.ida \/ conexao.buffer)]
    BY <1>6 DEF UiTermina, servVars
  <2>2. /\ conexao'.estado = "uiFechou" /\ ~conexao'.ida /\ ~conexao'.buffer
        /\ conexao'.volta = conexao.volta
    BY <1>0, <2>1 DEF Conexao
  <2>3. cliente'.perdeu = (cliente.perdeu \/ conexao.ida \/ conexao.buffer)
    BY <1>0, <2>1 DEF Cliente
  <2> QED BY <2>1, <2>2, <2>3
<1>7. CASE UiTermina /\ conexao.estado # "ligada"
  <2>1. /\ UNCHANGED fio
        /\ conexao' = [conexao EXCEPT !.ida = FALSE]
        /\ cliente' = [cliente EXCEPT !.perdeu = @ \/ FALSE]
    BY <1>7 DEF UiTermina, servVars
  <2>2. /\ conexao'.estado = conexao.estado /\ ~conexao'.ida
        /\ conexao'.buffer = conexao.buffer /\ conexao'.volta = conexao.volta
    BY <1>0, <2>1 DEF Conexao
  <2>3. cliente'.perdeu = cliente.perdeu
    BY <1>0, <2>1 DEF Cliente
  <2>4. fio[Servico].ninho => ~conexao.ida
    BY <1>0, <1>7 DEF Conexao
  <2> QED BY <2>1, <2>2, <2>3, <2>4
<1> QED BY <1>1, <1>2, <1>3, <1>4, <1>5, <1>6, <1>7

\* The nested loop of cacicD::stop() never waits for an ACK that was neither sent
\* nor lost with a process, for any number of connections and openings.
THEOREM RespostaProvada == Spec => []RespostaDevida
<1>1. Init => IndResposta
  BY DEF Init, IndResposta, RespostaDevida, ConexaoCoerente, Fora, SemConexao, Servicos
<1>2. IInv /\ IndResposta /\ [Next]_vars => IndResposta'
  <2> SUFFICES ASSUME IInv, IndResposta, [Next]_vars PROVE IndResposta'
    OBVIOUS
  <2>1. CASE \E s \in Servicos : Fio(s) \/ Sistema(s)
    BY <2>1, RespostaAlheia, RespostaNinho, RespostaConexao DEF Fio
  <2>2. CASE \E c \in Clientes : ServiceController(c)
    BY <2>2, RespostaAlheia
  <2>3. CASE InstaladorPara \/ Interface
    BY <2>3, RespostaAlheia, RespostaConexao DEF Interface, on_finalizar, FechaSessao
  <2>4. CASE UNCHANGED vars
    BY <2>4, RespostaAlheia
  <2> QED BY <2>1, <2>2, <2>3, <2>4 DEF Next
<1>3. IndResposta => RespostaDevida
  BY DEF IndResposta
<1> QED BY <1>1, <1>2, <1>3, ParadaIndutiva, PTL DEF Spec
===============================================================================
