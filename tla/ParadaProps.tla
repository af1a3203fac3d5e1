------------------------------ MODULE ParadaProps ------------------------------
(* What the start and the stop of the services must keep.                    *)
EXTENDS Parada

Fios     == [pc : Pontos, ninho : BOOLEAN, quit : BOOLEAN]
Chamada == [pc : Passos, alvo : Servicos, sc : BOOLEAN, depois : {"volta", "start", "quit"}]
Cliente == [connected : BOOLEAN, canSend : BOOLEAN, tentativas : 0..(MaxTentativas + 1),
            connectTimer : BOOLEAN, reconnectTimer : BOOLEAN, perdeu : BOOLEAN]
Conexao == [estado : {"nenhuma", "ligada", "uiFechou"}, ida : BOOLEAN,
            buffer : BOOLEAN, volta : BOOLEAN]
Filas   == {<<>>, <<"STARTUP">>, <<"STOP">>}

\* The control manager, the threads, the calls and the connection hold what the
\* code stores in them; no service has two events posted, and the mutex is held
\* by a thread that has posted one and does not wait yet.
TypeOK ==
  /\ scm \in [Servicos -> {"STOPPED", "START_PENDING", "RUNNING", "STOP_PENDING"}]
  /\ fio \in [Servicos -> Fios]
  /\ inicio \in [Servicos -> {"fora", "chamado", "registra", "postou", "espera",
                              "acordado", "fim"}]
  /\ controle \in [Servicos -> {"livre", "chamado", "postou", "espera", "acordado"}]
  /\ mutex \in [Servicos -> {"livre", "inicio", "controle"}]
  /\ eventos \in [Servicos -> Filas]
  /\ chamada \in [Clientes -> Chamada]
  /\ cliente \in Cliente
  /\ conexao \in Conexao
  /\ ui \in BOOLEAN /\ finalizar \in BOOLEAN
  /\ pedidos \in 0..MaxPedidos
  /\ \A s \in Servicos : /\ mutex[s] = "inicio"   <=> inicio[s] = "postou"
                         /\ mutex[s] = "controle" <=> controle[s] = "postou"

\* The status is that of the process: RUNNING only after start(), never again
\* once a stop has been asked for, and STOP_PENDING only while a stop is on its
\* way to exec(), in the queue or in stop() itself.
StatusVerdadeiro ==
  \A s \in Servicos :
    /\ scm[s] = "STOPPED" <=> fio[s].pc = "fora"
    /\ scm[s] = "RUNNING" => /\ inicio[s] = "fim"
                             /\ controle[s] \in {"livre", "chamado"}
                             /\ eventos[s] = <<>> /\ ~fio[s].ninho
    /\ scm[s] = "STOP_PENDING" =>
         \/ \E i \in DOMAIN eventos[s] : eventos[s][i] = "STOP"
         \/ fio[s].ninho \/ fio[s].quit

\* A thread in condition.wait() will be woken: its event is in the queue or its
\* handling has not reached wakeAll().
DespertarGarantido ==
  \A s \in Servicos :
    /\ inicio[s] = "espera" =>
         \/ \E i \in DOMAIN eventos[s] : eventos[s][i] = "STARTUP"
         \/ fio[s].pc = "acorda"
    /\ controle[s] = "espera" =>
         \/ \E i \in DOMAIN eventos[s] : eventos[s][i] = "STOP"
         \/ fio[s].ninho \/ fio[s].pc = "acorda"

\* The nested loop of cacicD::stop() is owed an answer: as long as nobody has
\* called quit(), STOPUI or its ACK is on its way, or was lost with a process.
\* Connections that end, timers that connect again and an interface that is
\* opened again meanwhile do not lose it.
RespostaDevida ==
  fio[Servico].ninho /\ ~fio[Servico].quit =>
    conexao.ida \/ conexao.buffer \/ conexao.volta \/ cliente.perdeu

\* To the control manager each service goes through its life cycle, whatever its
\* three threads, the callers of ServiceController and the other service do.
CicloNoSistema == INSTANCE CicloServico WITH estado <- scm

CicloDosServicos == CicloNoSistema!Spec

-----------------------------------------------------------------------------
(* The inductive invariant behind RespostaDevida.                           *)

\* What a connection that has ended, or is none, still holds.
ConexaoCoerente ==
  /\ conexao.estado = "uiFechou" => ~conexao.ida /\ ~conexao.buffer
  /\ conexao.estado = "nenhuma" =>
       /\ ~conexao.buffer /\ ~conexao.volta
       /\ fio[Servico].ninho => ~conexao.ida

IndResposta == RespostaDevida /\ ConexaoCoerente

-----------------------------------------------------------------------------
\* The nested loop waits for an ACK that cannot come.
SemResposta == fio[Servico].ninho /\ cliente.perdeu

\* A stop ends, unless the interface ends before its ACK is sent, although the
\* two services may be stopping each other.
ParadaTermina ==
  \A s \in Servicos :
    scm[s] = "STOP_PENDING" ~> (scm[s] = "STOPPED" \/ (s = Servico /\ SemResposta))

\* A stop with the interface connected leaves no interface, unless FINALIZAR ends
\* the nested loop before STOPUI is sent.
InterfaceAcaba == (conexao.ida /\ ui) ~> (~ui \/ cliente.perdeu)

\* A main thread that controls the other service gets back to its loop, although
\* the other may be waiting for it.
ChamadaVolta ==
  \A s \in Servicos : fio[s].pc = "chama" ~> fio[s].pc # "chama"

\* Each service brings the other back, unless it ends itself: chksys at its timer,
\* cacic-service in its cycle, whatever stops and updates are on their way.
UmSustentaOutro ==
  \A s \in Servicos :
    (scm[s] = "STOPPED" /\ scm[Outro(s)] = "RUNNING")
      ~> (scm[s] = "RUNNING" \/ scm[Outro(s)] # "RUNNING")
===============================================================================
