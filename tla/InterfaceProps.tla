---------------------------- MODULE InterfaceProps ----------------------------
(* What the interface's buttons must keep.                                   *)
EXTENDS Interface

Registro == [estado : Estados, ida : Seq(Pedidos), lidas : Seq(Pedidos),
             volta : Nat, acks : Nat, finalizou : BOOLEAN]

\* Both processes and their connections hold what the code stores in them;
\* without the service no slot is queued and no end of a connection is its own.
TypeOK ==
  /\ ui \in {"fora", "partindo", "viva"}
  /\ connected \in BOOLEAN /\ canSend \in BOOLEAN
  /\ connectionTrials \in 0..(MaxTentativas + 1)
  /\ lastDataWritten \in Pedidos \cup {"nada"}
  /\ socket \in 0..MaxConexoes
  /\ connectTimer \in BOOLEAN /\ reconnectTimer \in BOOLEAN /\ fechar \in BOOLEAN
  /\ conexao \in [Conexoes -> Registro]
  /\ servico \in {"roda", "saindo", "fora"}
  /\ fila \in Seq(Pedidos)
  /\ servico = "fora" => /\ fila = <<>>
                         /\ \A c \in Conexoes :
                              conexao[c].estado \in {"livre", "servicoFechou"}
  /\ pedidos \in 0..MaxPedidos /\ quedas \in 0..MaxQuedas

\* An ACK does not say which request it answers. When one closes the interface,
\* the service has handled FINALIZAR on that connection: it was not the answer
\* to an earlier FORCAR.
AckDoFinalizar ==
  [][ (\E c \in Conexoes : on_readyRead(c)) /\ fechar' /\ ~fechar
        => conexao[socket].finalizou ]_vars

-----------------------------------------------------------------------------
(* The inductive invariant behind AckDoFinalizar: until FINALIZAR is handled *)
(* there is at most one request without an answer before it, and while that  *)
(* one waits nothing else is sent.                                           *)

Respostas(x) == x.volta + x.acks
EsperaForcar == ~canSend /\ lastDataWritten = "FORCAR"

UmaDeCadaVez ==
  socket # 0 /\ ~conexao[socket].finalizou =>
    LET x == conexao[socket]
    IN  /\ x.lidas = <<>>
        /\ Respostas(x) <= 1
        /\ Respostas(x) > 0 => x.ida = <<>> /\ EsperaForcar
        /\ x.ida # <<>> /\ x.ida[1] = "FORCAR" => Len(x.ida) = 1 /\ EsperaForcar

IndInterface == TypeOK /\ UmaDeCadaVez

-----------------------------------------------------------------------------
\* The service reads one line of whatever has arrived. Nothing is left unread
\* behind that line, on a connection in use or one that was replaced, unless
\* FINALIZAR has been handled on it and the service is about to end.
NadaSemLer ==
  \A c \in Conexoes : conexao[c].lidas # <<>> => conexao[c].finalizou

\* The inductive invariant behind NadaSemLer, of every connection and not only
\* of the current one: nothing follows a FORCAR that has not been handled.
NadaDepoisDeForcar ==
  \A c \in Conexoes :
    ~conexao[c].finalizou =>
      LET x == conexao[c]
      IN  x.ida # <<>> /\ x.ida[1] = "FORCAR" => Len(x.ida) = 1

IndLeitura == NadaSemLer /\ NadaDepoisDeForcar

-----------------------------------------------------------------------------
AReconectar ==
  \/ fechar \/ connectTimer \/ reconnectTimer
  \/ \E c \in Conexoes : conexao[c].estado = "servicoFechou"

Viaja(x) == x.estado \in {"espera", "aberta"} /\ (x.ida # <<>> \/ x.volta > 0)

\* The disabled buttons of an interface are always owed something that enables
\* them or ends it: its end is queued, a timer will connect again, a socket has
\* still to learn that it was closed, or a request or its answer travels on the
\* socket that will be read.
BotaoDevido ==
  ui = "viva" /\ ~canSend => AReconectar \/ (socket # 0 /\ Viaja(conexao[socket]))

\* The inductive invariant behind BotaoDevido: a click that finds no open socket
\* finds a reason to connect again.
SocketOuTemporizador ==
  /\ ui # "viva" => connectionTrials = 0
  /\ ui = "viva" => AReconectar \/ (connected /\ socket # 0 /\ Ligada(socket))

IndBotao == BotaoDevido /\ SocketOuTemporizador

-----------------------------------------------------------------------------
\* A FINALIZAR that was sent makes the service end, unless the connection is
\* lost: it is never left unread behind another request.
FinalizarChega ==
  \A c \in Conexoes :
    (Ligada(c) /\ \E i \in DOMAIN conexao[c].ida : conexao[c].ida[i] = "FINALIZAR")
      ~> (servico # "roda" \/ ~Ligada(c))

\* A button that is waiting for an answer works again, whatever became of the
\* request, or the interface ends.
BotaoVolta == (ui = "viva" /\ ~canSend) ~> (canSend \/ ui # "viva")

\* An interface does not outlive its service.
InterfaceTermina == (servico = "fora" /\ ui = "viva") ~> (servico # "fora" \/ ui # "viva")
===============================================================================
