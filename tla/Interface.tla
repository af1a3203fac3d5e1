------------------------------- MODULE Interface -------------------------------
(***************************************************************************)
(* cacic-ui and cacic-service: what the buttons of the tray icon ask of    *)
(* the service, over a local connection.                                   *)
(*                                                                         *)
(* UiClient runs in the interface's only thread. It writes FORCAR or       *)
(* FINALIZAR on its current socket and waits for an ACK, which says nothing *)
(* of the request it answers. Its two timers connect again, each time with *)
(* a new socket; the older ones stay connected to the same slots. The      *)
(* service has a thread per connection, which answers at once and queues a *)
(* signal for the main thread. Both ends read one line at each readyRead(), *)
(* whatever has arrived.                                                   *)
(***************************************************************************)
EXTENDS Naturals, Sequences

CONSTANTS
  MaxConexoes,   \* bound: connections that have not been closed by both ends
  MaxTentativas, \* MAX_CONNECTION_TRIALS
  MaxPedidos,    \* bound: clicks on the two buttons
  MaxQuedas      \* bound: ends of the service nobody asked for in the interface

ASSUME InterfaceAssumption ==
  /\ MaxConexoes \in Nat \ {0}
  /\ MaxTentativas \in Nat \ {0}
  /\ MaxPedidos \in Nat
  /\ MaxQuedas \in Nat

Conexoes == 1..MaxConexoes
Pedidos  == {"FORCAR", "FINALIZAR"}

VARIABLES
  ui,                \* the process: "fora", "partindo" or "viva"
  connected, canSend, connectionTrials,
  lastDataWritten,   \* a request, or "nada"
  socket,            \* the connection of the current socket, 0: not connected
  connectTimer, reconnectTimer,  \* they are active
  fechar,            \* on_finalizar() is queued
  conexao,           \* the connections, both ends and what lies between them
  servico,           \* cacic-service: "roda", "saindo" (after quit()) or "fora"
  fila,              \* slots queued for its main thread
  pedidos, quedas    \* clicks and ends so far

uiVars   == <<ui, connected, canSend, connectionTrials, lastDataWritten, socket,
              connectTimer, reconnectTimer, fechar>>
servVars == <<servico, fila>>
vars     == <<uiVars, conexao, servVars, pedidos, quedas>>

-----------------------------------------------------------------------------
(* A connection. It is accepted by the system before incomingConnection()   *)
(* gives it a thread ("espera"); one of the ends closes it first.          *)

Estados == {"livre", "espera", "aberta", "uiFechou", "servicoFechou"}

\* ida: requests not arrived; lidas: arrived in the service and not read;
\* volta: ACKs not arrived; acks: arrived in the interface and not read.
\* finalizou, a history variable: the service has handled FINALIZAR on it.
Nova == [estado |-> "livre", ida |-> <<>>, lidas |-> <<>>, volta |-> 0,
         acks |-> 0, finalizou |-> FALSE]

Ligada(c) == conexao[c].estado \in {"espera", "aberta"}

\* What has been written and not sent is lost when a process ends.
FechaUi(x, n) ==
  CASE x.estado \in {"espera", "aberta"} ->
         [x EXCEPT !.estado = "uiFechou", !.ida = SubSeq(x.ida, 1, n),
                   !.volta = 0, !.acks = 0]
    [] x.estado = "servicoFechou" -> Nova
    [] OTHER -> x

FechaServico(x, n) ==
  CASE x.estado \in {"espera", "aberta"} ->
         [x EXCEPT !.estado = "servicoFechou", !.ida = <<>>, !.lidas = <<>>,
                   !.volta = n]
    [] x.estado = "uiFechou" -> Nova
    [] OTHER -> x

Init ==
  /\ ui = "partindo"
  /\ connected = FALSE /\ canSend = FALSE
  /\ connectionTrials = 0
  /\ lastDataWritten = "nada"
  /\ socket = 0
  /\ connectTimer = FALSE /\ reconnectTimer = FALSE
  /\ fechar = FALSE
  /\ conexao = [c \in Conexoes |-> Nova]
  /\ servico = "roda" /\ fila = <<>>
  /\ pedidos = 0 /\ quedas = 0

-----------------------------------------------------------------------------
(* The interface: setupSocketConnection() and the slots of UiClient.        *)

\* Mutant: a new connection does not forget the answer that was awaited.
MutOnConnected ==
  connected' = TRUE /\ canSend' = (canSend \/ lastDataWritten = "nada")
    /\ reconnectTimer' = FALSE

on_connected == connected' = TRUE /\ canSend' = TRUE /\ reconnectTimer' = FALSE

\* A connection succeeds while the service's socket listens; on_connected()
\* runs inside waitForConnected().
Conecta(c) ==
  /\ servico # "fora"
  /\ conexao[c].estado = "livre"
  /\ conexao' = [conexao EXCEPT ![c] = [Nova EXCEPT !.estado = "espera"]]
  /\ socket' = c
  /\ on_connected
  /\ UNCHANGED <<connectTimer, connectionTrials, fechar>>

\* Only the first failure starts connectTimer. The counter is compared with 0
\* and MAX_CONNECTION_TRIALS alone: it is capped one above.
NaoConecta ==
  /\ servico = "fora"
  /\ socket' = 0
  /\ connectTimer' = (connectionTrials = 0 \/ (connectTimer /\ connectionTrials < MaxTentativas))
  /\ reconnectTimer' = (reconnectTimer /\ connectionTrials < MaxTentativas)
  /\ fechar' = (fechar \/ connectionTrials >= MaxTentativas)
  /\ connectionTrials' = IF connectionTrials > MaxTentativas THEN connectionTrials
                         ELSE connectionTrials + 1
  /\ UNCHANGED <<connected, canSend, conexao>>

setupSocketConnection == NaoConecta \/ \E c \in Conexoes : Conecta(c)

\* The interface's process starts and takes ui.lock.
IniciaUi ==
  /\ ui = "partindo"
  /\ ui' = "viva"
  /\ setupSocketConnection
  /\ UNCHANGED <<lastDataWritten, servVars, pedidos, quedas>>

\* Either timer fires.
Reconecta ==
  /\ ui = "viva"
  /\ connectTimer \/ reconnectTimer
  /\ setupSocketConnection
  /\ UNCHANGED <<ui, lastDataWritten, servVars, pedidos, quedas>>

\* Mutant: only connectTimer is left to connect again.
MutOnDisconnected == connected' = FALSE /\ UNCHANGED reconnectTimer

on_disconnected == connected' = FALSE /\ reconnectTimer' = TRUE

\* A socket of the interface learns that the service closed it, after what the
\* service had sent.
Desliga(c) ==
  /\ ui = "viva"
  /\ conexao[c].estado = "servicoFechou" /\ conexao[c].volta = 0
  /\ conexao' = [conexao EXCEPT ![c].estado = "livre"]
  /\ on_disconnected
  /\ UNCHANGED <<ui, canSend, connectionTrials, lastDataWritten, socket,
                 connectTimer, fechar, servVars, pedidos, quedas>>

Clica == ui = "viva" /\ pedidos < MaxPedidos /\ pedidos' = pedidos + 1

\* What is written on a socket that is no longer open is lost.
Escreve(p) ==
  /\ lastDataWritten' = p
  /\ conexao' = IF socket # 0 /\ Ligada(socket)
                THEN [conexao EXCEPT ![socket].ida = Append(@, p)]
                ELSE conexao

\* Mutant: the next request does not wait for the answer.
MutPedeForcar ==
  /\ IF connected THEN Escreve("FORCAR") ELSE UNCHANGED <<lastDataWritten, conexao>>
  /\ UNCHANGED canSend

PedeForcar ==
  /\ IF connected THEN Escreve("FORCAR") ELSE UNCHANGED <<lastDataWritten, conexao>>
  /\ canSend' = FALSE

on_forcarClicked ==
  /\ Clica
  /\ canSend
  /\ PedeForcar
  /\ UNCHANGED <<ui, connected, connectionTrials, socket, connectTimer,
                 reconnectTimer, fechar, servVars, quedas>>

\* canSend is not cleared when the request is written.
on_finalizarClicked ==
  /\ Clica
  /\ IF canSend /\ connected
     THEN Escreve("FINALIZAR") /\ UNCHANGED <<canSend, fechar>>
     ELSE /\ canSend' = FALSE
          /\ fechar' = TRUE
          /\ UNCHANGED <<lastDataWritten, conexao>>
  /\ UNCHANGED <<ui, connected, connectionTrials, socket, connectTimer,
                 reconnectTimer, servVars, quedas>>

\* Mutant: the line is taken for granted.
MutTemLinha(x) == TRUE

\* readLine() returns a line.
TemLinha(x) == x.acks > 0

\* Some ACKs arrive on any of the sockets; one line is read, of the current one.
on_readyRead(c) ==
  /\ ui = "viva"
  /\ \E k \in 1..conexao[c].volta :
       LET chegou == [conexao EXCEPT ![c].volta = @ - k, ![c].acks = @ + k]
           leu    == socket # 0 /\ TemLinha(chegou[socket])
       IN  /\ conexao' = IF leu THEN [chegou EXCEPT ![socket].acks = @ - 1] ELSE chegou
           /\ canSend' = (canSend \/ leu)
           /\ fechar' = (fechar \/ (leu /\ lastDataWritten = "FINALIZAR"))
  /\ UNCHANGED <<ui, connected, connectionTrials, lastDataWritten, socket,
                 connectTimer, reconnectTimer, servVars, pedidos, quedas>>

\* CacicWidget::on_finalizar(): the lock is released and the process ends.
on_finalizar ==
  /\ ui = "viva" /\ fechar
  /\ ui' = "fora"
  /\ connected' = FALSE /\ canSend' = FALSE
  /\ connectionTrials' = 0
  /\ lastDataWritten' = "nada"
  /\ socket' = 0
  /\ connectTimer' = FALSE /\ reconnectTimer' = FALSE
  /\ fechar' = FALSE
  /\ \E n \in [Conexoes -> 0..MaxPedidos] :
       /\ \A c \in Conexoes : n[c] <= Len(conexao[c].ida)
       /\ conexao' = [c \in Conexoes |-> FechaUi(conexao[c], n[c])]
  /\ UNCHANGED <<servVars, pedidos, quedas>>

-----------------------------------------------------------------------------
(* The service.                                                            *)

\* The main thread gives the connection a thread.
incomingConnection(c) ==
  /\ servico = "roda"
  /\ conexao[c].estado = "espera"
  /\ conexao' = [conexao EXCEPT ![c].estado = "aberta"]
  /\ UNCHANGED <<uiVars, servVars, pedidos, quedas>>

\* Some requests arrive and one line is read: it is answered first, and the
\* signal is queued. An answer to an interface that has ended is lost.
readyRead(c) ==
  LET x == conexao[c]
  IN  /\ x.estado \in {"aberta", "uiFechou"}
      /\ \E k \in 1..Len(x.ida) :
           LET tem == x.lidas \o SubSeq(x.ida, 1, k)
           IN  /\ conexao' = [conexao EXCEPT ![c] =
                    [x EXCEPT !.ida = SubSeq(x.ida, k + 1, Len(x.ida)),
                              !.lidas = Tail(tem),
                              !.volta = IF x.estado = "aberta" THEN @ + 1 ELSE @,
                              !.finalizou = @ \/ Head(tem) = "FINALIZAR"]]
               /\ fila' = Append(fila, Head(tem))
      /\ UNCHANGED <<uiVars, servico, pedidos, quedas>>

\* Its thread ends when the interface has closed the connection.
disconnected(c) ==
  /\ conexao[c].estado = "uiFechou" /\ conexao[c].ida = <<>>
  /\ conexao' = [conexao EXCEPT ![c] = Nova]
  /\ UNCHANGED <<uiVars, servVars, pedidos, quedas>>

\* The main thread, or an event loop nested in it, runs a queued slot: the
\* delivery of the coleta (module Coleta), or cacicD::on_finalizar().
ExecutaFila ==
  /\ servico = "roda"
  /\ fila # <<>>
  /\ fila' = Tail(fila)
  /\ servico' = IF Head(fila) = "FINALIZAR" THEN "saindo" ELSE "roda"
  /\ UNCHANGED <<uiVars, conexao, pedidos, quedas>>

Termina ==
  /\ servico' = "fora"
  /\ fila' = <<>>
  /\ \E n \in [Conexoes -> 0..MaxPedidos] :
       /\ \A c \in Conexoes : n[c] <= conexao[c].volta
       /\ conexao' = [c \in Conexoes |-> FechaServico(conexao[c], n[c])]
  /\ UNCHANGED uiVars

\* The main loop has been left and the process ends.
ServicoSai == servico = "saindo" /\ Termina /\ UNCHANGED <<pedidos, quedas>>

\* The service is stopped, replaced by a new version, or fails.
ServicoCai ==
  /\ servico = "roda"
  /\ quedas < MaxQuedas
  /\ quedas' = quedas + 1
  /\ Termina
  /\ UNCHANGED pedidos

\* A new process listens, and starts an interface unless ui.lock is taken.
IniciaServico ==
  /\ servico = "fora"
  /\ servico' = "roda"
  /\ ui' = IF ui = "fora" THEN "partindo" ELSE ui
  /\ UNCHANGED <<connected, canSend, connectionTrials, lastDataWritten, socket,
                 connectTimer, reconnectTimer, fechar, conexao, fila, pedidos, quedas>>

-----------------------------------------------------------------------------
PassoUi ==
  \/ IniciaUi \/ Reconecta \/ on_forcarClicked \/ on_finalizarClicked \/ on_finalizar
  \/ \E c \in Conexoes : Desliga(c) \/ on_readyRead(c)

PassoServico ==
  \/ ExecutaFila \/ ServicoSai \/ ServicoCai \/ IniciaServico
  \/ \E c \in Conexoes : incomingConnection(c) \/ readyRead(c) \/ disconnected(c)

Next == PassoUi \/ PassoServico

Spec == Init /\ [][Next]_vars

\* The event loops run, and the system delivers what was sent. Nobody has to
\* click, stop the service or start it again.
FairSpec ==
  /\ Spec
  /\ WF_vars(IniciaUi) /\ WF_vars(Reconecta) /\ WF_vars(on_finalizar)
  /\ WF_vars(ExecutaFila) /\ WF_vars(ServicoSai)
  /\ \A c \in Conexoes :
       /\ WF_vars(Desliga(c)) /\ WF_vars(on_readyRead(c))
       /\ WF_vars(incomingConnection(c)) /\ WF_vars(readyRead(c))
       /\ WF_vars(disconnected(c))
===============================================================================
