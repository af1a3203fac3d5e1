---------------------------- MODULE InterfaceProofs ----------------------------
(* An ACK that closes the interface answers FINALIZAR, for every number of  *)
(* connections, clicks and ends of the service.                             *)
EXTENDS InterfaceProps, SequenceTheorems, TLAPS

\* A sequence without elements.
LEMMA SemElementos == ASSUME NEW S, NEW s \in Seq(S), Len(s) = 0 PROVE s = <<>>
  OBVIOUS

\* Reading one line of those that arrived.
LEMMA LeUma ==
  ASSUME NEW S, NEW s \in Seq(S), NEW l \in Seq(S), NEW k \in 1..Len(s)
  PROVE  LET tem   == l \o SubSeq(s, 1, k)
             resto == SubSeq(s, k + 1, Len(s))
         IN  /\ resto \in Seq(S)
             /\ Head(tem) \in S
             /\ Tail(tem) \in Seq(S)
             /\ l = <<>> => Head(tem) = s[1]
             /\ l = <<>> /\ Len(s) = 1 => Tail(tem) = <<>> /\ resto = <<>>
<1>1. Len(s) \in Nat /\ k \in Nat /\ 1 <= k /\ k <= Len(s)
  OBVIOUS
<1> DEFINE n == Len(s)  p == SubSeq(s, 1, k)  resto == SubSeq(s, k + 1, n)
<1>2. p \in Seq(S) /\ Len(p) = k /\ p[1] = s[1]
  <2>1. /\ p \in Seq(S)
        /\ Len(p) = IF 1 <= k THEN k - 1 + 1 ELSE 0
        /\ \A i \in 1..(k - 1 + 1) : p[i] = s[1 + i - 1]
    BY <1>1, SubSeqProperties
  <2> HIDE DEF p
  <2> QED BY <2>1, <1>1
<1>3. resto \in Seq(S) /\ (k = n => resto = <<>>)
  <2>1. \A i \in (k + 1)..n : s[i] \in S
    BY <1>1
  <2>2. /\ resto \in Seq(S)
        /\ Len(resto) = IF k + 1 <= n THEN n - (k + 1) + 1 ELSE 0
    BY <1>1, <2>1, SubSeqProperties
  <2>3. k = n => Len(resto) = 0
    <3> HIDE DEF resto, n
    <3> QED BY <1>1, <2>2
  <2> HIDE DEF resto
  <2> QED BY <2>2, <2>3
<1> DEFINE tem == l \o p
<1> HIDE DEF p, resto
<1>4. tem \in Seq(S) /\ Len(tem) = Len(l) + k /\ Len(tem) > 0
  BY <1>1, <1>2
<1>5. l = <<>> => tem = p
  BY <1>2
<1> HIDE DEF tem
<1>6. tem # <<>> /\ Head(tem) \in S /\ Tail(tem) \in Seq(S) /\ Head(tem) = tem[1]
  BY <1>4
<1>7. l = <<>> /\ Len(s) = 1 => Tail(tem) = <<>> /\ resto = <<>>
  <2> SUFFICES ASSUME l = <<>>, Len(s) = 1 PROVE Tail(tem) = <<>> /\ resto = <<>>
    OBVIOUS
  <2>1. k = 1 /\ k = n
    BY <1>1
  <2>2. Len(tem) = 1
    BY <1>4, <2>1
  <2>3. Tail(tem) \in Seq(S) /\ Len(Tail(tem)) = 0
    BY <1>4, <1>6, <2>2, HeadTailProperties
  <2>4. Tail(tem) = <<>>
    BY <2>3, SemElementos
  <2> QED BY <2>1, <2>4, <1>3
<1>8. l = <<>> => Head(tem) = s[1]
  BY <1>2, <1>5, <1>6
<1> QED BY <1>3, <1>6, <1>7, <1>8 DEF p, resto, tem

\* What was sent before the end of a process is a prefix of what was written.
LEMMA Prefixo ==
  ASSUME NEW S, NEW s \in Seq(S), NEW n \in Nat, n <= Len(s)
  PROVE  SubSeq(s, 1, n) \in Seq(S)
<1>1. \A i \in 1..n : s[i] \in S
  OBVIOUS
<1> QED BY <1>1, SubSeqProperties

\* A new connection holds nothing.
LEMMA NovaTipo == Nova \in Registro
  BY DEF Nova, Registro, Estados

\* The interface's end leaves typed connections, and closes them.
LEMMA FechaUiTipo ==
  ASSUME NEW x \in Registro, NEW n \in Nat, n <= Len(x.ida)
  PROVE  /\ FechaUi(x, n) \in Registro
         /\ x.estado \in {"livre", "servicoFechou"} => FechaUi(x, n).estado = "livre"
<1>1. SubSeq(x.ida, 1, n) \in Seq(Pedidos)
  BY Prefixo DEF Registro
<1>2. CASE x.estado \in {"espera", "aberta"}
  BY <1>1, <1>2 DEF FechaUi, Registro, Estados
<1>3. CASE x.estado = "servicoFechou"
  BY <1>3, NovaTipo DEF FechaUi, Nova
<1>4. CASE x.estado \notin {"espera", "aberta", "servicoFechou"}
  BY <1>4 DEF FechaUi
<1> QED BY <1>2, <1>3, <1>4

\* The service's end leaves typed connections, and none of them attended.
LEMMA FechaServicoTipo ==
  ASSUME NEW x \in Registro, NEW n \in Nat
  PROVE  /\ FechaServico(x, n) \in Registro
         /\ FechaServico(x, n).estado \in {"livre", "servicoFechou"}
<1> DEFINE y == [x EXCEPT !.estado = "servicoFechou", !.ida = <<>>, !.lidas = <<>>,
                          !.volta = n]
<1>1. CASE x.estado \in {"espera", "aberta"}
  <2>1. FechaServico(x, n) = y
    BY <1>1 DEF FechaServico
  <2>2. <<>> \in Seq(Pedidos)
    OBVIOUS
  <2>3. y \in Registro /\ y.estado = "servicoFechou"
    BY <2>2 DEF Registro, Estados
  <2> QED BY <2>1, <2>3
<1>2. CASE x.estado = "uiFechou"
  BY <1>2, NovaTipo DEF FechaServico, Nova
<1>3. CASE x.estado \notin {"espera", "aberta", "uiFechou"}
  BY <1>3 DEF FechaServico, Registro, Estados
<1> QED BY <1>1, <1>2, <1>3

LEMMA InterfaceInicial == Init => IndInterface
<1> SUFFICES ASSUME Init PROVE IndInterface
  OBVIOUS
<1>1. conexao \in [Conexoes -> Registro]
  BY NovaTipo DEF Init
<1>2. \A c \in Conexoes : conexao[c].estado \in {"livre", "servicoFechou"}
  BY DEF Init, Nova
<1>3. fila \in Seq(Pedidos) /\ fila = <<>>
  BY DEF Init
<1>4. /\ connectionTrials \in 0..(MaxTentativas + 1)
      /\ socket \in 0..MaxConexoes
      /\ pedidos \in 0..MaxPedidos /\ quedas \in 0..MaxQuedas
  BY InterfaceAssumption DEF Init
<1>5. TypeOK
  BY <1>1, <1>2, <1>3, <1>4 DEF Init, TypeOK
<1>6. UmaDeCadaVez
  BY DEF Init, UmaDeCadaVez
<1> QED BY <1>5, <1>6 DEF IndInterface

\* Connecting again.
LEMMA ConexaoPreserva ==
  ASSUME IndInterface, setupSocketConnection,
         UNCHANGED <<lastDataWritten, servico, fila, pedidos, quedas>>,
         ui' \in {"fora", "partindo", "viva"}
  PROVE  IndInterface'
<1> USE DEF IndInterface
<1>1. CASE NaoConecta
  <2>1. connectionTrials' \in 0..(MaxTentativas + 1)
    BY <1>1, InterfaceAssumption DEF NaoConecta, TypeOK
  <2>2. TypeOK'
    BY <1>1, <2>1, InterfaceAssumption DEF NaoConecta, TypeOK
  <2>3. UmaDeCadaVez'
    BY <1>1 DEF NaoConecta, UmaDeCadaVez
  <2> QED BY <2>2, <2>3
<1>2. ASSUME NEW c \in Conexoes, Conecta(c) PROVE IndInterface'
  <2> DEFINE x == [Nova EXCEPT !.estado = "espera"]
  <2>1. /\ x \in Registro /\ x.estado = "espera" /\ x.ida = <<>> /\ x.lidas = <<>>
        /\ x.volta = 0 /\ x.acks = 0
    <3>1. x \in Registro
      BY NovaTipo DEF Registro, Estados
    <3> QED BY <3>1 DEF Nova
  <2>2. conexao' = [conexao EXCEPT ![c] = x] /\ servico # "fora" /\ socket' = c
    BY <1>2 DEF Conecta
  <2> HIDE DEF x
  <2>3. conexao' \in [Conexoes -> Registro] /\ conexao'[c] = x
    BY <2>1, <2>2 DEF TypeOK
  <2>4. /\ connected' = TRUE /\ canSend' = TRUE /\ reconnectTimer' = FALSE
        /\ UNCHANGED <<connectTimer, connectionTrials, fechar>>
    BY <1>2 DEF Conecta, on_connected
  <2>5. socket' \in 0..MaxConexoes /\ servico' # "fora"
    BY <2>2, InterfaceAssumption DEF Conexoes
  <2>6. TypeOK'
    BY <2>3, <2>4, <2>5 DEF TypeOK
  <2>7. UmaDeCadaVez'
    BY <2>1, <2>2, <2>3 DEF UmaDeCadaVez, Respostas
  <2> QED BY <2>6, <2>7
<1> QED BY <1>1, <1>2 DEF setupSocketConnection

\* A socket of the interface is told that its connection was closed.
LEMMA DesligaPreserva ==
  ASSUME IndInterface, NEW c \in Conexoes, Desliga(c)
  PROVE  IndInterface'
<1> DEFINE x == [conexao[c] EXCEPT !.estado = "livre"]
<1>1. /\ conexao' = [conexao EXCEPT ![c] = x]
      /\ connected' = FALSE /\ reconnectTimer' = TRUE
      /\ UNCHANGED <<ui, canSend, connectionTrials, lastDataWritten, socket,
                     connectTimer, fechar, servico, fila, pedidos, quedas>>
  BY DEF Desliga, on_disconnected, servVars
<1>2. TypeOK /\ conexao \in [Conexoes -> Registro]
  BY DEF IndInterface, TypeOK
<1>3. x \in Registro /\ x.estado = "livre"
  BY <1>2 DEF Registro, Estados
<1>4. /\ x.ida = conexao[c].ida /\ x.lidas = conexao[c].lidas
      /\ x.volta = conexao[c].volta /\ x.acks = conexao[c].acks
      /\ x.finalizou = conexao[c].finalizou
  BY <1>2 DEF Registro
<1> HIDE DEF x
<1>5. conexao' \in [Conexoes -> Registro]
  BY <1>1, <1>2, <1>3
<1>6. \A d \in Conexoes : conexao'[d] = IF d = c THEN x ELSE conexao[d]
  BY <1>1, <1>2
<1>7. TypeOK'
  BY <1>1, <1>2, <1>3, <1>5, <1>6 DEF TypeOK
<1>8. socket # 0 => socket \in Conexoes
  BY <1>2, InterfaceAssumption DEF TypeOK, Conexoes
<1>9. UmaDeCadaVez'
  BY <1>1, <1>4, <1>6, <1>8
     DEF IndInterface, UmaDeCadaVez, Respostas, EsperaForcar
<1> QED BY <1>7, <1>9 DEF IndInterface

\* A request is written, on a socket that may not be open any more.
LEMMA EscrevePreserva ==
  ASSUME IndInterface, NEW p \in Pedidos, Escreve(p), canSend,
         canSend' \in BOOLEAN, p = "FORCAR" => ~canSend',
         pedidos' \in 0..MaxPedidos,
         UNCHANGED <<ui, connected, connectionTrials, socket, connectTimer,
                     reconnectTimer, fechar, servico, fila, quedas>>
  PROVE  IndInterface'
<1>1. TypeOK /\ conexao \in [Conexoes -> Registro]
  BY DEF IndInterface, TypeOK
<1>2. socket # 0 => socket \in Conexoes
  BY <1>1, InterfaceAssumption DEF TypeOK, Conexoes
<1>3. lastDataWritten' = p
  BY DEF Escreve
<1>4. CASE ~(socket # 0 /\ Ligada(socket))
  <2>1. conexao' = conexao
    BY <1>4 DEF Escreve
  <2>2. TypeOK'
    BY <2>1, <1>1, <1>3 DEF TypeOK
  <2>3. UmaDeCadaVez'
    BY <2>1, <1>3 DEF IndInterface, UmaDeCadaVez, Respostas, EsperaForcar
  <2> QED BY <2>2, <2>3 DEF IndInterface
<1>5. CASE socket # 0 /\ Ligada(socket)
  <2> DEFINE y == conexao[socket]
             x == [y EXCEPT !.ida = Append(@, p)]
  <2>1. y \in Registro /\ y.ida \in Seq(Pedidos) /\ socket \in Conexoes
    BY <1>1, <1>2, <1>5 DEF Registro
  <2>2. /\ Append(y.ida, p) \in Seq(Pedidos)
        /\ Len(Append(y.ida, p)) = Len(y.ida) + 1
        /\ y.ida = <<>> => Append(y.ida, p)[1] = p /\ Len(y.ida) = 0
        /\ y.ida # <<>> => Append(y.ida, p)[1] = y.ida[1]
    BY <2>1
  <2>3. /\ x \in Registro /\ x.ida = Append(y.ida, p)
        /\ x.estado = y.estado /\ x.lidas = y.lidas /\ x.volta = y.volta
        /\ x.acks = y.acks /\ x.finalizou = y.finalizou
    BY <2>1, <2>2 DEF Registro
  <2>4. conexao' = [conexao EXCEPT ![socket] = x]
    BY <1>5 DEF Escreve
  <2> HIDE DEF x
  <2>5. /\ conexao' \in [Conexoes -> Registro]
        /\ \A d \in Conexoes : conexao'[d] = IF d = socket THEN x ELSE conexao[d]
    BY <1>1, <2>1, <2>3, <2>4
  <2>6. TypeOK'
    BY <1>1, <1>3, <2>3, <2>5 DEF TypeOK
  <2>7. ASSUME ~x.finalizou
        PROVE  /\ x.lidas = <<>>
               /\ Respostas(x) = 0
               /\ x.ida # <<>> /\ x.ida[1] = "FORCAR" =>
                    Len(x.ida) = 1 /\ ~canSend' /\ p = "FORCAR"
    <3>1. ~y.finalizou /\ socket # 0
      BY <2>3, <2>7, <1>5
    <3>2. /\ y.lidas = <<>> /\ Respostas(y) <= 1 /\ ~(Respostas(y) > 0)
          /\ ~(y.ida # <<>> /\ y.ida[1] = "FORCAR")
      BY <3>1 DEF IndInterface, UmaDeCadaVez, EsperaForcar
    <3>3. Respostas(x) = 0
      BY <2>1, <2>3, <3>2 DEF Respostas, Registro
    <3>4. x.ida[1] = "FORCAR" => y.ida = <<>> /\ p = "FORCAR" /\ Len(x.ida) = 1
      BY <2>2, <2>3, <3>2
    <3> QED BY <2>3, <3>2, <3>3, <3>4
  <2>8. UmaDeCadaVez'
    BY <2>1, <2>5, <2>7, <1>3 DEF UmaDeCadaVez, EsperaForcar
  <2> QED BY <2>6, <2>8 DEF IndInterface
<1> QED BY <1>4, <1>5

\* ACKs arrive, and one of the current socket's may be read.
LEMMA LeituraPreserva ==
  ASSUME IndInterface, NEW c \in Conexoes, on_readyRead(c)
  PROVE  /\ IndInterface'
         /\ fechar' /\ ~fechar => conexao[socket].finalizou
<1>1. TypeOK /\ conexao \in [Conexoes -> Registro]
  BY DEF IndInterface, TypeOK
<1>2. socket # 0 => socket \in Conexoes
  BY <1>1, InterfaceAssumption DEF TypeOK, Conexoes
<1>3. UNCHANGED <<ui, connected, connectionTrials, lastDataWritten, socket,
                  connectTimer, reconnectTimer, servico, fila, pedidos, quedas>>
  BY DEF on_readyRead, servVars
<1> DEFINE Chegou(k) == [conexao EXCEPT ![c].volta = @ - k, ![c].acks = @ + k]
           Leu(k) == socket # 0 /\ TemLinha(Chegou(k)[socket])
<1>4. PICK k \in 1..conexao[c].volta :
        /\ conexao' = IF Leu(k) THEN [Chegou(k) EXCEPT ![socket].acks = @ - 1]
                                ELSE Chegou(k)
        /\ canSend' = (canSend \/ Leu(k))
        /\ fechar' = (fechar \/ (Leu(k) /\ lastDataWritten = "FINALIZAR"))
  BY DEF on_readyRead
<1> DEFINE a == Chegou(k)
           Mesmas(x, y) == /\ x.estado = y.estado /\ x.ida = y.ida
                           /\ x.lidas = y.lidas /\ x.finalizou = y.finalizou
<1>5. /\ a \in [Conexoes -> Registro]
      /\ \A d \in Conexoes : /\ Mesmas(a[d], conexao[d])
                             /\ Respostas(a[d]) = Respostas(conexao[d])
  <2>1. k \in Nat /\ k <= conexao[c].volta /\ conexao[c].volta \in Nat
    BY <1>1 DEF Registro
  <2> DEFINE x == [conexao[c] EXCEPT !.volta = @ - k, !.acks = @ + k]
  <2>2. /\ x \in Registro /\ Mesmas(x, conexao[c])
        /\ Respostas(x) = Respostas(conexao[c])
    <3> DEFINE y == conexao[c]
    <3>1. y \in Registro /\ y.acks \in Nat
      BY <1>1 DEF Registro
    <3>2. y.volta - k \in Nat /\ y.acks + k \in Nat
      BY <2>1, <3>1
    <3>3. x \in Registro
      BY <3>1, <3>2 DEF Registro
    <3>4. x.volta = y.volta - k /\ x.acks = y.acks + k /\ Mesmas(x, y)
      BY <3>1 DEF Registro
    <3>5. Respostas(x) = Respostas(y)
      <4> HIDE DEF x, y
      <4> QED BY <2>1, <3>1, <3>4 DEF Respostas, y
    <3> QED BY <3>3, <3>4, <3>5
  <2>3. a = [conexao EXCEPT ![c] = x]
    BY <1>1 DEF Registro
  <2> HIDE DEF x, a
  <2> QED BY <1>1, <2>2, <2>3
<1>6. /\ conexao' \in [Conexoes -> Registro]
      /\ \A d \in Conexoes : Mesmas(conexao'[d], conexao[d])
      /\ Leu(k) => /\ Respostas(conexao'[socket]) = Respostas(conexao[socket]) - 1
                   /\ Respostas(conexao[socket]) > 0
      /\ ~Leu(k) => \A d \in Conexoes : Respostas(conexao'[d]) = Respostas(conexao[d])
  <2>1. CASE Leu(k)
    <3> DEFINE x == [a[socket] EXCEPT !.acks = @ - 1]
    <3>1. socket \in Conexoes /\ a[socket].acks > 0 /\ a[socket] \in Registro
      BY <2>1, <1>2, <1>5 DEF TemLinha
    <3>2. conexao' = [a EXCEPT ![socket] = x]
      BY <2>1, <1>4
    <3> HIDE DEF a
    <3>3. /\ x \in Registro /\ Mesmas(x, a[socket])
          /\ Respostas(x) = Respostas(a[socket]) - 1
          /\ Respostas(a[socket]) > 0
      BY <3>1 DEF Registro, Respostas
    <3> HIDE DEF x
    <3> QED BY <2>1, <1>5, <3>1, <3>2, <3>3
  <2>2. CASE ~Leu(k)
    <3>1. conexao' = a
      BY <2>2, <1>4
    <3> HIDE DEF a
    <3> QED BY <2>2, <3>1, <1>5
  <2> QED BY <2>1, <2>2
<1> HIDE DEF Leu, Chegou
<1>7. canSend' \in BOOLEAN /\ fechar' \in BOOLEAN
  BY <1>4
<1>8. TypeOK'
  BY <1>1, <1>3, <1>6, <1>7 DEF TypeOK
<1>9. UmaDeCadaVez'
  <2> SUFFICES ASSUME socket # 0, ~conexao'[socket].finalizou
               PROVE  LET x == conexao'[socket]
                      IN  /\ x.lidas = <<>>
                          /\ Respostas(x) <= 1
                          /\ Respostas(x) > 0 => x.ida = <<>> /\ EsperaForcar'
                          /\ x.ida # <<>> /\ x.ida[1] = "FORCAR"
                               => Len(x.ida) = 1 /\ EsperaForcar'
    BY <1>3 DEF UmaDeCadaVez
  <2>1. Mesmas(conexao'[socket], conexao[socket]) /\ ~conexao[socket].finalizou
    BY <1>2, <1>6
  <2>2. LET x == conexao[socket]
        IN  /\ x.lidas = <<>>
            /\ Respostas(x) <= 1
            /\ Respostas(x) > 0 => x.ida = <<>> /\ EsperaForcar
            /\ x.ida # <<>> /\ x.ida[1] = "FORCAR" => Len(x.ida) = 1 /\ EsperaForcar
    BY <2>1 DEF IndInterface, UmaDeCadaVez
  <2>3. CASE Leu(k)
    <3>1. Respostas(conexao[socket]) \in Nat
      BY <1>1, <1>2 DEF Registro, Respostas
    <3>2. conexao[socket].ida = <<>> /\ Respostas(conexao'[socket]) = 0
      BY <2>2, <2>3, <1>6, <3>1
    <3> QED BY <2>1, <2>2, <3>2
  <2>4. CASE ~Leu(k)
    <3>1. Respostas(conexao'[socket]) = Respostas(conexao[socket])
      BY <2>4, <1>2, <1>6
    <3>2. canSend' = canSend
      BY <2>4, <1>4, <1>1 DEF TypeOK
    <3> QED BY <2>1, <2>2, <3>1, <3>2, <1>3 DEF EsperaForcar
  <2> QED BY <2>3, <2>4
<1>10. ASSUME fechar', ~fechar PROVE conexao[socket].finalizou
  <2>1. Leu(k) /\ lastDataWritten = "FINALIZAR" /\ socket # 0
    BY <1>4, <1>10 DEF Leu
  <2>2. Respostas(conexao[socket]) > 0
    BY <2>1, <1>6
  <2> QED BY <2>1, <2>2 DEF IndInterface, UmaDeCadaVez, EsperaForcar
<1> QED BY <1>8, <1>9, <1>10 DEF IndInterface

\* The interface's process ends.
LEMMA FimDaUiPreserva == ASSUME IndInterface, on_finalizar PROVE IndInterface'
<1>1. TypeOK /\ conexao \in [Conexoes -> Registro]
  BY DEF IndInterface, TypeOK
<1>2. PICK n \in [Conexoes -> 0..MaxPedidos] :
        /\ \A c \in Conexoes : n[c] <= Len(conexao[c].ida)
        /\ conexao' = [c \in Conexoes |-> FechaUi(conexao[c], n[c])]
  BY DEF on_finalizar
<1>3. ASSUME NEW c \in Conexoes
      PROVE  /\ FechaUi(conexao[c], n[c]) \in Registro
             /\ conexao[c].estado \in {"livre", "servicoFechou"} =>
                  FechaUi(conexao[c], n[c]).estado = "livre"
  <2>1. n[c] \in Nat /\ n[c] <= Len(conexao[c].ida)
    BY <1>2, InterfaceAssumption
  <2> QED BY <1>1, <2>1, FechaUiTipo
<1>4. /\ conexao' \in [Conexoes -> Registro]
      /\ \A c \in Conexoes : conexao[c].estado \in {"livre", "servicoFechou"} =>
                               conexao'[c].estado \in {"livre", "servicoFechou"}
  BY <1>2, <1>3
<1>5. /\ ui' = "fora" /\ connected' = FALSE /\ canSend' = FALSE
      /\ connectionTrials' = 0 /\ lastDataWritten' = "nada" /\ socket' = 0
      /\ connectTimer' = FALSE /\ reconnectTimer' = FALSE /\ fechar' = FALSE
      /\ UNCHANGED <<servico, fila, pedidos, quedas>>
  BY DEF on_finalizar, servVars
<1>6. connectionTrials' \in 0..(MaxTentativas + 1) /\ socket' \in 0..MaxConexoes
  BY <1>5, InterfaceAssumption
<1>7. TypeOK'
  BY <1>1, <1>4, <1>5, <1>6 DEF TypeOK
<1>8. UmaDeCadaVez'
  BY <1>5 DEF UmaDeCadaVez
<1> QED BY <1>7, <1>8 DEF IndInterface

\* A connection gets its thread.
LEMMA AceitaPreserva ==
  ASSUME IndInterface, NEW c \in Conexoes, incomingConnection(c)
  PROVE  IndInterface'
<1> DEFINE x == [conexao[c] EXCEPT !.estado = "aberta"]
<1>1. /\ conexao' = [conexao EXCEPT ![c] = x] /\ servico = "roda"
      /\ UNCHANGED <<uiVars, servVars, pedidos, quedas>>
  BY DEF incomingConnection
<1>2. TypeOK /\ conexao \in [Conexoes -> Registro]
  BY DEF IndInterface, TypeOK
<1>3. x \in Registro
  BY <1>2 DEF Registro, Estados
<1>4. /\ x.ida = conexao[c].ida /\ x.lidas = conexao[c].lidas
      /\ x.volta = conexao[c].volta /\ x.acks = conexao[c].acks
      /\ x.finalizou = conexao[c].finalizou
  BY <1>2 DEF Registro
<1> HIDE DEF x
<1>5. /\ conexao' \in [Conexoes -> Registro]
      /\ \A d \in Conexoes : conexao'[d] = IF d = c THEN x ELSE conexao[d]
  BY <1>1, <1>2, <1>3
<1>6. TypeOK'
  BY <1>1, <1>2, <1>5 DEF TypeOK, uiVars, servVars
<1>7. socket # 0 => socket \in Conexoes
  BY <1>2, InterfaceAssumption DEF TypeOK, Conexoes
<1>8. UmaDeCadaVez'
  BY <1>1, <1>4, <1>5, <1>7
     DEF IndInterface, UmaDeCadaVez, Respostas, EsperaForcar, uiVars
<1> QED BY <1>6, <1>8 DEF IndInterface

\* The service reads a request, answers it and queues its slot.
LEMMA AtendePreserva ==
  ASSUME IndInterface, NEW c \in Conexoes, readyRead(c)
  PROVE  IndInterface'
<1> DEFINE x == conexao[c]
<1>1. TypeOK /\ conexao \in [Conexoes -> Registro] /\ x \in Registro
  BY DEF IndInterface, TypeOK
<1>2. /\ x.estado \in {"aberta", "uiFechou"}
      /\ UNCHANGED <<uiVars, servico, pedidos, quedas>>
  BY DEF readyRead
<1> DEFINE Tem(k) == x.lidas \o SubSeq(x.ida, 1, k)
           Y(k) == [x EXCEPT !.ida = SubSeq(x.ida, k + 1, Len(x.ida)),
                             !.lidas = Tail(Tem(k)),
                             !.volta = IF x.estado = "aberta" THEN @ + 1 ELSE @,
                             !.finalizou = @ \/ Head(Tem(k)) = "FINALIZAR"]
<1>3. PICK k \in 1..Len(x.ida) :
        /\ conexao' = [conexao EXCEPT ![c] = Y(k)]
        /\ fila' = Append(fila, Head(Tem(k)))
  BY DEF readyRead
<1> DEFINE tem == Tem(k)  resto == SubSeq(x.ida, k + 1, Len(x.ida))  y == Y(k)
<1>4. x.ida \in Seq(Pedidos) /\ x.lidas \in Seq(Pedidos)
      /\ x.volta \in Nat /\ x.acks \in Nat /\ x.finalizou \in BOOLEAN
  BY <1>1 DEF Registro
<1>5. /\ resto \in Seq(Pedidos) /\ Head(tem) \in Pedidos /\ Tail(tem) \in Seq(Pedidos)
      /\ x.lidas = <<>> => Head(tem) = x.ida[1]
      /\ x.lidas = <<>> /\ Len(x.ida) = 1 => Tail(tem) = <<>> /\ resto = <<>>
  <2> DEFINE s == x.ida  l == x.lidas
  <2>1. s \in Seq(Pedidos) /\ l \in Seq(Pedidos) /\ k \in 1..Len(s)
    BY <1>3, <1>4
  <2> HIDE DEF s, l
  <2>2. /\ SubSeq(s, k + 1, Len(s)) \in Seq(Pedidos)
        /\ Head(l \o SubSeq(s, 1, k)) \in Pedidos
        /\ Tail(l \o SubSeq(s, 1, k)) \in Seq(Pedidos)
        /\ l = <<>> => Head(l \o SubSeq(s, 1, k)) = s[1]
        /\ l = <<>> /\ Len(s) = 1 =>
             Tail(l \o SubSeq(s, 1, k)) = <<>> /\ SubSeq(s, k + 1, Len(s)) = <<>>
    BY <2>1, LeUma, Zenon
  <2> QED BY <2>2 DEF s, l
<1> HIDE DEF Tem
<1>6. /\ y \in Registro /\ y.ida = resto /\ y.lidas = Tail(tem)
      /\ y.acks = x.acks /\ y.volta \in {x.volta, x.volta + 1}
      /\ y.estado = x.estado
      /\ y.finalizou = (x.finalizou \/ Head(tem) = "FINALIZAR")
  <2> DEFINE v == IF x.estado = "aberta" THEN x.volta + 1 ELSE x.volta
             f == x.finalizou \/ Head(tem) = "FINALIZAR"
  <2>1. v \in Nat /\ v \in {x.volta, x.volta + 1} /\ f \in BOOLEAN
    BY <1>4
  <2>2. y = [x EXCEPT !.ida = resto, !.lidas = Tail(tem), !.volta = v, !.finalizou = f]
    OBVIOUS
  <2> HIDE DEF v, f, y, tem, resto, x
  <2> QED BY <1>1, <1>5, <2>1, <2>2 DEF Registro, f
<1> HIDE DEF y, tem, resto
<1>7. /\ conexao' \in [Conexoes -> Registro]
      /\ \A d \in Conexoes : conexao'[d] = IF d = c THEN y ELSE conexao[d]
  BY <1>1, <1>3, <1>6 DEF y
<1>8. fila' \in Seq(Pedidos)
  <2>1. fila' = Append(fila, Head(tem)) /\ fila \in Seq(Pedidos)
    BY <1>1, <1>3 DEF tem, TypeOK
  <2> QED BY <2>1, <1>5
<1>9. servico # "fora"
  BY <1>1, <1>2 DEF TypeOK
<1>10. TypeOK'
  BY <1>1, <1>2, <1>7, <1>8, <1>9 DEF TypeOK, uiVars
<1>11. UmaDeCadaVez'
  <2>1. CASE socket # c
    <3>1. socket # 0 => socket \in Conexoes /\ conexao'[socket] = conexao[socket]
      BY <2>1, <1>1, <1>7, InterfaceAssumption DEF TypeOK, Conexoes
    <3> QED BY <3>1, <1>2
         DEF IndInterface, UmaDeCadaVez, EsperaForcar, uiVars
  <2>2. CASE socket = c
    <3> SUFFICES ASSUME c # 0, ~y.finalizou
                 PROVE  /\ y.lidas = <<>> /\ Respostas(y) <= 1 /\ y.ida = <<>>
                        /\ EsperaForcar'
      BY <2>2, <1>2, <1>7 DEF UmaDeCadaVez, uiVars
    <3>1. ~x.finalizou /\ Head(tem) # "FINALIZAR"
      BY <1>4, <1>6
    <3>2. /\ x.lidas = <<>> /\ x.ida # <<>> /\ Respostas(x) = 0
          /\ x.ida[1] = "FORCAR" /\ Len(x.ida) = 1 /\ EsperaForcar
      <4>1. /\ x.lidas = <<>> /\ Respostas(x) <= 1
            /\ Respostas(x) > 0 => x.ida = <<>>
            /\ x.ida # <<>> /\ x.ida[1] = "FORCAR" => Len(x.ida) = 1 /\ EsperaForcar
        BY <2>2, <3>1 DEF IndInterface, UmaDeCadaVez
      <4>2. x.ida # <<>> /\ Respostas(x) \in Nat
        BY <1>3, <1>4 DEF Respostas
      <4>3. x.ida[1] = "FORCAR"
        BY <4>1, <1>5, <3>1 DEF Pedidos
      <4> HIDE DEF x
      <4> QED BY <4>1, <4>2, <4>3
    <3>3. Respostas(y) <= 1
      <4> HIDE DEF x
      <4> QED BY <1>4, <1>6, <3>2 DEF Respostas
    <3>4. EsperaForcar'
      BY <3>2, <1>2 DEF EsperaForcar, uiVars
    <3> QED BY <1>5, <1>6, <3>2, <3>3, <3>4
  <2> QED BY <2>1, <2>2
<1> QED BY <1>10, <1>11 DEF IndInterface

\* The thread of a connection ends.
LEMMA FimDoFioPreserva ==
  ASSUME IndInterface, NEW c \in Conexoes, disconnected(c)
  PROVE  IndInterface'
<1>1. /\ conexao' = [conexao EXCEPT ![c] = Nova]
      /\ UNCHANGED <<uiVars, servVars, pedidos, quedas>>
  BY DEF disconnected
<1>2. TypeOK /\ conexao \in [Conexoes -> Registro]
  BY DEF IndInterface, TypeOK
<1>3. /\ Nova.estado = "livre" /\ Nova.ida = <<>> /\ Nova.lidas = <<>>
      /\ Nova.volta = 0 /\ Nova.acks = 0
  BY DEF Nova
<1>4. /\ conexao' \in [Conexoes -> Registro]
      /\ \A d \in Conexoes : conexao'[d] = IF d = c THEN Nova ELSE conexao[d]
  BY <1>1, <1>2, NovaTipo
<1>5. TypeOK'
  BY <1>1, <1>2, <1>3, <1>4 DEF TypeOK, uiVars, servVars
<1>6. socket # 0 => socket \in Conexoes
  BY <1>2, InterfaceAssumption DEF TypeOK, Conexoes
<1>7. CASE socket = c
  <2>1. UmaDeCadaVez'
    BY <1>1, <1>3, <1>4, <1>7 DEF UmaDeCadaVez, Respostas, uiVars
  <2> QED BY <1>5, <2>1 DEF IndInterface
<1>8. CASE socket # c
  <2>1. UmaDeCadaVez'
    BY <1>1, <1>4, <1>6, <1>8 DEF IndInterface, UmaDeCadaVez, EsperaForcar, uiVars
  <2> QED BY <1>5, <2>1 DEF IndInterface
<1> QED BY <1>7, <1>8

\* The service's process ends.
LEMMA FimDoServicoPreserva ==
  ASSUME IndInterface, Termina, UNCHANGED pedidos, quedas' \in 0..MaxQuedas
  PROVE  IndInterface'
<1>1. TypeOK /\ conexao \in [Conexoes -> Registro]
  BY DEF IndInterface, TypeOK
<1>2. /\ servico' = "fora" /\ fila' = <<>> /\ UNCHANGED uiVars
  BY DEF Termina
<1>3. PICK n \in [Conexoes -> 0..MaxPedidos] :
        /\ \A c \in Conexoes : n[c] <= conexao[c].volta
        /\ conexao' = [c \in Conexoes |-> FechaServico(conexao[c], n[c])]
  BY DEF Termina
<1>4. ASSUME NEW c \in Conexoes
      PROVE  /\ FechaServico(conexao[c], n[c]) \in Registro
             /\ FechaServico(conexao[c], n[c]).estado \in {"livre", "servicoFechou"}
  <2>1. n[c] \in Nat
    BY InterfaceAssumption
  <2> QED BY <1>1, <2>1, FechaServicoTipo
<1>5. /\ conexao' \in [Conexoes -> Registro]
      /\ \A c \in Conexoes : conexao'[c].estado \in {"livre", "servicoFechou"}
  BY <1>3, <1>4
<1>6. TypeOK'
  <2>1. fila' \in Seq(Pedidos)
    BY <1>2
  <2> QED BY <1>1, <1>2, <1>5, <2>1 DEF TypeOK, uiVars
<1>7. UmaDeCadaVez'
  <2> SUFFICES ASSUME socket # 0, ~conexao'[socket].finalizou
               PROVE  LET x == conexao'[socket]
                      IN  /\ x.lidas = <<>>
                          /\ Respostas(x) <= 1
                          /\ Respostas(x) > 0 => x.ida = <<>> /\ EsperaForcar
                          /\ x.ida # <<>> /\ x.ida[1] = "FORCAR"
                               => Len(x.ida) = 1 /\ EsperaForcar
    BY <1>2 DEF UmaDeCadaVez, EsperaForcar, uiVars
  <2> DEFINE x == conexao[socket]
  <2>1. /\ x \in Registro /\ n[socket] \in Nat /\ n[socket] <= x.volta
        /\ conexao'[socket] = FechaServico(x, n[socket])
    BY <1>1, <1>3, InterfaceAssumption DEF TypeOK, Conexoes
  <2>2. CASE x.estado \in {"espera", "aberta"}
    <3> DEFINE y == conexao'[socket]
    <3>1. /\ y.ida = <<>> /\ y.lidas = <<>> /\ y.volta = n[socket]
          /\ y.acks = x.acks /\ y.finalizou = x.finalizou
      BY <2>1, <2>2 DEF FechaServico, Registro
    <3>2. ~x.finalizou
      BY <3>1
    <3>3. Respostas(x) <= 1 /\ (Respostas(x) > 0 => EsperaForcar)
      BY <3>2 DEF IndInterface, UmaDeCadaVez
    <3>4. Respostas(y) <= Respostas(x) /\ Respostas(x) \in Nat /\ Respostas(y) \in Nat
      <4>1. x.volta \in Nat /\ x.acks \in Nat
        BY <2>1 DEF Registro
      <4> HIDE DEF x, y
      <4> QED BY <2>1, <3>1, <4>1 DEF Respostas
    <3> HIDE DEF x, y
    <3>5. Respostas(y) <= 1 /\ (Respostas(y) > 0 => EsperaForcar)
      BY <3>3, <3>4
    <3> QED BY <3>1, <3>5 DEF y
  <2>3. CASE x.estado = "uiFechou"
    <3>1. conexao'[socket] = Nova
      BY <2>1, <2>3 DEF FechaServico
    <3> QED BY <3>1 DEF Nova, Respostas
  <2>4. CASE x.estado \notin {"espera", "aberta", "uiFechou"}
    <3>1. conexao'[socket] = conexao[socket]
      BY <2>1, <2>4 DEF FechaServico
    <3> QED BY <3>1 DEF IndInterface, UmaDeCadaVez
  <2> QED BY <2>2, <2>3, <2>4
<1> QED BY <1>6, <1>7 DEF IndInterface

\* Every step preserves the invariant.
LEMMA InterfacePreservada == IndInterface /\ [Next]_vars => IndInterface'
<1> SUFFICES ASSUME IndInterface, [Next]_vars PROVE IndInterface'
  OBVIOUS
<1>t. TypeOK
  BY DEF IndInterface
<1>1. CASE IniciaUi
  BY <1>1, ConexaoPreserva DEF IniciaUi, servVars
<1>2. CASE Reconecta
  BY <1>2, <1>t, ConexaoPreserva DEF Reconecta, servVars, TypeOK
<1>3. CASE on_forcarClicked
  <2>1. pedidos' \in 0..MaxPedidos
    BY <1>3, <1>t, InterfaceAssumption DEF on_forcarClicked, Clica, TypeOK
  <2>2. canSend /\ canSend' = FALSE
    BY <1>3 DEF on_forcarClicked, PedeForcar
  <2>3. UNCHANGED <<ui, connected, connectionTrials, socket, connectTimer,
                    reconnectTimer, fechar, servico, fila, quedas>>
    BY <1>3 DEF on_forcarClicked, servVars
  <2>4. CASE connected
    <3>1. Escreve("FORCAR") /\ "FORCAR" \in Pedidos
      BY <1>3, <2>4 DEF on_forcarClicked, PedeForcar, Pedidos
    <3> QED BY <2>1, <2>2, <2>3, <3>1, EscrevePreserva
  <2>5. CASE ~connected
    <3>1. UNCHANGED <<lastDataWritten, conexao>>
      BY <1>3, <2>5 DEF on_forcarClicked, PedeForcar
    <3>2. TypeOK'
      BY <2>1, <2>2, <2>3, <3>1, <1>t DEF TypeOK
    <3>3. UmaDeCadaVez'
      BY <2>2, <2>3, <3>1 DEF IndInterface, UmaDeCadaVez, EsperaForcar
    <3> QED BY <3>2, <3>3 DEF IndInterface
  <2> QED BY <2>4, <2>5
<1>4. CASE on_finalizarClicked
  <2>1. pedidos' \in 0..MaxPedidos
    BY <1>4, <1>t, InterfaceAssumption DEF on_finalizarClicked, Clica, TypeOK
  <2>2. UNCHANGED <<ui, connected, connectionTrials, socket, connectTimer,
                    reconnectTimer, servico, fila, quedas>>
    BY <1>4 DEF on_finalizarClicked, servVars
  <2>3. CASE canSend /\ connected
    <3>1. /\ Escreve("FINALIZAR") /\ "FINALIZAR" \in Pedidos
          /\ UNCHANGED <<canSend, fechar>>
      BY <1>4, <2>3 DEF on_finalizarClicked, Pedidos
    <3>2. canSend' \in BOOLEAN
      BY <3>1, <1>t DEF TypeOK
    <3> QED BY <2>1, <2>2, <2>3, <3>1, <3>2, EscrevePreserva
  <2>4. CASE ~(canSend /\ connected)
    <3>1. /\ canSend' = FALSE /\ fechar' = TRUE
          /\ UNCHANGED <<lastDataWritten, conexao>>
      BY <1>4, <2>4 DEF on_finalizarClicked
    <3>2. TypeOK'
      BY <2>1, <2>2, <3>1, <1>t DEF TypeOK
    <3>3. UmaDeCadaVez'
      BY <2>2, <3>1 DEF IndInterface, UmaDeCadaVez, EsperaForcar
    <3> QED BY <3>2, <3>3 DEF IndInterface
  <2> QED BY <2>3, <2>4
<1>5. CASE on_finalizar
  BY <1>5, FimDaUiPreserva
<1>6. ASSUME NEW c \in Conexoes, Desliga(c) \/ on_readyRead(c) PROVE IndInterface'
  BY <1>6, DesligaPreserva, LeituraPreserva
<1>7. CASE ExecutaFila
  <2>1. /\ UNCHANGED <<uiVars, conexao, pedidos, quedas>>
        /\ fila # <<>> /\ fila' = Tail(fila) /\ servico' \in {"saindo", "roda"}
    BY <1>7 DEF ExecutaFila
  <2>2. fila' \in Seq(Pedidos) /\ servico' # "fora"
    BY <2>1, <1>t DEF TypeOK
  <2>3. TypeOK'
    BY <2>1, <2>2, <1>t DEF TypeOK, uiVars
  <2>4. UmaDeCadaVez'
    BY <2>1 DEF IndInterface, UmaDeCadaVez, EsperaForcar, uiVars
  <2> QED BY <2>3, <2>4 DEF IndInterface
<1>8. CASE ServicoSai \/ ServicoCai
  <2>1. Termina /\ UNCHANGED pedidos /\ quedas' \in 0..MaxQuedas
    BY <1>8, <1>t, InterfaceAssumption DEF ServicoSai, ServicoCai, TypeOK
  <2> QED BY <2>1, FimDoServicoPreserva
<1>9. CASE IniciaServico
  <2>1. /\ servico' = "roda" /\ ui' \in {"partindo", ui}
        /\ UNCHANGED <<connected, canSend, connectionTrials, lastDataWritten, socket,
                       connectTimer, reconnectTimer, fechar, conexao, fila, pedidos,
                       quedas>>
    BY <1>9 DEF IniciaServico
  <2>2. TypeOK'
    BY <2>1, <1>t DEF TypeOK
  <2>3. UmaDeCadaVez'
    BY <2>1 DEF IndInterface, UmaDeCadaVez, EsperaForcar
  <2> QED BY <2>2, <2>3 DEF IndInterface
<1>10. ASSUME NEW c \in Conexoes, incomingConnection(c) \/ readyRead(c) \/ disconnected(c)
       PROVE  IndInterface'
  BY <1>10, AceitaPreserva, AtendePreserva, FimDoFioPreserva
<1>11. CASE UNCHANGED vars
  BY <1>11, <1>t
     DEF IndInterface, TypeOK, UmaDeCadaVez, EsperaForcar, vars, uiVars, servVars
<1> QED BY <1>1, <1>2, <1>3, <1>4, <1>5, <1>6, <1>7, <1>8, <1>9, <1>10, <1>11
     DEF Next, PassoUi, PassoServico

\* Processes, connections and queued slots are typed in every behaviour.
THEOREM InterfaceTipada == Spec => []TypeOK
<1>1. IndInterface => TypeOK
  BY DEF IndInterface
<1> QED BY <1>1, InterfaceInicial, InterfacePreservada, PTL DEF Spec

\* An ACK that closes the interface is never the answer to a FORCAR: the service
\* has handled FINALIZAR on that connection.
THEOREM AckProvado == Spec => AckDoFinalizar
<1> DEFINE A == (\E c \in Conexoes : on_readyRead(c)) /\ fechar' /\ ~fechar
                  => conexao[socket].finalizou
<1>1. IndInterface /\ [Next]_vars => [A]_vars
  BY LeituraPreserva
<1> QED BY <1>1, InterfaceInicial, InterfacePreservada, PTL DEF Spec, AckDoFinalizar
-----------------------------------------------------------------------------
(* Nothing is left unread behind the line that the service reads.           *)

\* What the proofs need of one connection.
Boa(x) ==
  ~x.finalizou => /\ x.lidas = <<>>
                  /\ x.ida # <<>> /\ x.ida[1] = "FORCAR" => Len(x.ida) = 1

Iguais(x, y) == x.ida = y.ida /\ x.lidas = y.lidas /\ x.finalizou = y.finalizou

LEMMA LeituraDeCadaUma ==
  ASSUME TypeOK
  PROVE  IndLeitura <=> \A c \in Conexoes : Boa(conexao[c])
<1>1. \A c \in Conexoes : conexao[c].finalizou \in BOOLEAN
  BY DEF TypeOK, Registro
<1> QED BY <1>1 DEF IndLeitura, NadaSemLer, NadaDepoisDeForcar, Boa

\* A step that changes what travels to the service, or what it has read, on some
\* connections only.
LEMMA LeituraMantida ==
  ASSUME TypeOK, TypeOK', IndLeitura,
         \A c \in Conexoes : Iguais(conexao'[c], conexao[c]) \/ Boa(conexao'[c])
  PROVE  IndLeitura'
<1>1. \A c \in Conexoes : Boa(conexao[c])
  BY LeituraDeCadaUma
<1>2. \A c \in Conexoes : Boa(conexao'[c])
  BY <1>1 DEF Iguais, Boa
<1>3. \A c \in Conexoes : conexao'[c].finalizou \in BOOLEAN
  BY DEF TypeOK, Registro
<1> QED BY <1>2, <1>3 DEF IndLeitura, NadaSemLer, NadaDepoisDeForcar, Boa

LEMMA NovaBoa == Boa(Nova) /\ Boa([Nova EXCEPT !.estado = "espera"])
  BY DEF Boa, Nova

\* Only the requests that were sent before the interface ended arrive: nothing
\* follows a FORCAR among them either.
LEMMA FechaUiBoa ==
  ASSUME NEW x \in Registro, NEW n \in Nat, n <= Len(x.ida), Boa(x)
  PROVE  Boa(FechaUi(x, n))
<1> DEFINE s == SubSeq(x.ida, 1, n)
<1>1. CASE x.estado \in {"espera", "aberta"}
  <2> DEFINE y == [x EXCEPT !.estado = "uiFechou", !.ida = s, !.volta = 0, !.acks = 0]
  <2>1. /\ FechaUi(x, n) = y
        /\ y.ida = s /\ y.lidas = x.lidas /\ y.finalizou = x.finalizou
    BY <1>1 DEF FechaUi, Registro
  <2>2. x.ida \in Seq(Pedidos)
    BY DEF Registro
  <2>3. s # <<>> => s[1] = x.ida[1] /\ x.ida # <<>> /\ Len(s) = n /\ n > 0
    <3> DEFINE t == x.ida
    <3> HIDE DEF t
    <3>1. t \in Seq(Pedidos) /\ n <= Len(t)
      BY <2>2 DEF t
    <3>2. /\ SubSeq(t, 1, n) \in Seq(Pedidos)
          /\ Len(SubSeq(t, 1, n)) = IF 1 <= n THEN n - 1 + 1 ELSE 0
          /\ \A i \in 1..(n - 1 + 1) : SubSeq(t, 1, n)[i] = t[1 + i - 1]
      <4>1. \A i \in 1..n : t[i] \in Pedidos
        BY <3>1
      <4> QED BY <3>1, <4>1, SubSeqProperties
    <3>3. CASE n = 0
      <4>1. SubSeq(t, 1, n) = <<>>
        BY <3>2, <3>3, SemElementos
      <4> QED BY <4>1 DEF t
    <3>4. CASE n # 0
      <4>1. /\ SubSeq(t, 1, n)[1] = t[1] /\ Len(SubSeq(t, 1, n)) = n /\ n > 0
            /\ Len(t) > 0
        BY <3>1, <3>2, <3>4
      <4> QED BY <4>1 DEF t
    <3> QED BY <3>3, <3>4
  <2> HIDE DEF y, s
  <2>4. n <= Len(x.ida) /\ Len(x.ida) \in Nat
    BY <2>2
  <2>5. ASSUME ~x.finalizou, s # <<>>, s[1] = "FORCAR" PROVE Len(s) = 1
    <3>1. Len(x.ida) = 1
      BY <2>3, <2>5 DEF Boa
    <3> QED BY <2>3, <2>4, <2>5, <3>1
  <2>6. ~x.finalizou => x.lidas = <<>>
    BY DEF Boa
  <2>7. Boa(y)
    BY <2>1, <2>5, <2>6 DEF Boa
  <2> QED BY <2>1, <2>7
<1>2. CASE x.estado = "servicoFechou"
  BY <1>2, NovaBoa DEF FechaUi
<1>3. CASE x.estado \notin {"espera", "aberta", "servicoFechou"}
  BY <1>3 DEF FechaUi
<1> QED BY <1>1, <1>2, <1>3

LEMMA FechaServicoBoa ==
  ASSUME NEW x \in Registro, NEW n \in Nat, Boa(x)
  PROVE  Boa(FechaServico(x, n))
<1>1. CASE x.estado \in {"espera", "aberta"}
  BY <1>1 DEF FechaServico, Registro, Boa
<1>2. CASE x.estado = "uiFechou"
  BY <1>2, NovaBoa DEF FechaServico
<1>3. CASE x.estado \notin {"espera", "aberta", "uiFechou"}
  BY <1>3 DEF FechaServico
<1> QED BY <1>1, <1>2, <1>3

\* A click writes behind nothing, or behind a FINALIZAR.
LEMMA EscreveBoa ==
  ASSUME IndInterface, IndLeitura, NEW p \in Pedidos, Escreve(p), canSend
  PROVE  \A c \in Conexoes : Iguais(conexao'[c], conexao[c]) \/ Boa(conexao'[c])
<1>1. TypeOK /\ conexao \in [Conexoes -> Registro]
  BY DEF IndInterface, TypeOK
<1>2. CASE ~(socket # 0 /\ Ligada(socket))
  BY <1>2 DEF Escreve, Iguais
<1>3. CASE socket # 0 /\ Ligada(socket)
  <2> DEFINE y == conexao[socket]
             x == [y EXCEPT !.ida = Append(@, p)]
  <2>1. socket \in Conexoes
    BY <1>1, <1>3, InterfaceAssumption DEF TypeOK, Conexoes
  <2>2. y \in Registro /\ y.ida \in Seq(Pedidos)
    BY <1>1, <2>1 DEF Registro
  <2>3. x.ida = Append(y.ida, p) /\ x.lidas = y.lidas /\ x.finalizou = y.finalizou
    BY <2>2 DEF Registro
  <2>4. conexao' = [conexao EXCEPT ![socket] = x]
    BY <1>3 DEF Escreve
  <2> HIDE DEF x
  <2>5. \A c \in Conexoes : conexao'[c] = IF c = socket THEN x ELSE conexao[c]
    BY <1>1, <2>4
  <2>6. Boa(x)
    <3> SUFFICES ASSUME ~x.finalizou
                 PROVE  /\ x.lidas = <<>>
                        /\ x.ida[1] = "FORCAR" => Len(x.ida) = 1
      BY DEF Boa
    <3>1. y.lidas = <<>> /\ ~(y.ida # <<>> /\ y.ida[1] = "FORCAR")
      BY <1>3, <2>3 DEF IndInterface, UmaDeCadaVez, EsperaForcar
    <3>2. CASE y.ida = <<>>
      BY <2>3, <3>1, <3>2
    <3>3. CASE y.ida # <<>>
      <4>1. Append(y.ida, p)[1] = y.ida[1]
        BY <2>2, <3>3
      <4> QED BY <2>3, <3>1, <3>3, <4>1
    <3> QED BY <3>2, <3>3
  <2> QED BY <2>5, <2>6 DEF Iguais
<1> QED BY <1>2, <1>3

\* The answers that arrive in the interface are not what it wrote.
LEMMA RespostasIguais ==
  ASSUME TypeOK, NEW c \in Conexoes, on_readyRead(c)
  PROVE  \A d \in Conexoes : Iguais(conexao'[d], conexao[d])
<1>1. conexao \in [Conexoes -> Registro]
  BY DEF TypeOK
<1> DEFINE Chegou(k) == [conexao EXCEPT ![c].volta = @ - k, ![c].acks = @ + k]
           R == [estado : Estados, ida : Seq(Pedidos), lidas : Seq(Pedidos),
                 volta : Int, acks : Int, finalizou : BOOLEAN]
<1>2. PICK k \in 1..conexao[c].volta :
        conexao' \in {[Chegou(k) EXCEPT ![socket].acks = @ - 1], Chegou(k)}
  BY DEF on_readyRead
<1> DEFINE a == Chegou(k)
<1>3. a \in [Conexoes -> R] /\ \A d \in Conexoes : Iguais(a[d], conexao[d])
  <2>1. k \in Int /\ conexao[c] \in R
    BY <1>1 DEF Registro
  <2> DEFINE x == [conexao[c] EXCEPT !.volta = @ - k, !.acks = @ + k]
  <2>2. x \in R /\ Iguais(x, conexao[c])
    <3> DEFINE y == conexao[c]
    <3>1. y \in R /\ y.volta - k \in Int /\ y.acks + k \in Int
      BY <2>1
    <3> HIDE DEF y
    <3>2. [y EXCEPT !.volta = @ - k, !.acks = @ + k] \in R
      BY <3>1
    <3>3. Iguais([y EXCEPT !.volta = @ - k, !.acks = @ + k], y)
      BY <3>1 DEF Iguais
    <3> QED BY <3>2, <3>3 DEF y
  <2>3. a = [conexao EXCEPT ![c] = x]
    BY <1>1 DEF Registro
  <2>4. \A d \in Conexoes : conexao[d] \in R /\ Iguais(conexao[d], conexao[d])
    BY <1>1 DEF Registro, Iguais
  <2> HIDE DEF x, a, R
  <2>5. \A d \in Conexoes : a[d] = IF d = c THEN x ELSE conexao[d]
    BY <1>1, <2>3
  <2>6. a \in [Conexoes -> R]
    BY <1>1, <2>2, <2>3, <2>4
  <2>7. \A d \in Conexoes : Iguais(a[d], conexao[d])
    BY <2>2, <2>4, <2>5
  <2> QED BY <2>6, <2>7
<1>4. \A d \in Conexoes : Iguais([a EXCEPT ![socket].acks = @ - 1][d], a[d])
  <2> HIDE DEF a
  <2>1. CASE socket \in Conexoes
    <3>1. a[socket] \in R
      BY <1>3, <2>1
    <3>2. Iguais([a[socket] EXCEPT !.acks = @ - 1], a[socket])
      BY <3>1 DEF Iguais
    <3> QED BY <1>3, <3>2 DEF Iguais
  <2>2. CASE socket \notin Conexoes
    BY <1>3, <2>2 DEF Iguais
  <2> QED BY <2>1, <2>2
<1> QED BY <1>2, <1>3, <1>4 DEF Iguais

\* One line is read; nothing came with it unless it is a FINALIZAR.
LEMMA AtendeBoa ==
  ASSUME TypeOK, IndLeitura, NEW c \in Conexoes, readyRead(c)
  PROVE  \A d \in Conexoes : Iguais(conexao'[d], conexao[d]) \/ Boa(conexao'[d])
<1> DEFINE x == conexao[c]
           Tem(k) == x.lidas \o SubSeq(x.ida, 1, k)
           Y(k) == [x EXCEPT !.ida = SubSeq(x.ida, k + 1, Len(x.ida)),
                             !.lidas = Tail(Tem(k)),
                             !.volta = IF x.estado = "aberta" THEN @ + 1 ELSE @,
                             !.finalizou = @ \/ Head(Tem(k)) = "FINALIZAR"]
<1>1. conexao \in [Conexoes -> Registro] /\ x \in Registro
  BY DEF TypeOK
<1>2. PICK k \in 1..Len(x.ida) : conexao' = [conexao EXCEPT ![c] = Y(k)]
  BY DEF readyRead
<1> DEFINE tem == Tem(k)  resto == SubSeq(x.ida, k + 1, Len(x.ida))  y == Y(k)
<1>3. /\ x.ida \in Seq(Pedidos) /\ x.lidas \in Seq(Pedidos)
      /\ x.finalizou \in BOOLEAN
  BY <1>1 DEF Registro
<1>4. /\ Head(tem) \in Pedidos
      /\ x.lidas = <<>> => Head(tem) = x.ida[1]
      /\ x.lidas = <<>> /\ Len(x.ida) = 1 => Tail(tem) = <<>> /\ resto = <<>>
  <2> DEFINE s == x.ida  l == x.lidas
  <2>1. s \in Seq(Pedidos) /\ l \in Seq(Pedidos) /\ k \in 1..Len(s)
    BY <1>2, <1>3
  <2> HIDE DEF s, l
  <2>2. /\ Head(l \o SubSeq(s, 1, k)) \in Pedidos
        /\ l = <<>> => Head(l \o SubSeq(s, 1, k)) = s[1]
        /\ l = <<>> /\ Len(s) = 1 =>
             Tail(l \o SubSeq(s, 1, k)) = <<>> /\ SubSeq(s, k + 1, Len(s)) = <<>>
    BY <2>1, LeUma, Zenon
  <2> QED BY <2>2 DEF s, l
<1>5. x.ida # <<>>
  BY <1>2, <1>3
<1>6. /\ y.ida = resto /\ y.lidas = Tail(tem)
      /\ y.finalizou = (x.finalizou \/ Head(tem) = "FINALIZAR")
  BY <1>1 DEF Registro
<1>7. Boa(x)
  BY LeituraDeCadaUma
<1> HIDE DEF y, tem, resto, x, Tem
<1>8. Boa(y)
  <2> SUFFICES ASSUME ~y.finalizou PROVE y.lidas = <<>> /\ y.ida = <<>>
    BY DEF Boa
  <2>1. ~x.finalizou /\ Head(tem) = "FORCAR"
    BY <1>3, <1>4, <1>6 DEF Pedidos
  <2>2. x.lidas = <<>> /\ Len(x.ida) = 1
    BY <1>4, <1>5, <1>7, <2>1 DEF Boa
  <2> QED BY <1>4, <1>6, <2>2
<1>9. \A d \in Conexoes : d # c => conexao'[d] = conexao[d]
  BY <1>1, <1>2
<1>10. conexao'[c] = y
  BY <1>1, <1>2 DEF y
<1> QED BY <1>8, <1>9, <1>10 DEF Iguais

\* Every step keeps it.
LEMMA LeituraPreservada ==
  ASSUME IndInterface, IndInterface', IndLeitura, [Next]_vars
  PROVE  IndLeitura'
<1>t. TypeOK /\ TypeOK' /\ conexao \in [Conexoes -> Registro]
  BY DEF IndInterface, TypeOK
<1>b. \A c \in Conexoes : conexao[c] \in Registro /\ Boa(conexao[c])
  BY <1>t, LeituraDeCadaUma
<1>1. CASE UNCHANGED conexao
  BY <1>1, <1>t, LeituraMantida DEF Iguais
<1>2. CASE setupSocketConnection
  <2>1. CASE NaoConecta
    BY <2>1, <1>1 DEF NaoConecta
  <2>2. ASSUME NEW c \in Conexoes, Conecta(c) PROVE IndLeitura'
    <3>1. conexao' = [conexao EXCEPT ![c] = [Nova EXCEPT !.estado = "espera"]]
      BY <2>2 DEF Conecta
    <3>2. \A d \in Conexoes : Iguais(conexao'[d], conexao[d]) \/ Boa(conexao'[d])
      BY <3>1, <1>t, NovaBoa DEF Iguais
    <3> QED BY <3>2, <1>t, LeituraMantida
  <2> QED BY <1>2, <2>1, <2>2 DEF setupSocketConnection
<1>3. ASSUME NEW c \in Conexoes, Desliga(c) \/ incomingConnection(c)
      PROVE  IndLeitura'
  <2>1. PICK e \in Estados : conexao' = [conexao EXCEPT ![c].estado = e]
    BY <1>3 DEF Desliga, incomingConnection, Estados
  <2>2. \A d \in Conexoes : Iguais(conexao'[d], conexao[d])
    BY <2>1, <1>t DEF Iguais, Registro
  <2> QED BY <2>2, <1>t, LeituraMantida
<1>4. CASE on_forcarClicked \/ on_finalizarClicked
  <2>1. CASE UNCHANGED conexao
    BY <2>1, <1>1
  <2>2. CASE \E p \in Pedidos : Escreve(p) /\ canSend
    BY <2>2, <1>t, EscreveBoa, LeituraMantida
  <2> QED BY <1>4, <2>1, <2>2
           DEF on_forcarClicked, on_finalizarClicked, PedeForcar, Pedidos
<1>5. ASSUME NEW c \in Conexoes, on_readyRead(c) PROVE IndLeitura'
  BY <1>5, <1>t, RespostasIguais, LeituraMantida
<1>6. ASSUME NEW c \in Conexoes, readyRead(c) PROVE IndLeitura'
  BY <1>6, <1>t, AtendeBoa, LeituraMantida
<1>7. CASE on_finalizar
  <2>1. PICK n \in [Conexoes -> 0..MaxPedidos] :
          /\ \A c \in Conexoes : n[c] <= Len(conexao[c].ida)
          /\ conexao' = [c \in Conexoes |-> FechaUi(conexao[c], n[c])]
    BY <1>7 DEF on_finalizar
  <2>2. ASSUME NEW c \in Conexoes PROVE Boa(conexao'[c])
    <3>1. n[c] \in Nat /\ n[c] <= Len(conexao[c].ida)
      BY <2>1, InterfaceAssumption
    <3> QED BY <1>b, <2>1, <3>1, FechaUiBoa
  <2> QED BY <2>2, <1>t, LeituraMantida
<1>8. CASE Termina
  <2>1. PICK n \in [Conexoes -> 0..MaxPedidos] :
          conexao' = [c \in Conexoes |-> FechaServico(conexao[c], n[c])]
    BY <1>8 DEF Termina
  <2>2. ASSUME NEW c \in Conexoes PROVE Boa(conexao'[c])
    <3>1. n[c] \in Nat
      BY <2>1, InterfaceAssumption
    <3> QED BY <1>b, <2>1, <3>1, FechaServicoBoa
  <2> QED BY <2>2, <1>t, LeituraMantida
<1>9. ASSUME NEW c \in Conexoes, disconnected(c) PROVE IndLeitura'
  <2>1. conexao' = [conexao EXCEPT ![c] = Nova]
    BY <1>9 DEF disconnected
  <2>2. \A d \in Conexoes : Iguais(conexao'[d], conexao[d]) \/ Boa(conexao'[d])
    BY <2>1, <1>t, NovaBoa DEF Iguais
  <2> QED BY <2>2, <1>t, LeituraMantida
<1>10. CASE ExecutaFila \/ IniciaServico \/ UNCHANGED vars
  BY <1>10, <1>1 DEF ExecutaFila, IniciaServico, vars
<1>11. CASE IniciaUi \/ Reconecta \/ ServicoSai \/ ServicoCai
  BY <1>11, <1>2, <1>8 DEF IniciaUi, Reconecta, ServicoSai, ServicoCai
<1> QED BY <1>3, <1>4, <1>5, <1>6, <1>7, <1>9, <1>10, <1>11
     DEF Next, PassoUi, PassoServico

\* On every connection, the current one and those it replaced, the service
\* leaves nothing unread behind the request it answered, until FINALIZAR.
THEOREM LeituraProvada == Spec => []NadaSemLer
<1>1. Init => IndLeitura
  BY DEF Init, Nova, IndLeitura, NadaSemLer, NadaDepoisDeForcar
<1>2. IndInterface /\ IndInterface' /\ IndLeitura /\ [Next]_vars => IndLeitura'
  BY LeituraPreservada
<1>3. IndLeitura => NadaSemLer
  BY DEF IndLeitura
<1> QED BY <1>1, <1>2, <1>3, InterfaceInicial, InterfacePreservada, PTL DEF Spec

-----------------------------------------------------------------------------
(* What a disabled button waits for.                                        *)

\* Connecting again gives the buttons back, or leaves a timer or the end.
LEMMA ConexaoBotao ==
  ASSUME TypeOK, setupSocketConnection, ui' = "viva",
         connectionTrials = 0 \/ connectTimer \/ reconnectTimer
  PROVE  IndBotao'
<1>1. CASE NaoConecta
  <2>1. fechar' \/ connectTimer' \/ reconnectTimer'
    <3> DEFINE P == connectionTrials >= MaxTentativas  Q == connectionTrials < MaxTentativas
               Z == connectionTrials = 0
    <3>1. P \/ Q
      BY InterfaceAssumption DEF TypeOK
    <3>2. /\ connectTimer' = (Z \/ (connectTimer /\ Q))
          /\ reconnectTimer' = (reconnectTimer /\ Q)
          /\ fechar' = (fechar \/ P)
          /\ Z \/ connectTimer \/ reconnectTimer
      BY <1>1 DEF NaoConecta
    <3> HIDE DEF P, Q, Z
    <3> QED BY <3>1, <3>2, Zenon
  <2> QED BY <2>1 DEF IndBotao, BotaoDevido, SocketOuTemporizador, AReconectar
<1>2. ASSUME NEW c \in Conexoes, Conecta(c) PROVE IndBotao'
  <2>1. /\ conexao' = [conexao EXCEPT ![c] = [Nova EXCEPT !.estado = "espera"]]
        /\ socket' = c /\ canSend' = TRUE /\ connected' = TRUE
    BY <1>2 DEF Conecta, on_connected
  <2>2. conexao'[c].estado = "espera" /\ socket' # 0
    BY <2>1 DEF TypeOK, Nova, Conexoes
  <2>3. Ligada(socket)'
    BY <2>1, <2>2 DEF Ligada
  <2> QED BY <2>1, <2>2, <2>3 DEF IndBotao, BotaoDevido, SocketOuTemporizador
<1> QED BY <1>1, <1>2 DEF setupSocketConnection

\* What a step must keep, when it does not change the interface's connection.
LEMMA BotaoMantido ==
  ASSUME IndBotao, UNCHANGED <<ui, connected, connectionTrials, socket>>,
         AReconectar => AReconectar',
         socket # 0 /\ Ligada(socket) => AReconectar' \/ Ligada(socket)',
         ~canSend' => \/ AReconectar'
                      \/ socket # 0 /\ Viaja(conexao'[socket])
                      \/ ~canSend /\ (socket # 0 /\ Viaja(conexao[socket])
                                        => Viaja(conexao'[socket]))
  PROVE  IndBotao'
<1>1. SocketOuTemporizador'
  BY DEF IndBotao, SocketOuTemporizador
<1>2. BotaoDevido'
  BY DEF IndBotao, BotaoDevido
<1> QED BY <1>1, <1>2 DEF IndBotao

\* A step that touches no connection and no timer, nor the buttons.
LEMMA BotaoAlheio ==
  ASSUME IndBotao, UNCHANGED <<ui, connected, canSend, connectionTrials, socket,
                               connectTimer, reconnectTimer, fechar, conexao>>
  PROVE  IndBotao'
<1>1. (AReconectar' <=> AReconectar) /\ (Ligada(socket)' <=> Ligada(socket))
  BY DEF AReconectar, Ligada
<1> QED BY <1>1, BotaoMantido

\* A new state of connections, with the interface as it was.
LEMMA BotaoConexoes ==
  ASSUME TypeOK, IndBotao, UNCHANGED uiVars,
         \A c \in Conexoes :
           /\ conexao[c].estado = "servicoFechou" => conexao'[c].estado = "servicoFechou"
           /\ Ligada(c) => conexao'[c].estado \in {"espera", "aberta", "servicoFechou"}
           /\ Viaja(conexao[c]) => \/ Viaja(conexao'[c])
                                   \/ conexao'[c].estado = "servicoFechou"
  PROVE  IndBotao'
<1>1. socket # 0 => socket \in Conexoes
  BY InterfaceAssumption DEF TypeOK, Conexoes
<1>2. AReconectar => AReconectar'
  BY DEF AReconectar, uiVars
<1>3. (\E c \in Conexoes : conexao'[c].estado = "servicoFechou") => AReconectar'
  BY DEF AReconectar
<1>4. socket # 0 /\ Ligada(socket) => AReconectar' \/ Ligada(socket)'
  BY <1>1, <1>3 DEF Ligada, uiVars
<1> QED BY <1>1, <1>2, <1>3, <1>4, BotaoMantido DEF uiVars

\* A click on FORCAR, on an open socket or with a reason to connect again.
LEMMA ForcarBotao ==
  ASSUME TypeOK, IndBotao, on_forcarClicked
  PROVE  IndBotao'
<1>1. /\ ui = "viva" /\ canSend /\ canSend' = FALSE
      /\ UNCHANGED <<ui, connected, connectionTrials, socket, connectTimer,
                     reconnectTimer, fechar>>
      /\ IF connected THEN Escreve("FORCAR") ELSE UNCHANGED <<lastDataWritten, conexao>>
  BY DEF on_forcarClicked, PedeForcar, Clica
<1>2. socket # 0 => socket \in Conexoes
  BY InterfaceAssumption DEF TypeOK, Conexoes
<1>3. \A c \in Conexoes : conexao'[c].estado = conexao[c].estado
  <2>1. CASE ~(connected /\ socket # 0 /\ Ligada(socket))
    BY <1>1, <2>1 DEF Escreve
  <2>2. CASE connected /\ socket # 0 /\ Ligada(socket)
    <3>1. conexao' = [conexao EXCEPT ![socket].ida = Append(@, "FORCAR")]
      BY <1>1, <2>2 DEF Escreve
    <3> QED BY <3>1, <1>2, <2>2 DEF TypeOK, Registro
  <2> QED BY <2>1, <2>2
<1>4. (AReconectar => AReconectar') /\ (socket # 0 => (Ligada(socket)' <=> Ligada(socket)))
  BY <1>1, <1>2, <1>3 DEF AReconectar, Ligada
<1>5. AReconectar \/ (connected /\ socket # 0 /\ Ligada(socket))
  BY <1>1 DEF IndBotao, SocketOuTemporizador
<1>6. CASE connected /\ socket # 0 /\ Ligada(socket)
  <2>1. /\ conexao' = [conexao EXCEPT ![socket].ida = Append(@, "FORCAR")]
        /\ conexao[socket].ida \in Seq(Pedidos)
    BY <1>1, <1>2, <1>6 DEF Escreve, TypeOK, Registro
  <2>2. Append(conexao[socket].ida, "FORCAR") # <<>>
    <3> DEFINE t == conexao[socket].ida
    <3>1. t \in Seq(Pedidos) /\ "FORCAR" \in Pedidos
      BY <2>1 DEF Pedidos
    <3> HIDE DEF t
    <3>2. Len(Append(t, "FORCAR")) = Len(t) + 1 /\ Len(t) \in Nat
      BY <3>1
    <3>3. Append(t, "FORCAR") # <<>>
      BY <3>2
    <3> QED BY <3>3 DEF t
  <2>3. conexao'[socket].ida # <<>>
    BY <1>2, <1>6, <2>1, <2>2 DEF TypeOK, Registro
  <2>4. Viaja(conexao'[socket])
    BY <1>2, <1>3, <1>6, <2>3 DEF Viaja, Ligada
  <2> QED BY <1>1, <1>4, <1>6, <2>4, BotaoMantido
<1>7. CASE AReconectar
  BY <1>1, <1>4, <1>7, BotaoMantido
<1> QED BY <1>5, <1>6, <1>7

LEMMA FinalizarBotao ==
  ASSUME TypeOK, IndBotao, on_finalizarClicked
  PROVE  IndBotao'
<1>1. /\ ui = "viva"
      /\ UNCHANGED <<ui, connected, connectionTrials, socket, connectTimer,
                     reconnectTimer>>
      /\ \/ canSend /\ Escreve("FINALIZAR") /\ UNCHANGED <<canSend, fechar>>
         \/ fechar'
  BY DEF on_finalizarClicked, Clica
<1>2. socket # 0 => socket \in Conexoes
  BY InterfaceAssumption DEF TypeOK, Conexoes
<1>3. CASE fechar'
  BY <1>1, <1>3 DEF IndBotao, BotaoDevido, SocketOuTemporizador, AReconectar
<1>4. CASE canSend /\ Escreve("FINALIZAR") /\ UNCHANGED <<canSend, fechar>>
  <2>1. \A c \in Conexoes : conexao'[c].estado = conexao[c].estado
    BY <1>4 DEF Escreve, TypeOK, Registro
  <2>2. (AReconectar => AReconectar') /\ (socket # 0 => (Ligada(socket)' <=> Ligada(socket)))
    BY <1>1, <1>2, <1>4, <2>1 DEF AReconectar, Ligada
  <2> QED BY <1>1, <1>4, <2>2, BotaoMantido
<1> QED BY <1>1, <1>3, <1>4

\* Answers that arrive on the current socket enable the buttons; on another one
\* they change nothing of what is awaited.
LEMMA RespostaBotao ==
  ASSUME TypeOK, IndBotao, NEW c \in Conexoes, on_readyRead(c)
  PROVE  IndBotao'
<1>1. conexao \in [Conexoes -> Registro]
  BY DEF TypeOK
<1> DEFINE a(k) == [conexao EXCEPT ![c].volta = @ - k, ![c].acks = @ + k]
           Leu(k) == socket # 0 /\ TemLinha(a(k)[socket])
<1>2. PICK k \in 1..conexao[c].volta :
        /\ conexao' = IF Leu(k) THEN [a(k) EXCEPT ![socket].acks = @ - 1] ELSE a(k)
        /\ canSend' = (canSend \/ Leu(k))
        /\ fechar' = (fechar \/ (Leu(k) /\ lastDataWritten = "FINALIZAR"))
  BY DEF on_readyRead
<1>3. UNCHANGED <<ui, connected, connectionTrials, socket, connectTimer, reconnectTimer>>
  BY DEF on_readyRead
<1>4. socket # 0 => socket \in Conexoes
  BY InterfaceAssumption DEF TypeOK, Conexoes
<1>5. \A d \in Conexoes : conexao'[d].estado = conexao[d].estado
  <2>1. \A d \in Conexoes : a(k)[d].estado = conexao[d].estado
    BY <1>1 DEF Registro
  <2>2. \A d \in Conexoes : [a(k) EXCEPT ![socket].acks = @ - 1][d].estado = a(k)[d].estado
    BY <1>1 DEF Registro
  <2> QED BY <1>2, <2>1, <2>2
<1>6. (AReconectar => AReconectar') /\ (socket # 0 => (Ligada(socket)' <=> Ligada(socket)))
  BY <1>2, <1>3, <1>4, <1>5 DEF AReconectar, Ligada
<1>7. ASSUME ~canSend' PROVE ~canSend /\ (socket # 0 => conexao'[socket] = conexao[socket])
  <2>1. ~canSend /\ ~Leu(k) /\ conexao' = a(k)
    BY <1>2, <1>7
  <2>2. CASE socket # 0 /\ socket = c
    <3>1. conexao[c].acks \in Nat /\ k \in Nat /\ k > 0
      BY <1>1 DEF Registro
    <3>2. a(k)[c].acks = conexao[c].acks + k
      BY <1>1 DEF Registro
    <3> QED BY <2>1, <2>2, <3>1, <3>2 DEF TemLinha
  <2>3. CASE socket # c
    BY <1>1, <1>4, <2>1, <2>3
  <2> QED BY <2>1, <2>2, <2>3
<1> QED BY <1>3, <1>6, <1>7, BotaoMantido

\* The service reads what arrived, and answers at once.
LEMMA AtendeBotao ==
  ASSUME TypeOK, IndBotao, NEW c \in Conexoes, readyRead(c)
  PROVE  IndBotao'
<1>1. conexao \in [Conexoes -> Registro] /\ UNCHANGED uiVars
  BY DEF TypeOK, readyRead
<1> DEFINE x == conexao[c]
           tem(k) == x.lidas \o SubSeq(x.ida, 1, k)
           Y(k) == [x EXCEPT !.ida = SubSeq(x.ida, k + 1, Len(x.ida)),
                             !.lidas = Tail(tem(k)),
                             !.volta = IF x.estado = "aberta" THEN @ + 1 ELSE @,
                             !.finalizou = @ \/ Head(tem(k)) = "FINALIZAR"]
<1>2. PICK y :
        /\ conexao' = [conexao EXCEPT ![c] = y]
        /\ y.estado = conexao[c].estado
        /\ conexao[c].estado = "aberta" => y.volta = conexao[c].volta + 1
  <2>1. PICK k \in 1..Len(x.ida) : conexao' = [conexao EXCEPT ![c] = Y(k)]
    BY DEF readyRead
  <2>2. Y(k).estado = x.estado /\ (x.estado = "aberta" => Y(k).volta = x.volta + 1)
    BY <1>1 DEF Registro
  <2> HIDE DEF Y
  <2> QED BY <2>1, <2>2
<1>3. /\ conexao'[c].estado = conexao[c].estado
      /\ conexao[c].estado \in {"aberta", "uiFechou"}
      /\ conexao[c].estado = "aberta" => conexao'[c].volta > 0
  BY <1>1, <1>2 DEF readyRead, Registro
<1>4. \A d \in Conexoes : d # c => conexao'[d] = conexao[d]
  BY <1>1, <1>2
<1>5. \A d \in Conexoes :
        /\ conexao'[d].estado = conexao[d].estado
        /\ Viaja(conexao[d]) => Viaja(conexao'[d])
  BY <1>3, <1>4 DEF Viaja
<1> QED BY <1>1, <1>5, BotaoConexoes DEF Ligada

LEMMA TerminaBotao ==
  ASSUME TypeOK, IndBotao, Termina
  PROVE  IndBotao'
<1>1. UNCHANGED uiVars /\ conexao \in [Conexoes -> Registro]
  BY DEF Termina, TypeOK
<1>2. PICK n \in [Conexoes -> 0..MaxPedidos] :
        conexao' = [c \in Conexoes |-> FechaServico(conexao[c], n[c])]
  BY DEF Termina
<1>3. ASSUME NEW c \in Conexoes, conexao[c].estado \in {"espera", "aberta", "servicoFechou"}
      PROVE  conexao'[c].estado = "servicoFechou"
  BY <1>1, <1>2, <1>3 DEF FechaServico, Registro
<1> QED BY <1>1, <1>3, BotaoConexoes DEF Ligada, Viaja

LEMMA BotaoPreservado ==
  ASSUME TypeOK, IndBotao, [Next]_vars
  PROVE  IndBotao'
<1>1. CASE IniciaUi \/ Reconecta
  BY <1>1, ConexaoBotao DEF IniciaUi, Reconecta, IndBotao, SocketOuTemporizador
<1>2. CASE on_forcarClicked \/ on_finalizarClicked
  BY <1>2, ForcarBotao, FinalizarBotao
<1>3. CASE on_finalizar
  BY <1>3 DEF on_finalizar, IndBotao, BotaoDevido, SocketOuTemporizador
<1>4. ASSUME NEW c \in Conexoes, Desliga(c) PROVE IndBotao'
  BY <1>4 DEF Desliga, on_disconnected, IndBotao, BotaoDevido, SocketOuTemporizador,
       AReconectar
<1>5. ASSUME NEW c \in Conexoes, on_readyRead(c) PROVE IndBotao'
  BY <1>5, RespostaBotao
<1>6. ASSUME NEW c \in Conexoes, incomingConnection(c) PROVE IndBotao'
  <2>1. /\ conexao' = [conexao EXCEPT ![c].estado = "aberta"]
        /\ conexao[c].estado = "espera" /\ UNCHANGED uiVars
    BY <1>6 DEF incomingConnection
  <2>2. \A d \in Conexoes :
          /\ conexao'[d].ida = conexao[d].ida /\ conexao'[d].volta = conexao[d].volta
          /\ conexao'[d].estado = IF d = c THEN "aberta" ELSE conexao[d].estado
    BY <2>1 DEF TypeOK, Registro
  <2> QED BY <2>1, <2>2, BotaoConexoes DEF Ligada, Viaja
<1>7. ASSUME NEW c \in Conexoes, readyRead(c) PROVE IndBotao'
  BY <1>7, AtendeBotao
<1>8. ASSUME NEW c \in Conexoes, disconnected(c) PROVE IndBotao'
  <2>1. /\ conexao' = [conexao EXCEPT ![c] = Nova]
        /\ conexao[c].estado = "uiFechou" /\ UNCHANGED uiVars
    BY <1>8 DEF disconnected
  <2>2. \A d \in Conexoes : conexao'[d] = conexao[d] \/ conexao[d].estado = "uiFechou"
    BY <2>1 DEF TypeOK
  <2>3. ASSUME NEW d \in Conexoes, conexao[d].estado # "uiFechou"
        PROVE  conexao'[d] = conexao[d]
    BY <2>2, <2>3
  <2> QED BY <2>1, <2>3, BotaoConexoes DEF Ligada, Viaja
<1>9. CASE ServicoSai \/ ServicoCai
  BY <1>9, TerminaBotao DEF ServicoSai, ServicoCai
<1>10. CASE ExecutaFila \/ UNCHANGED vars
  BY <1>10, BotaoAlheio DEF ExecutaFila, vars, uiVars
<1>11. CASE IniciaServico
  <2>1. CASE ui = "viva"
    BY <1>11, <2>1, BotaoAlheio DEF IniciaServico
  <2>2. CASE ui # "viva"
    BY <1>11, <2>2 DEF IniciaServico, IndBotao, BotaoDevido, SocketOuTemporizador
  <2> QED BY <2>1, <2>2
<1> QED BY <1>1, <1>2, <1>3, <1>4, <1>5, <1>6, <1>7, <1>8, <1>9, <1>10, <1>11
     DEF Next, PassoUi, PassoServico

\* A disabled button always waits for something that is under way, whatever
\* becomes of the connections and of the service.
THEOREM BotaoProvado == Spec => []BotaoDevido
<1>1. Init => IndBotao
  BY DEF Init, IndBotao, BotaoDevido, SocketOuTemporizador
<1>2. TypeOK /\ IndBotao /\ [Next]_vars => IndBotao'
  BY BotaoPreservado
<1>3. IndBotao => BotaoDevido
  BY DEF IndBotao
<1> QED BY <1>1, <1>2, <1>3, InterfaceTipada, PTL DEF Spec
===============================================================================
