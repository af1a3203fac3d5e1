--------------------------- MODULE AtualizacaoProofs ---------------------------
(* The service that runs is the one on disk, for every number of versions,  *)
(* every set of modules and every environment.                              *)
EXTENDS AtualizacaoProps, TLAPS

\* A process that is moved to another point of its loop keeps its type.
LEMMA VaiTipado ==
  ASSUME NEW q \in Quadros, NEW pc \in Pontos, NEW resta \in SUBSET Modulos
  PROVE  /\ Vai(q, pc, resta) \in Quadros
         /\ Vai(q, pc, resta).pc = pc
         /\ Vai(q, pc, resta).versao = q.versao
  BY DEF Vai, Quadros, SemModulo

\* Losing the name of the file it writes does not move a process.
LEMMA DesligaTipado ==
  ASSUME NEW q \in Quadros, NEW l \in Lugares, NEW m \in Modulos
  PROVE  /\ Desliga(q, l, m) \in Quadros
         /\ Desliga(q, l, m).pc = q.pc
         /\ Desliga(q, l, m).m = q.m
         /\ Desliga(q, l, m).onde = q.onde
         /\ Desliga(q, l, m).versao = q.versao
  BY DEF Desliga, Quadros

\* A process that starts is idle, at the version of its file.
LEMMA InicioTipado ==
  ASSUME NEW v \in 0..MaxVersao
  PROVE  /\ Inicio(v) \in Quadros
         /\ Inicio(v).pc = "ocioso"
         /\ Inicio(v).versao = v
  BY DEF Inicio, Parado, Quadros, Pontos, Lugares

\* A process that is not there is well formed too.
LEMMA ParadoTipado ==
  /\ Parado \in Quadros
  /\ Parado.pc = "parado"
  BY AtualizacaoAssumption DEF Parado, Quadros, Pontos, Lugares

\* A service that is brought up runs the file on disk.
LEMMA LevantaTipado ==
  ASSUME NEW q \in Quadros, TypeOK
  PROVE  /\ Levanta(q) \in Quadros
         /\ \/ Levanta(q) = q
            \/ /\ q.pc = "parado"
               /\ Levanta(q).pc = "ocioso"
               /\ disco.bin["cacic-service"] = Pronto(Levanta(q).versao)
<1> DEFINE a == disco.bin["cacic-service"]
<1>1. CASE q.pc = "parado" /\ Executa(a)
  <2>1. a \in Arquivos /\ a.v \in 0..MaxVersao /\ a.exec = TRUE
    BY <1>1, AtualizacaoAssumption DEF TypeOK, Arquivos, Executa, Modulos
  <2>2. a = Pronto(a.v)
    BY <2>1 DEF Arquivos, Pronto
  <2>3. Levanta(q) = Inicio(a.v)
    BY <1>1 DEF Levanta
  <2> QED BY <1>1, <2>1, <2>2, <2>3, InicioTipado
<1>2. CASE ~(q.pc = "parado" /\ Executa(a))
  BY <1>2 DEF Levanta
<1> QED BY <1>1, <1>2

\* The machine starts with the installed service running.
THEOREM VersaoInicial == Init => IndVersao
<1> SUFFICES ASSUME Init PROVE IndVersao
  OBVIOUS
<1>1. processo = [servico |-> Inicio(1), vigia |-> Parado]
  BY DEF Init
<1>2. Inicio(1) \in Quadros /\ Inicio(1).pc = "ocioso" /\ Inicio(1).versao = 1
  BY InicioTipado, AtualizacaoAssumption
<1>3. TypeOK
  <2>1. disco \in [bin : [Modulos -> Arquivos], temp : [Modulos -> Arquivos]]
    BY AtualizacaoAssumption DEF Init, Arquivos, Pronto, Ausente
  <2>2. publicado \in [Modulos -> 1..MaxVersao] /\ config = publicado
    BY AtualizacaoAssumption DEF Init
  <2> QED BY <1>1, <1>2, <2>1, <2>2, ParadoTipado, AtualizacaoAssumption
       DEF Init, TypeOK, Processos, Em
<1>4. VersaoEmExecucao
  BY <1>1, <1>2, AtualizacaoAssumption DEF Init, VersaoEmExecucao, Em, Modulos
<1>5. VigiaTroca /\ ServicoNaoSeTroca
  BY <1>1, <1>2, ParadoTipado DEF VigiaTroca, ServicoNaoSeTroca, Em
<1> QED BY <1>3, <1>4, <1>5 DEF IndVersao

\* One step per action. Most leave the file of the service alone and move one
\* process between points at which the invariant asks nothing.
THEOREM VersaoPreservada == IndVersao /\ [Next]_vars => IndVersao'
<1> SUFFICES ASSUME IndVersao, [Next]_vars PROVE IndVersao'
  OBVIOUS
<1> USE DEF IndVersao
<1> DEFINE s == processo["servico"]
           g == processo["vigia"]
<1>t. /\ s \in Quadros /\ g \in Quadros
      /\ processo = [servico |-> s, vigia |-> g]
      /\ publicado \in [Modulos -> 1..MaxVersao]
      /\ config \in [Modulos -> 1..MaxVersao]
      /\ disco.bin \in [Modulos -> Arquivos] /\ disco.temp \in [Modulos -> Arquivos]
      /\ disco = [bin |-> disco.bin, temp |-> disco.temp]
      /\ quedas \in 0..MaxQuedas
      /\ MaxVersao \in Nat \ {0} /\ MaxQuedas \in Nat
  BY AtualizacaoAssumption DEF TypeOK
\* What is left to prove of a step that moves the processes to s2 and g2 and
\* the files to d2.
<1>f. ASSUME NEW s2 \in Quadros, NEW g2 \in Quadros,
             NEW b2 \in [Modulos -> Arquivos], NEW t2 \in [Modulos -> Arquivos],
             processo' = [servico |-> s2, vigia |-> g2],
             disco' = [bin |-> b2, temp |-> t2],
             publicado' \in [Modulos -> 1..MaxVersao],
             config' \in [Modulos -> 1..MaxVersao],
             quedas' \in 0..MaxQuedas,
             s2.pc \in {"baixa", "removeu", "copiou"} => s2.m \in Modulos,
             g2.pc \in {"baixa", "removeu", "copiou"} => g2.m \in Modulos,
             s2.pc # "parado" => b2["cacic-service"] = Pronto(s2.versao),
             g2.pc \in {"removeu", "copiou"} /\ g2.m = "cacic-service"
               => s2.pc = "parado",
             g2.pc = "baixa" =>
               s2.pc = "parado" /\ g2.m = "cacic-service" /\ g2.onde = "bin",
             s2.pc = "baixa" /\ s2.m = "cacic-service" => s2.onde = "temp",
             s2.pc \in {"removeu", "copiou"} => s2.m # "cacic-service"
      PROVE  IndVersao'
  <2>1. TypeOK'
    BY <1>f DEF TypeOK, Em, Processos
  <2>2. VersaoEmExecucao' /\ VigiaTroca' /\ ServicoNaoSeTroca'
    BY <1>f DEF VersaoEmExecucao, VigiaTroca, ServicoNaoSeTroca, Em
  <2> QED BY <2>1, <2>2
\* The invariant, of s and g.
<1>i. /\ s.pc \in {"baixa", "removeu", "copiou"} => s.m \in Modulos
      /\ g.pc \in {"baixa", "removeu", "copiou"} => g.m \in Modulos
      /\ s.pc # "parado" => disco.bin["cacic-service"] = Pronto(s.versao)
      /\ g.pc \in {"removeu", "copiou"} /\ g.m = "cacic-service" => s.pc = "parado"
      /\ g.pc = "baixa" =>
           s.pc = "parado" /\ g.m = "cacic-service" /\ g.onde = "bin"
      /\ s.pc = "baixa" /\ s.m = "cacic-service" => s.onde = "temp"
      /\ s.pc \in {"removeu", "copiou"} => s.m # "cacic-service"
  BY DEF TypeOK, VersaoEmExecucao, VigiaTroca, ServicoNaoSeTroca, Em, Processos
<1> HIDE DEF IndVersao, s, g
\* A process alone goes on to another point of its loop.
<1>s. ASSUME NEW pc \in Pontos \ {"parado", "baixa", "removeu", "copiou"},
             NEW resta \in SUBSET Modulos, s.pc # "parado",
             SegueEm("servico", pc, resta), UNCHANGED <<publicado, disco, quedas>>,
             config' \in [Modulos -> 1..MaxVersao]
      PROVE  IndVersao'
  <2>1. processo' = [servico |-> Vai(s, pc, resta), vigia |-> g]
    BY <1>s, <1>t DEF SegueEm, s, g
  <2> QED BY <1>s, <1>t, <1>i, <1>f, <2>1, VaiTipado
<1>g. ASSUME NEW pc \in Pontos \ {"parado", "baixa", "removeu", "copiou"},
             NEW resta \in SUBSET Modulos,
             SegueEm("vigia", pc, resta),
             UNCHANGED <<publicado, config, disco, quedas>>
      PROVE  IndVersao'
  <2>1. processo' = [servico |-> s, vigia |-> Vai(g, pc, resta)]
    BY <1>g, <1>t DEF SegueEm, s, g
  <2> QED BY <1>g, <1>t, <1>i, <1>f, <2>1, VaiTipado
<1> USE DEF Pontos
<1>1. ASSUME NEW m \in Modulos, Publica(m) PROVE IndVersao'
  <2>1. publicado' \in [Modulos -> 1..MaxVersao]
    BY <1>1, <1>t DEF Publica
  <2> QED BY <1>1, <2>1, <1>t, <1>i, <1>f DEF Publica
<1>2. CASE Comunica
  <2>1. s.pc # "parado"
    BY <1>2 DEF Comunica, Em, s
  <2> QED BY <1>2, <2>1, <1>t, <1>s DEF Comunica
<1>3. ASSUME NEW m \in Modulos, Confere(m) PROVE IndVersao'
  <2> DEFINE resta == s.resta \ {m}
             onde == IF disco.bin[m] = Ausente THEN "bin" ELSE "temp"
  <2>1. s.pc = "confere" /\ resta \in SUBSET Modulos
    BY <1>3, <1>t DEF Confere, Em, s, Quadros
  <2>2. CASE Conferido(m)
    <3>1. SegueEm("servico", "confere", resta) /\ UNCHANGED <<publicado, config, disco, quedas>>
      BY <1>3, <2>2 DEF Confere, s
    <3> QED BY <3>1, <2>1, <1>t, <1>s
  <2>3. CASE ~Conferido(m)
    <3>1. /\ AbreDownload("servico", m, onde, resta)
          /\ UNCHANGED <<publicado, config, quedas>>
      BY <1>3, <2>3 DEF Confere, s
    <3> DEFINE s2 == [s EXCEPT !.pc = "baixa", !.resta = resta, !.m = m,
                               !.onde = onde, !.aberto = TRUE]
    <3>2. processo' = [servico |-> s2, vigia |-> g]
      BY <3>1, <1>t DEF AbreDownload, s, g
    <3>3. /\ s2 \in Quadros /\ s2.pc = "baixa" /\ s2.m = m /\ s2.onde = onde
          /\ s2.versao = s.versao
      BY <2>1, <1>t DEF Quadros, Lugares
    <3>4. m = "cacic-service" => onde = "temp"
      BY <2>1, <1>i, <1>t DEF Pronto, Ausente, Quadros
    <3>5. CASE onde = "bin"
      <4> DEFINE b2 == [disco.bin EXCEPT ![m].v = 0]
      <4>1. disco' = [bin |-> b2, temp |-> disco.temp]
        BY <3>1, <3>5, <1>t DEF AbreDownload
      <4>2. b2 \in [Modulos -> Arquivos]
        BY <1>t DEF Arquivos
      <4>3. b2["cacic-service"] = disco.bin["cacic-service"]
        BY <3>4, <3>5, <1>t DEF Modulos
      <4> HIDE DEF b2, s2, onde, resta
      <4> QED BY <3>1, <3>2, <3>3, <3>4, <4>1, <4>2, <4>3, <2>1, <1>t, <1>i, <1>f
    <3>6. CASE onde = "temp"
      <4> DEFINE t2 == [disco.temp EXCEPT ![m].v = 0]
      <4>1. disco' = [bin |-> disco.bin, temp |-> t2]
        BY <3>1, <3>6, <1>t DEF AbreDownload
      <4>2. t2 \in [Modulos -> Arquivos]
        BY <1>t DEF Arquivos
      <4> HIDE DEF t2, s2, onde, resta
      <4> QED BY <3>1, <3>2, <3>3, <3>6, <4>1, <4>2, <2>1, <1>t, <1>i, <1>f
    <3> QED BY <3>5, <3>6
  <2> QED BY <2>2, <2>3
<1>4. CASE Baixado("servico") \/ BaixaFalha("servico")
  <2> DEFINE a == IF Baixado("servico") THEN Pronto(publicado[s.m]) ELSE Ausente
             s2 == Vai(s, "confere", s.resta)
  <2>1. s.pc = "baixa" /\ s.m \in Modulos /\ s.resta \in SUBSET Modulos
    BY <1>4, <1>i, <1>t DEF Baixado, BaixaFalha, Em, s, Quadros
  <2>2. processo' = [servico |-> s2, vigia |-> g]
    BY <1>4, <1>t DEF Baixado, BaixaFalha, AposDownload, SegueEm, s, g
  <2>3. UNCHANGED <<publicado, config, quedas>>
    BY <1>4 DEF Baixado, BaixaFalha
  <2>4. a \in Arquivos
    BY <2>1, <1>t DEF Pronto, Ausente, Arquivos
  <2>5. s2 \in Quadros /\ s2.pc = "confere" /\ s2.versao = s.versao
    BY <2>1, <1>t, VaiTipado
  <2>6. \/ UNCHANGED disco
        \/ disco' = [disco EXCEPT ![s.onde][s.m] = a]
    BY <1>4 DEF Baixado, BaixaFalha, s
  <2>7. CASE UNCHANGED disco
    <3> HIDE DEF s2
    <3> QED BY <2>1, <2>2, <2>3, <2>5, <2>7, <1>t, <1>i, <1>f
  <2>8. CASE s.onde = "bin" /\ disco' = [disco EXCEPT ![s.onde][s.m] = a]
    <3> DEFINE b2 == [disco.bin EXCEPT ![s.m] = a]
    <3>1. disco' = [bin |-> b2, temp |-> disco.temp]
      BY <2>8, <1>t
    <3>2. b2 \in [Modulos -> Arquivos]
      BY <2>4, <1>t
    <3>3. b2["cacic-service"] = disco.bin["cacic-service"]
      BY <2>1, <2>8, <1>i, <1>t DEF Modulos
    <3> HIDE DEF s2, b2, a
    <3> QED BY <2>1, <2>2, <2>3, <2>5, <3>1, <3>2, <3>3, <1>t, <1>i, <1>f
  <2>9. CASE s.onde = "temp" /\ disco' = [disco EXCEPT ![s.onde][s.m] = a]
    <3> DEFINE t2 == [disco.temp EXCEPT ![s.m] = a]
    <3>1. disco' = [bin |-> disco.bin, temp |-> t2]
      BY <2>9, <1>t
    <3>2. t2 \in [Modulos -> Arquivos]
      BY <2>4, <1>t
    <3> HIDE DEF s2, t2, a
    <3> QED BY <2>1, <2>2, <2>3, <2>5, <3>1, <3>2, <1>t, <1>i, <1>f
  <2>10. s.onde \in {"bin", "temp"}
    BY <1>t DEF Quadros, Lugares
  <2> QED BY <2>6, <2>7, <2>8, <2>9, <2>10
\* chksys only downloads the service's file, and with the service down.
<1>5. CASE Baixado("vigia") \/ BaixaFalha("vigia")
  <2> DEFINE g2 == Vai(g, "inicia", g.resta)
             b2 == disco'.bin
  <2>1. /\ g.pc = "baixa" /\ g.resta \in SUBSET Modulos
        /\ s.pc = "parado" /\ g.m = "cacic-service" /\ g.onde = "bin"
    BY <1>5, <1>i, <1>t DEF Baixado, BaixaFalha, Em, g, Quadros
  <2>2. processo' = [servico |-> s, vigia |-> g2]
    BY <1>5, <1>t DEF Baixado, BaixaFalha, AposDownload, SegueEm, s, g
  <2>3. UNCHANGED <<publicado, config, quedas>>
    BY <1>5 DEF Baixado, BaixaFalha
  <2>4. g2 \in Quadros /\ g2.pc = "inicia"
    BY <2>1, <1>t, VaiTipado
  <2>5. PICK a \in Arquivos :
          UNCHANGED disco \/ disco' = [disco EXCEPT !.bin["cacic-service"] = a]
    <3>1. Ausente \in Arquivos /\ Pronto(publicado["cacic-service"]) \in Arquivos
      BY <1>t DEF Pronto, Ausente, Arquivos, Modulos
    <3> QED BY <1>5, <2>1, <3>1 DEF Baixado, BaixaFalha, g
  <2>6. /\ disco' = [bin |-> b2, temp |-> disco.temp]
        /\ b2 \in [Modulos -> Arquivos]
    BY <2>5, <1>t DEF Modulos
  <2> HIDE DEF g2, b2
  <2> QED BY <2>1, <2>2, <2>3, <2>4, <2>6, <1>t, <1>i, <1>f
<1>6. CASE IniciaModulos
  <2> DEFINE s2 == Vai(s, "executa", {})
             inicia == g.pc = "parado" /\ Executa(disco.bin["chksys"])
             g2 == IF inicia THEN Inicio(disco.bin["chksys"].v) ELSE g
  <2>1. s.pc = "confere" /\ UNCHANGED <<publicado, config, disco, quedas>>
    BY <1>6 DEF IniciaModulos, Em, s
  <2>2. processo' = [servico |-> s2, vigia |-> g2]
    BY <1>6, <1>t DEF IniciaModulos, s, g
  <2>3. s2 \in Quadros /\ s2.pc = "executa" /\ s2.versao = s.versao
    BY <1>t, VaiTipado
  <2>4. g2 \in Quadros /\ (g2 = g \/ g2.pc = "ocioso")
    <3>1. CASE inicia
      <4>1. disco.bin["chksys"].v \in 0..MaxVersao
        BY <3>1, <1>t DEF Executa, Arquivos, Modulos
      <4> QED BY <3>1, <4>1, InicioTipado
    <3> QED BY <3>1, <1>t
  <2> HIDE DEF s2, g2
  <2> QED BY <2>1, <2>2, <2>3, <2>4, <1>t, <1>i, <1>f
<1>7. ASSUME NEW p \in Processos, Lista(p) PROVE IndVersao'
  <2> DEFINE lista == {m \in Modulos : disco.temp[m].exec}
  <2>1. CASE p = "servico"
    <3>1. s.pc # "parado" /\ SegueEm("servico", "instala", lista)
      BY <1>7, <2>1 DEF Lista, Em, s
    <3> QED BY <1>7, <3>1, <1>t, <1>s DEF Lista
  <2>2. CASE p = "vigia"
    BY <1>7, <2>2, <1>g DEF Lista
  <2> QED BY <2>1, <2>2 DEF Processos
\* The service does not touch its own file; chksys stops the service first.
<1>8. ASSUME NEW m \in Modulos, Remove("servico", m) PROVE IndVersao'
  <2> DEFINE s2 == [s EXCEPT !.pc = "removeu", !.m = m, !.resta = @ \ {m}]
             g2 == IF Mata("servico", m) THEN Parado ELSE Desliga(g, "bin", m)
             b2 == [disco.bin EXCEPT ![m] = Ausente]
  <2>1. /\ s.pc = "instala" /\ m # "cacic-service"
        /\ UNCHANGED <<publicado, config, quedas>>
    BY <1>8 DEF Remove, Em, s
  <2>2. processo' = [servico |-> s2, vigia |-> g2]
    BY <1>8, <1>t DEF Remove, Outro, s, g
  <2>3. disco' = [bin |-> b2, temp |-> disco.temp]
    BY <1>8, <1>t DEF Remove
  <2>4. b2 \in [Modulos -> Arquivos]
        /\ b2["cacic-service"] = disco.bin["cacic-service"]
    BY <2>1, <1>t DEF Ausente, Arquivos, Modulos
  <2>5. /\ s2 \in Quadros /\ s2.pc = "removeu" /\ s2.m = m
        /\ s2.versao = s.versao
    BY <1>t DEF Quadros
  <2>6. g2 \in Quadros /\ (g2.pc = "parado" \/
          (g2.pc = g.pc /\ g2.m = g.m /\ g2.onde = g.onde))
    BY <1>t, ParadoTipado, DesligaTipado DEF Lugares
  <2> HIDE DEF s2, g2, b2
  <2> QED BY <2>1, <2>2, <2>3, <2>4, <2>5, <2>6, <1>t, <1>i, <1>f
<1>9. ASSUME NEW m \in Modulos, Remove("vigia", m) PROVE IndVersao'
  <2> DEFINE g2 == [g EXCEPT !.pc = "removeu", !.m = m, !.resta = @ \ {m}]
             s2 == IF Mata("vigia", m) THEN Parado ELSE Desliga(s, "bin", m)
             b2 == [disco.bin EXCEPT ![m] = Ausente]
  <2>1. g.pc = "instala" /\ UNCHANGED <<publicado, config, quedas>>
    BY <1>9 DEF Remove, Em, g
  <2>2. processo' = [servico |-> s2, vigia |-> g2]
    BY <1>9, <1>t DEF Remove, Outro, s, g
  <2>3. disco' = [bin |-> b2, temp |-> disco.temp]
    BY <1>9, <1>t DEF Remove
  <2>4. /\ b2 \in [Modulos -> Arquivos]
        /\ m # "cacic-service" => b2["cacic-service"] = disco.bin["cacic-service"]
    BY <1>t DEF Ausente, Arquivos, Modulos
  <2>5. g2 \in Quadros /\ g2.pc = "removeu" /\ g2.m = m
    BY <1>t DEF Quadros
  <2>6. s2 \in Quadros /\ (s2.pc = "parado" \/
          (s2.pc = s.pc /\ s2.m = s.m /\ s2.onde = s.onde /\ s2.versao = s.versao))
    BY <1>t, ParadoTipado, DesligaTipado DEF Lugares
  <2>7. m = "cacic-service" => s2.pc = "parado"
    <3>1. CASE m = "cacic-service" /\ disco.bin["cacic-service"] = Ausente
      <4>1. s.pc = "parado"
        BY <3>1, <1>i DEF Pronto, Ausente
      <4> QED BY <4>1, <2>6
    <3>2. CASE m = "cacic-service" /\ disco.bin["cacic-service"] # Ausente
      <4>1. Mata("vigia", m)
        BY <3>2 DEF Mata, Executavel, Outro
      <4> QED BY <4>1, ParadoTipado
    <3> QED BY <3>1, <3>2
  <2>8. s2.pc # "parado" => b2["cacic-service"] = Pronto(s2.versao)
    BY <2>4, <2>6, <2>7, <1>i, ParadoTipado
  <2> HIDE DEF s2, g2, b2
  <2>9. /\ s2.pc = "baixa" /\ s2.m = "cacic-service" => s2.onde = "temp"
        /\ s2.pc \in {"removeu", "copiou"} => s2.m # "cacic-service"
        /\ s2.pc \in {"baixa", "removeu", "copiou"} => s2.m \in Modulos
    BY <2>6, <1>i
  <2>10. /\ g2.m = "cacic-service" => s2.pc = "parado"
         /\ g2.pc # "baixa" /\ g2.m \in Modulos
    BY <2>5, <2>7
  <2>11. b2 \in [Modulos -> Arquivos] /\ g2 \in Quadros /\ s2 \in Quadros
    BY <2>4, <2>5, <2>6
  <2>12. publicado' \in [Modulos -> 1..MaxVersao] /\ config' \in [Modulos -> 1..MaxVersao]
         /\ quedas' \in 0..MaxQuedas
    BY <2>1, <1>t
  <2> QED BY <2>2, <2>3, <2>8, <2>9, <2>10, <2>11, <2>12, <1>t, <1>f
<1>10. CASE Copia("servico")
  <2> DEFINE m == s.m
  <2>1. s.pc = "removeu" /\ m \in Modulos /\ m # "cacic-service"
    BY <1>10, <1>i DEF Copia, Em, s
  <2>2. CASE disco.bin[m] = Ausente
    <3> DEFINE s2 == [s EXCEPT !.pc = "copiou"]
               b2 == [disco.bin EXCEPT ![m] = disco.temp[m]]
    <3>1. processo' = [servico |-> s2, vigia |-> g]
      BY <1>10, <2>2, <1>t DEF Copia, s, g
    <3>2. disco' = [bin |-> b2, temp |-> disco.temp]
      BY <1>10, <2>2, <1>t DEF Copia, s
    <3>3. b2 \in [Modulos -> Arquivos]
          /\ b2["cacic-service"] = disco.bin["cacic-service"]
      BY <2>1, <1>t DEF Modulos
    <3>4. s2 \in Quadros /\ s2.pc = "copiou" /\ s2.m = m /\ s2.versao = s.versao
      BY <1>t DEF Quadros
    <3>5. UNCHANGED <<publicado, config, quedas>>
      BY <1>10 DEF Copia
    <3> HIDE DEF s2, b2
    <3> QED BY <2>1, <3>1, <3>2, <3>3, <3>4, <3>5, <1>t, <1>i, <1>f
  <2>3. CASE disco.bin[m] # Ausente
    <3>1. SegueEm("servico", "instala", s.resta)
          /\ UNCHANGED <<publicado, config, disco, quedas>>
      BY <1>10, <2>3 DEF Copia, s
    <3>2. s.resta \in SUBSET Modulos
      BY <1>t DEF Quadros
    <3> QED BY <2>1, <3>1, <3>2, <1>t, <1>s
  <2> QED BY <2>2, <2>3
<1>11. CASE Copia("vigia")
  <2> DEFINE m == g.m
  <2>1. g.pc = "removeu" /\ m \in Modulos
    BY <1>11, <1>i DEF Copia, Em, g
  <2>2. CASE disco.bin[m] = Ausente
    <3> DEFINE g2 == [g EXCEPT !.pc = "copiou"]
               b2 == [disco.bin EXCEPT ![m] = disco.temp[m]]
    <3>1. processo' = [servico |-> s, vigia |-> g2]
      BY <1>11, <2>2, <1>t DEF Copia, s, g
    <3>2. disco' = [bin |-> b2, temp |-> disco.temp]
      BY <1>11, <2>2, <1>t DEF Copia, g
    <3>3. /\ b2 \in [Modulos -> Arquivos]
          /\ m # "cacic-service" => b2["cacic-service"] = disco.bin["cacic-service"]
      BY <2>1, <1>t DEF Modulos
    <3>4. g2 \in Quadros /\ g2.pc = "copiou" /\ g2.m = m
      BY <1>t DEF Quadros
    <3>5. UNCHANGED <<publicado, config, quedas>>
      BY <1>11 DEF Copia
    <3>6. m = "cacic-service" => s.pc = "parado"
      BY <2>1, <1>i
    <3>7. s.pc # "parado" => b2["cacic-service"] = Pronto(s.versao)
      BY <3>3, <3>6, <1>i
    <3> HIDE DEF g2, b2, m
    <3>8. /\ g2.m = "cacic-service" => s.pc = "parado"
          /\ g2.pc # "baixa" /\ g2.m \in Modulos
      BY <2>1, <3>4, <3>6
    <3>9. b2 \in [Modulos -> Arquivos] /\ g2 \in Quadros
      BY <3>3, <3>4
    <3>10. publicado' \in [Modulos -> 1..MaxVersao] /\ config' \in [Modulos -> 1..MaxVersao]
           /\ quedas' \in 0..MaxQuedas
      BY <3>5, <1>t
    <3> QED BY <3>1, <3>2, <3>7, <3>8, <3>9, <3>10, <1>t, <1>i, <1>f
  <2>3. CASE disco.bin[m] # Ausente
    <3>1. SegueEm("vigia", "instala", g.resta)
          /\ UNCHANGED <<publicado, config, disco, quedas>>
      BY <1>11, <2>3 DEF Copia, g
    <3>2. g.resta \in SUBSET Modulos
      BY <1>t DEF Quadros
    <3> QED BY <3>1, <3>2, <1>g
  <2> QED BY <2>2, <2>3
\* Cleaning temp/ leaves the main folder alone.
<1>12. ASSUME NEW p \in Processos, Apaga(p) PROVE IndVersao'
  <2> DEFINE m == processo[p].m
             t2 == [disco.temp EXCEPT ![m] = Ausente]
  <2>1. p = "servico" \/ p = "vigia"
    BY DEF Processos
  <2>2. /\ Em(p, "copiou") /\ m \in Modulos /\ processo[p].resta \in SUBSET Modulos
        /\ UNCHANGED <<publicado, config, quedas>>
    BY <1>12, <2>1, <1>i, <1>t DEF Apaga, Em, Quadros, s, g
  <2>3. disco' = [bin |-> disco.bin, temp |-> t2]
    BY <1>12, <1>t DEF Apaga
  <2>4. t2 \in [Modulos -> Arquivos]
    BY <2>2, <1>t DEF Ausente, Arquivos
  <2>5. CASE p = "servico"
    <3> DEFINE s2 == Vai(s, "instala", s.resta)
               g2 == Desliga(g, "temp", m)
    <3>1. processo' = [servico |-> s2, vigia |-> g2]
      BY <1>12, <2>5, <1>t DEF Apaga, Outro, s, g
    <3>2. s2 \in Quadros /\ s2.pc = "instala" /\ s2.versao = s.versao
      BY <2>2, <2>5, <1>t, VaiTipado DEF s
    <3>3. g2 \in Quadros /\ g2.pc = g.pc /\ g2.m = g.m /\ g2.onde = g.onde
      BY <2>2, <1>t, DesligaTipado DEF Lugares
    <3>4. s.pc = "copiou"
      BY <2>2, <2>5 DEF Em, s
    <3> HIDE DEF s2, g2, t2, m
    <3> QED BY <2>2, <2>3, <2>4, <3>1, <3>2, <3>3, <3>4, <1>t, <1>i, <1>f
  <2>6. CASE p = "vigia"
    <3> DEFINE g2 == Vai(g, "instala", g.resta)
               s2 == Desliga(s, "temp", m)
    <3>1. processo' = [servico |-> s2, vigia |-> g2]
      BY <1>12, <2>6, <1>t DEF Apaga, Outro, s, g
    <3>2. g2 \in Quadros /\ g2.pc = "instala"
      BY <2>2, <2>6, <1>t, VaiTipado DEF g
    <3>3. /\ s2 \in Quadros /\ s2.pc = s.pc /\ s2.m = s.m /\ s2.onde = s.onde
          /\ s2.versao = s.versao
      BY <2>2, <1>t, DesligaTipado DEF Lugares
    <3> HIDE DEF s2, g2, t2, m
    <3> QED BY <2>2, <2>3, <2>4, <3>1, <3>2, <3>3, <1>t, <1>i, <1>f
  <2> QED BY <2>1, <2>5, <2>6
<1>13. CASE ServicoSeEncerra \/ ProcessoCai("servico")
  <2>1. processo' = [servico |-> Parado, vigia |-> g]
    BY <1>13, <1>t DEF ServicoSeEncerra, ProcessoCai, s, g
  <2>2. UNCHANGED <<publicado, config, disco>> /\ quedas' \in 0..MaxQuedas
    BY <1>13, <1>t DEF ServicoSeEncerra, ProcessoCai
  <2> QED BY <2>1, <2>2, ParadoTipado, <1>t, <1>i, <1>f
<1>14. CASE ServicoTermina
  <2>1. s.pc # "parado"
    BY <1>14 DEF ServicoTermina, Em, s
  <2> QED BY <1>14, <2>1, <1>t, <1>s DEF ServicoTermina
<1>15. CASE Verifica
  <2>1. CASE s.pc = "parado" /\ disco.bin["cacic-service"] = Ausente
    <3> DEFINE g2 == [g EXCEPT !.pc = "baixa", !.resta = {},
                        !.m = "cacic-service", !.onde = "bin", !.aberto = TRUE]
               b2 == [disco.bin EXCEPT !["cacic-service"].v = 0]
    <3>1. AbreDownload("vigia", "cacic-service", "bin", {})
          /\ UNCHANGED <<publicado, config, quedas>>
      BY <1>15, <2>1 DEF Verifica, Em, s
    <3>2. processo' = [servico |-> s, vigia |-> g2]
      BY <3>1, <1>t DEF AbreDownload, s, g
    <3>3. disco' = [bin |-> b2, temp |-> disco.temp]
      BY <3>1, <1>t DEF AbreDownload
    <3>4. b2 \in [Modulos -> Arquivos]
      <4>1. 0 \in -1..MaxVersao /\ "cacic-service" \in Modulos
        BY <1>t DEF Modulos
      <4>2. [disco.bin["cacic-service"] EXCEPT !.v = 0] \in Arquivos
        BY <4>1, <1>t DEF Arquivos
      <4> QED BY <4>1, <4>2, <1>t
    <3>5. /\ g2 \in Quadros /\ g2.pc = "baixa" /\ g2.m = "cacic-service"
          /\ g2.onde = "bin" /\ g2.m \in Modulos
      BY <1>t DEF Quadros, Lugares, Modulos
    <3> HIDE DEF g2, b2
    <3> QED BY <2>1, <3>1, <3>2, <3>3, <3>4, <3>5, <1>t, <1>i, <1>f
  <2>2. CASE ~(s.pc = "parado" /\ disco.bin["cacic-service"] = Ausente)
    <3>1. PICK pc \in {"ocioso", "inicia"} : SegueEm("vigia", pc, {})
      BY <1>15, <2>2 DEF Verifica, Em, s
    <3>2. UNCHANGED <<publicado, config, disco, quedas>>
      BY <1>15, <2>2 DEF Verifica, Em, s
    <3> QED BY <3>1, <3>2, <1>g
  <2> QED BY <2>1, <2>2
<1>16. CASE Inicia
  <2> DEFINE s2 == Levanta(s)
             g2 == Vai(g, "ocioso", {})
  <2>1. /\ g.pc = "inicia" /\ UNCHANGED <<publicado, config, disco, quedas>>
        /\ processo' = [servico |-> s2, vigia |-> g2]
    BY <1>16 DEF Inicia, Em, s, g
  <2>2. g2 \in Quadros /\ g2.pc = "ocioso"
    BY <1>t, VaiTipado
  <2>3. /\ s2 \in Quadros
        /\ s2 = s \/ (/\ s2.pc = "ocioso"
                      /\ disco.bin["cacic-service"] = Pronto(s2.versao))
    BY <1>t, LevantaTipado DEF IndVersao
  <2> HIDE DEF s2, g2
  <2> QED BY <2>1, <2>2, <2>3, <1>t, <1>i, <1>f
<1>17. CASE ProcessoCai("vigia")
  <2>1. processo' = [servico |-> s, vigia |-> Parado]
    BY <1>17, <1>t DEF ProcessoCai, s, g
  <2>2. UNCHANGED <<publicado, config, disco>> /\ quedas' \in 0..MaxQuedas
    BY <1>17, <1>t DEF ProcessoCai
  <2> QED BY <2>1, <2>2, ParadoTipado, <1>t, <1>i, <1>f
<1>18. CASE MaquinaReinicia
  <2> DEFINE s2 == Levanta(Parado)
  <2>1. processo' = [servico |-> s2, vigia |-> Parado]
    BY <1>18 DEF MaquinaReinicia
  <2>2. UNCHANGED <<publicado, config, disco>> /\ quedas' \in 0..MaxQuedas
    BY <1>18, <1>t DEF MaquinaReinicia
  <2>3. /\ s2 \in Quadros
        /\ \/ s2.pc = "parado"
           \/ /\ s2.pc = "ocioso"
              /\ disco.bin["cacic-service"] = Pronto(s2.versao)
    BY ParadoTipado, LevantaTipado DEF IndVersao
  <2> HIDE DEF s2
  <2> QED BY <2>1, <2>2, <2>3, ParadoTipado, <1>t, <1>f
<1>19. CASE UNCHANGED vars
  BY <1>19, <1>t, <1>i, <1>f DEF vars
<1>20. ASSUME NEW p \in Processos, Passo(p) PROVE IndVersao'
  <2>1. ASSUME NEW q \in Processos, Instala(q) PROVE IndVersao'
    <3>1. q = "servico" \/ q = "vigia"
      BY DEF Processos
    <3> QED BY <2>1, <3>1, <1>8, <1>9, <1>10, <1>11, <1>12 DEF Instala
  <2>2. CASE p = "servico"
    BY <1>20, <2>1, <2>2, <1>2, <1>3, <1>4, <1>6, <1>7, <1>13, <1>14 DEF Passo
  <2>3. CASE p = "vigia"
    BY <1>20, <2>1, <2>3, <1>5, <1>7, <1>15, <1>16 DEF Passo
  <2> QED BY <2>2, <2>3 DEF Processos
<1>21. ASSUME NEW p \in Processos, ProcessoCai(p) PROVE IndVersao'
  BY <1>21, <1>13, <1>17 DEF Processos
<1> QED BY <1>1, <1>18, <1>19, <1>20, <1>21 DEF Next

\* Files, configuration and processes are typed in every behaviour.
THEOREM AtualizacaoTipada == Spec => []TypeOK
<1>1. IndVersao => TypeOK
  BY DEF IndVersao
<1> QED BY <1>1, VersaoInicial, VersaoPreservada, PTL DEF Spec

\* The service that runs is the one on disk, in every behaviour: what chksys
\* and the service do to each other's files never leaves an old service running.
THEOREM VersaoProvada == Spec => []VersaoEmExecucao
<1>1. IndVersao => VersaoEmExecucao
  BY DEF IndVersao
<1> QED BY <1>1, VersaoInicial, VersaoPreservada, PTL DEF Spec

-----------------------------------------------------------------------------
(* The two processes are never down together.                               *)

\* A process that neither has chksys at hand nor in the list it installs.
Alheio(q) ==
  /\ q.m # "chksys"
  /\ q.pc \in {"instala", "removeu", "copiou"} => "chksys" \notin q.resta

Precisa == {"parado", "executa", "instala", "removeu", "copiou"}

LEMMA AlheioVai ==
  ASSUME NEW q \in Quadros, NEW pc, NEW resta,
         pc \in {"instala", "removeu", "copiou"} => "chksys" \notin resta
  PROVE  Alheio(Vai(q, pc, resta)) /\ Vai(q, pc, resta).pc = pc
  BY DEF Alheio, Vai, Quadros, SemModulo

LEMMA AlheioDesliga ==
  ASSUME NEW q \in Quadros, Alheio(q), NEW l, NEW m
  PROVE  Alheio(Desliga(q, l, m)) /\ Desliga(q, l, m).pc = q.pc
  BY DEF Alheio, Desliga, Quadros

LEMMA AlheioParado ==
  /\ Alheio(Parado) /\ Parado.pc = "parado"
  /\ \A v : Alheio(Inicio(v)) /\ Inicio(v).pc = "ocioso"
  BY DEF Alheio, Parado, Inicio, SemModulo

LEMMA AlheioLevanta ==
  ASSUME NEW q, Alheio(q)
  PROVE  Alheio(Levanta(q)) /\ Levanta(q).pc \in {q.pc, "ocioso"}
  BY AlheioParado DEF Levanta

\* Without crashes, and with a chksys on disk that is never updated, every step
\* leaves chksys alone and one of the two processes running.
LEMMA VivoPreservado ==
  ASSUME "chksys" \notin Publicaveis, "queda" \notin Ambiente,
         TypeOK, IndVivo, [Next]_vars
  PROVE  IndVivo'
<1> DEFINE s == processo["servico"]
           g == processo["vigia"]
           Disco == disco.bin["chksys"] = Pronto(1) /\ disco.temp["chksys"] = Ausente
<1>t. /\ s \in Quadros /\ g \in Quadros
      /\ processo = [servico |-> s, vigia |-> g]
      /\ disco.bin \in [Modulos -> Arquivos] /\ disco.temp \in [Modulos -> Arquivos]
      /\ disco = [bin |-> disco.bin, temp |-> disco.temp]
      /\ "chksys" \in Modulos
      /\ publicado \in [Modulos -> 1..MaxVersao]
  BY DEF TypeOK, Modulos
<1>i. /\ publicado["chksys"] = 1 /\ config["chksys"] = 1 /\ Disco
      /\ Alheio(s) /\ Alheio(g)
      /\ s.pc \in Precisa => g.pc # "parado"
  BY DEF IndVivo, ChksysIntocado, VigiaAntes, Alheio, Em, Precisa, Processos
\* What is left to prove of a step.
<1>f. ASSUME NEW s2, NEW g2, processo' = [servico |-> s2, vigia |-> g2],
             publicado'["chksys"] = 1, config'["chksys"] = 1, Disco',
             Alheio(s2), Alheio(g2), s2.pc \in Precisa => g2.pc # "parado"
      PROVE  IndVivo'
  BY <1>f DEF IndVivo, ChksysIntocado, VigiaAntes, Alheio, Em, Precisa, Processos
\* A change of another module's file.
<1>d. ASSUME NEW l \in Lugares, NEW m \in Modulos, m # "chksys", NEW a,
             \/ disco' = [disco EXCEPT ![l][m] = a]
             \/ disco' = [disco EXCEPT ![l][m].v = a]
      PROVE  Disco'
  <2>1. l = "bin" \/ l = "temp"
    BY DEF Lugares
  <2> QED BY <1>d, <2>1, <1>t, <1>i
<1> HIDE DEF s, g
<1>1. ASSUME NEW m \in Modulos, Publica(m) PROVE IndVivo'
  <2>1. publicado'["chksys"] = 1 /\ UNCHANGED <<config, disco, processo>>
    BY <1>1, <1>t, <1>i DEF Publica
  <2> QED BY <2>1, <1>t, <1>i, <1>f
\* The service alone goes on to another point of its loop, past the start of
\* chksys only if chksys runs.
<1>s. ASSUME NEW pc, NEW resta, SegueEm("servico", pc, resta),
             UNCHANGED publicado, config'["chksys"] = 1, Disco',
             pc \in {"instala", "removeu", "copiou"} => "chksys" \notin resta,
             pc \in Precisa => g.pc # "parado"
      PROVE  IndVivo'
  <2>1. processo' = [servico |-> Vai(s, pc, resta), vigia |-> g]
    BY <1>s, <1>t DEF SegueEm, s, g
  <2> QED BY <1>s, <1>t, <1>i, <1>f, <2>1, AlheioVai
<1>g. ASSUME NEW pc, NEW resta, SegueEm("vigia", pc, resta),
             UNCHANGED <<publicado, config>>, Disco', pc # "parado",
             pc \in {"instala", "removeu", "copiou"} => "chksys" \notin resta
      PROVE  IndVivo'
  <2>1. processo' = [servico |-> s, vigia |-> Vai(g, pc, resta)]
    BY <1>g, <1>t DEF SegueEm, s, g
  <2> QED BY <1>g, <1>t, <1>i, <1>f, <2>1, AlheioVai
<1>2. CASE Comunica
  BY <1>2, <1>i, <1>s DEF Comunica, Precisa
\* The hash of chksys is the one configured: it is not downloaded.
<1>3. ASSUME NEW m \in Modulos, Confere(m) PROVE IndVivo'
  <2> DEFINE resta == s.resta \ {m}
             onde == IF disco.bin[m] = Ausente THEN "bin" ELSE "temp"
  <2>1. CASE Conferido(m)
    <3>1. SegueEm("servico", "confere", resta) /\ UNCHANGED <<publicado, config, disco>>
      BY <1>3, <2>1 DEF Confere, s
    <3> QED BY <3>1, <1>i, <1>s DEF Precisa
  <2>2. CASE ~Conferido(m)
    <3>1. AbreDownload("servico", m, onde, resta) /\ UNCHANGED <<publicado, config>>
      BY <1>3, <2>2 DEF Confere, s
    <3>2. m # "chksys"
      BY <2>2, <1>i DEF Conferido, Pronto
    <3>3. Disco'
      BY <3>1, <3>2, <1>d DEF AbreDownload, Lugares
    <3> DEFINE s2 == [s EXCEPT !.pc = "baixa", !.resta = resta, !.m = m,
                               !.onde = onde, !.aberto = TRUE]
    <3>4. processo' = [servico |-> s2, vigia |-> g]
      BY <3>1, <1>t DEF AbreDownload, s, g
    <3>5. Alheio(s2) /\ s2.pc = "baixa"
      BY <3>2, <1>t DEF Alheio, Quadros
    <3> HIDE DEF s2
    <3> QED BY <3>1, <3>3, <3>4, <3>5, <1>i, <1>f DEF Precisa
  <2> QED BY <2>1, <2>2
<1>4. ASSUME NEW p \in Processos, Baixado(p) \/ BaixaFalha(p) PROVE IndVivo'
  <2> DEFINE q == processo[p]
  <2>1. /\ q \in Quadros /\ q.m \in Modulos /\ q.m # "chksys"
        /\ UNCHANGED <<publicado, config>> /\ AposDownload(p)
    BY <1>4, <1>t, <1>i DEF Baixado, BaixaFalha, TypeOK, Processos, Alheio, s, g
  <2>2. q.onde \in Lugares
    BY <2>1 DEF Quadros
  <2>3. UNCHANGED disco \/ \E a : disco' = [disco EXCEPT ![q.onde][q.m] = a]
    BY <1>4 DEF Baixado, BaixaFalha
  <2>4. Disco'
    BY <2>1, <2>2, <2>3, <1>d, <1>i
  <2>5. CASE p = "servico"
    <3>1. SegueEm("servico", "confere", q.resta)
      BY <2>1, <2>5 DEF AposDownload
    <3> QED BY <2>1, <2>4, <3>1, <1>i, <1>s DEF Precisa
  <2>6. CASE p = "vigia"
    <3>1. SegueEm("vigia", "inicia", q.resta)
      BY <2>1, <2>6 DEF AposDownload
    <3> QED BY <2>1, <2>4, <3>1, <1>g
  <2> QED BY <2>5, <2>6 DEF Processos
\* chksys is on disk, whole, and starts.
<1>5. CASE IniciaModulos
  <2> DEFINE s2 == Vai(s, "executa", {})
             v == disco.bin["chksys"].v
             g2 == IF g.pc = "parado" /\ Executa(disco.bin["chksys"]) THEN Inicio(v) ELSE g
  <2>1. processo' = [servico |-> s2, vigia |-> g2]
        /\ UNCHANGED <<publicado, config, disco>>
    BY <1>5, <1>t DEF IniciaModulos, s, g
  <2>2. Executa(disco.bin["chksys"])
    BY <1>i DEF Executa, Pronto
  <2>3. Alheio(g2) /\ g2.pc # "parado"
    BY <2>2, <1>i, AlheioParado
  <2>4. Alheio(s2)
    BY <1>t, AlheioVai
  <2> HIDE DEF s2, g2
  <2> QED BY <2>1, <2>3, <2>4, <1>i, <1>f
<1>6. ASSUME NEW p \in Processos, Lista(p) PROVE IndVivo'
  <2> DEFINE lista == {m \in Modulos : disco.temp[m].exec}
  <2>1. "chksys" \notin lista /\ UNCHANGED <<publicado, config, disco>>
    BY <1>6, <1>i DEF Lista, Ausente
  <2>2. CASE p = "servico"
    <3>1. s.pc = "executa" /\ SegueEm("servico", "instala", lista)
      BY <1>6, <2>2 DEF Lista, Em, s
    <3> QED BY <2>1, <3>1, <1>i, <1>s DEF Precisa
  <2>3. CASE p = "vigia"
    <3>1. SegueEm("vigia", "instala", lista)
      BY <1>6, <2>3 DEF Lista
    <3> QED BY <2>1, <3>1, <1>i, <1>g
  <2> QED BY <2>2, <2>3 DEF Processos
\* The service has no reason to stop chksys.
<1>7. ASSUME NEW m \in Modulos, Remove("servico", m) PROVE IndVivo'
  <2> DEFINE s2 == [s EXCEPT !.pc = "removeu", !.m = m, !.resta = @ \ {m}]
             g2 == Desliga(g, "bin", m)
  <2>1. /\ s.pc = "instala" /\ m \in s.resta /\ UNCHANGED <<publicado, config>>
        /\ disco' = [disco EXCEPT !.bin[m] = Ausente]
    BY <1>7 DEF Remove, Em, s
  <2>2. m # "chksys" /\ "chksys" \notin s.resta /\ g.pc # "parado"
    BY <2>1, <1>i DEF Alheio, Precisa
  <2>3. ~Mata("servico", m)
    BY <2>2 DEF Mata, Executavel, Outro
  <2>4. processo' = [servico |-> s2, vigia |-> g2]
    BY <1>7, <2>3, <1>t DEF Remove, Outro, s, g
  <2>5. Alheio(s2)
    BY <2>2, <1>t DEF Alheio, Quadros
  <2>6. Alheio(g2) /\ g2.pc # "parado"
    BY <2>2, <1>t, <1>i, AlheioDesliga
  <2>7. Disco'
    BY <2>1, <2>2, <1>d DEF Lugares
  <2> HIDE DEF s2, g2
  <2> QED BY <2>1, <2>4, <2>5, <2>6, <2>7, <1>i, <1>f
<1>8. ASSUME NEW m \in Modulos, Remove("vigia", m) PROVE IndVivo'
  <2> DEFINE g2 == [g EXCEPT !.pc = "removeu", !.m = m, !.resta = @ \ {m}]
             s2 == IF Mata("vigia", m) THEN Parado ELSE Desliga(s, "bin", m)
  <2>1. /\ g.pc = "instala" /\ m \in g.resta /\ UNCHANGED <<publicado, config>>
        /\ disco' = [disco EXCEPT !.bin[m] = Ausente]
    BY <1>8 DEF Remove, Em, g
  <2>2. m # "chksys" /\ "chksys" \notin g.resta
    BY <2>1, <1>i DEF Alheio
  <2>3. processo' = [servico |-> s2, vigia |-> g2]
    BY <1>8, <1>t DEF Remove, Outro, s, g
  <2>4. Alheio(g2) /\ g2.pc # "parado"
    BY <2>2, <1>t DEF Alheio, Quadros
  <2>5. Alheio(s2)
    BY <1>t, <1>i, AlheioDesliga, AlheioParado
  <2>6. Disco'
    BY <2>1, <2>2, <1>d DEF Lugares
  <2> HIDE DEF s2, g2
  <2> QED BY <2>1, <2>3, <2>4, <2>5, <2>6, <1>i, <1>f
<1>9. ASSUME NEW p \in Processos, Copia(p) PROVE IndVivo'
  <2> DEFINE q == processo[p]  q2 == [q EXCEPT !.pc = "copiou"]
  <2>1. /\ q \in Quadros /\ q.pc = "removeu" /\ q.m \in Modulos
        /\ q.m # "chksys" /\ "chksys" \notin q.resta
        /\ UNCHANGED <<publicado, config>>
    BY <1>9, <1>t, <1>i DEF Copia, Em, TypeOK, Processos, Alheio, s, g
  <2>2. p = "servico" => g.pc # "parado"
    BY <2>1, <1>i DEF Precisa, s
  <2>3. CASE disco.bin[q.m] = Ausente
    <3>1. /\ disco' = [disco EXCEPT !.bin[q.m] = disco.temp[q.m]]
          /\ processo' = [processo EXCEPT ![p].pc = "copiou"]
      BY <1>9, <2>3 DEF Copia
    <3>2. Disco'
      BY <2>1, <3>1, <1>d DEF Lugares
    <3>3. Alheio(q2) /\ q2.pc = "copiou"
      BY <2>1 DEF Alheio, Quadros
    <3>4. \/ p = "servico" /\ processo' = [servico |-> q2, vigia |-> g]
          \/ p = "vigia" /\ processo' = [servico |-> s, vigia |-> q2]
      BY <3>1, <1>t DEF Processos, s, g
    <3> HIDE DEF q2
    <3>5. CASE p = "servico" /\ processo' = [servico |-> q2, vigia |-> g]
      BY <2>1, <2>2, <3>2, <3>3, <3>5, <1>i, <1>f
    <3>6. CASE p = "vigia" /\ processo' = [servico |-> s, vigia |-> q2]
      BY <2>1, <3>2, <3>3, <3>6, <1>i, <1>f
    <3> QED BY <3>4, <3>5, <3>6
  <2>4. CASE disco.bin[q.m] # Ausente
    <3>1. SegueEm(p, "instala", q.resta) /\ UNCHANGED disco
      BY <1>9, <2>4 DEF Copia
    <3>2. CASE p = "servico"
      BY <2>1, <2>2, <3>1, <3>2, <1>i, <1>s
    <3>3. CASE p = "vigia"
      BY <2>1, <3>1, <3>3, <1>i, <1>g
    <3> QED BY <3>2, <3>3 DEF Processos
  <2> QED BY <2>3, <2>4
<1>10. ASSUME NEW p \in Processos, Apaga(p) PROVE IndVivo'
  <2> DEFINE q == processo[p]
  <2>1. /\ q \in Quadros /\ q.pc = "copiou" /\ q.m \in Modulos
        /\ q.m # "chksys" /\ "chksys" \notin q.resta
        /\ UNCHANGED <<publicado, config>>
        /\ disco' = [disco EXCEPT !.temp[q.m] = Ausente]
    BY <1>10, <1>t, <1>i DEF Apaga, Em, TypeOK, Processos, Alheio, s, g
  <2>2. Disco'
    BY <2>1, <1>d DEF Lugares
  <2>3. CASE p = "servico"
    <3>1. processo' = [servico |-> Vai(s, "instala", s.resta),
                       vigia |-> Desliga(g, "temp", s.m)]
      BY <1>10, <2>3, <1>t DEF Apaga, Outro, s, g
    <3>2. s.pc = "copiou" /\ "chksys" \notin s.resta
      BY <2>1, <2>3 DEF s
    <3>3. Alheio(Vai(s, "instala", s.resta))
      BY <3>2, <1>t, AlheioVai
    <3>4. Alheio(Desliga(g, "temp", s.m)) /\ Desliga(g, "temp", s.m).pc # "parado"
      BY <3>2, <1>t, <1>i, AlheioDesliga DEF Precisa
    <3> QED BY <2>1, <2>2, <3>1, <3>3, <3>4, <1>i, <1>f
  <2>4. CASE p = "vigia"
    <3>1. processo' = [servico |-> Desliga(s, "temp", g.m),
                       vigia |-> Vai(g, "instala", g.resta)]
      BY <1>10, <2>4, <1>t DEF Apaga, Outro, s, g
    <3>2. Alheio(Vai(g, "instala", g.resta)) /\ Vai(g, "instala", g.resta).pc = "instala"
      BY <2>1, <2>4, <1>t, AlheioVai DEF g
    <3>3. Alheio(Desliga(s, "temp", g.m))
      BY <1>t, <1>i, AlheioDesliga
    <3> QED BY <2>1, <2>2, <3>1, <3>2, <3>3, <1>i, <1>f
  <2> QED BY <2>3, <2>4 DEF Processos
\* The service ends itself with chksys running.
<1>11. CASE ServicoSeEncerra
  <2>1. /\ s.pc = "instala" /\ UNCHANGED <<publicado, config, disco>>
        /\ processo' = [servico |-> Parado, vigia |-> g]
    BY <1>11, <1>t DEF ServicoSeEncerra, Em, s, g
  <2> QED BY <2>1, <1>i, <1>f, AlheioParado DEF Precisa
<1>12. CASE ServicoTermina
  BY <1>12, <1>i, <1>s DEF ServicoTermina, Precisa
<1>13. CASE Verifica
  <2>1. CASE Em("servico", "parado") /\ disco.bin["cacic-service"] = Ausente
    <3> DEFINE g2 == [g EXCEPT !.pc = "baixa", !.resta = {},
                        !.m = "cacic-service", !.onde = "bin", !.aberto = TRUE]
    <3>1. AbreDownload("vigia", "cacic-service", "bin", {})
          /\ UNCHANGED <<publicado, config>>
      BY <1>13, <2>1 DEF Verifica
    <3>2. Disco'
      BY <3>1, <1>d DEF AbreDownload, Lugares, Modulos
    <3>3. processo' = [servico |-> s, vigia |-> g2]
      BY <3>1, <1>t DEF AbreDownload, s, g
    <3>4. Alheio(g2) /\ g2.pc = "baixa"
      BY <1>t DEF Alheio, Quadros
    <3> HIDE DEF g2
    <3> QED BY <3>1, <3>2, <3>3, <3>4, <1>i, <1>f
  <2>2. CASE ~(Em("servico", "parado") /\ disco.bin["cacic-service"] = Ausente)
    <3>1. PICK pc \in {"ocioso", "inicia"} : SegueEm("vigia", pc, {})
      BY <1>13, <2>2 DEF Verifica
    <3>2. UNCHANGED <<publicado, config, disco>>
      BY <1>13, <2>2 DEF Verifica
    <3> QED BY <3>1, <3>2, <1>i, <1>g
  <2> QED BY <2>1, <2>2
<1>14. CASE Inicia
  <2>1. /\ processo' = [servico |-> Levanta(s), vigia |-> Vai(g, "ocioso", {})]
        /\ UNCHANGED <<publicado, config, disco>>
    BY <1>14 DEF Inicia, s, g
  <2>2. Alheio(Vai(g, "ocioso", {})) /\ Vai(g, "ocioso", {}).pc = "ocioso"
    BY <1>t, AlheioVai
  <2>3. Alheio(Levanta(s))
    BY <1>i, AlheioLevanta
  <2> QED BY <2>1, <2>2, <2>3, <1>i, <1>f
<1>15. CASE UNCHANGED vars
  BY <1>15, <1>t, <1>i, <1>f DEF vars
<1>16. ASSUME NEW p \in Processos, Passo(p) PROVE IndVivo'
  <2>1. ASSUME Instala(p) PROVE IndVivo'
    BY <2>1, <1>7, <1>8, <1>9, <1>10 DEF Instala, Processos
  <2> QED BY <1>16, <2>1, <1>2, <1>3, <1>4, <1>5, <1>6, <1>11, <1>12, <1>13, <1>14
           DEF Passo
<1>17. ~MaquinaReinicia /\ \A p \in Processos : ~ProcessoCai(p)
  BY DEF MaquinaReinicia, ProcessoCai
<1> QED BY <1>1, <1>15, <1>16, <1>17 DEF Next

\* Without crashes, and while chksys itself is not updated, one of the two
\* processes always runs: neither is ever left with nobody to start it.
THEOREM UmVivoProvado ==
  ASSUME "chksys" \in Instalados, "chksys" \notin Publicaveis, "queda" \notin Ambiente
  PROVE  Spec => []UmVivo
<1>1. Init => IndVivo
  <2> SUFFICES ASSUME Init PROVE IndVivo
    OBVIOUS
  <2>1. /\ processo = [servico |-> Inicio(1), vigia |-> Parado]
        /\ publicado["chksys"] = 1 /\ config["chksys"] = 1
        /\ disco.bin["chksys"] = Pronto(1) /\ disco.temp["chksys"] = Ausente
    BY DEF Init, Modulos
  <2> QED BY <2>1, AlheioParado
       DEF IndVivo, ChksysIntocado, VigiaAntes, Alheio, Em, Processos
<1>2. TypeOK /\ IndVivo /\ [Next]_vars => IndVivo'
  BY VivoPreservado
<1>3. IndVivo => UmVivo
  BY DEF IndVivo, VigiaAntes, UmVivo, Em
<1> QED BY <1>1, <1>2, <1>3, AtualizacaoTipada, PTL DEF Spec
===============================================================================
