----------------------------- MODULE Atualizacao -----------------------------
(***************************************************************************)
(* How a new version of a module reaches the disk and starts to run        *)
(* (Linux build).                                                          *)
(*                                                                         *)
(* Two processes update the same folders and watch each other, without a   *)
(* lock between them:                                                      *)
(*   - "servico", cacic-service: at each timer slot it compares the hashes *)
(*     of the manager's configuration with the files, downloads what is    *)
(*     missing or stale, starts chksys, and installs what is in temp/;     *)
(*   - "vigia", chksys: every minute it installs what is in temp/ too, and *)
(*     brings the service back when it does not run.                       *)
(* A file is its version and its execution bit; the hash is the version.   *)
(***************************************************************************)
EXTENDS Integers

CONSTANTS
  MaxVersao,    \* bound: versions the manager publishes of a module
  MaxQuedas,    \* bound: crashes and restarts
  Publicaveis,  \* modules of which the manager publishes new versions
  Instalados,   \* modules on disk when the agent starts
  Ambiente      \* what may go wrong, a subset of Perturbacoes

Modulos      == {"cacic-service", "chksys", "gercols"}
Perturbacoes == {"download", "queda", "sobreposta"}

ASSUME AtualizacaoAssumption ==
  /\ MaxVersao \in Nat \ {0}
  /\ MaxQuedas \in Nat
  /\ Publicaveis \subseteq Modulos
  /\ Instalados \subseteq Modulos
  /\ "cacic-service" \in Instalados
  /\ Ambiente \subseteq Perturbacoes

VARIABLES
  publicado,  \* version of each module the manager serves now
  config,     \* getConfig.json: version of each module, by its hash
  disco,      \* the files of the main folder ("bin") and of temp/ ("temp")
  processo,   \* the two processes
  quedas      \* crashes so far

vars == <<publicado, config, disco, processo, quedas>>

-----------------------------------------------------------------------------
Lugares    == {"bin", "temp"}
Processos  == {"servico", "vigia"}
Executavel == [servico |-> "cacic-service", vigia |-> "chksys"]
Outro(p)   == IF p = "servico" THEN "vigia" ELSE "servico"
SemModulo  == "nenhum"

\* Version 0 is a file whose download has not finished.
Arquivos   == [v : -1..MaxVersao, exec : BOOLEAN]
Ausente    == [v |-> -1, exec |-> FALSE]
Pronto(v)  == [v |-> v, exec |-> TRUE]
Executa(a) == a.exec /\ a.v > 0

Pontos == {"parado", "ocioso", "confere", "baixa", "executa", "instala",
           "removeu", "copiou", "inicia"}

\* resta: modules the current loop has not reached; m, onde: the module at
\* hand and the folder it is downloaded to; aberto: the file being written
\* still has its name; versao: of the program that runs.
Quadros == [pc : Pontos, resta : SUBSET Modulos, m : Modulos \cup {SemModulo},
            onde : Lugares, aberto : BOOLEAN, versao : 0..MaxVersao]

Parado    == [pc |-> "parado", resta |-> {}, m |-> SemModulo, onde |-> "bin",
              aberto |-> FALSE, versao |-> 0]
Inicio(v) == [Parado EXCEPT !.pc = "ocioso", !.versao = v]

Em(p, pc)         == processo[p].pc = pc
Vai(q, pc, resta) == [q EXCEPT !.pc = pc, !.resta = resta, !.m = SemModulo,
                               !.aberto = FALSE]
SegueEm(p, pc, resta) ==
  processo' = [processo EXCEPT ![p] = Vai(@, pc, resta)]

\* What happens to the process q when the file m of folder l is unlinked.
Desliga(q, l, m) ==
  IF q.pc = "baixa" /\ q.onde = l /\ q.m = m THEN [q EXCEPT !.aberto = FALSE]
  ELSE q

Init ==
  /\ publicado = [m \in Modulos |-> 1]
  /\ config = publicado
  /\ disco = [bin  |-> [m \in Modulos |-> IF m \in Instalados THEN Pronto(1)
                                          ELSE Ausente],
              temp |-> [m \in Modulos |-> Ausente]]
  /\ processo = [servico |-> Inicio(1), vigia |-> Parado]
  /\ quedas = 0

-----------------------------------------------------------------------------
(* The manager. Unless "sobreposta", it waits for a version to be installed *)
(* before it publishes the next one.                                        *)

Publica(m) ==
  /\ m \in Publicaveis
  /\ publicado[m] < MaxVersao
  /\ "sobreposta" \in Ambiente \/ disco.bin[m].v = publicado[m]
  /\ publicado' = [publicado EXCEPT ![m] = @ + 1]
  /\ UNCHANGED <<config, disco, processo, quedas>>

-----------------------------------------------------------------------------
(* cacic-service: mslot().                                                 *)

\* A slot that cannot reach the manager does nothing and is not a step.
Comunica ==
  /\ Em("servico", "ocioso")
  /\ config' = publicado
  /\ SegueEm("servico", "confere", Modulos)
  /\ UNCHANGED <<publicado, disco, quedas>>

\* The new file replaces what is in temp/, in place: a file that was there
\* keeps its execution bit while it is written.
AbreDownload(p, m, onde, resta) ==
  /\ disco' = [disco EXCEPT ![onde][m].v = 0]
  /\ processo' = [processo EXCEPT ![p].pc = "baixa", ![p].resta = resta,
                     ![p].m = m, ![p].onde = onde, ![p].aberto = TRUE]

\* Mutant: only the main folder is looked at.
MutConferido(m) == disco.bin[m].v = config[m]

Conferido(m) == disco.bin[m].v = config[m] \/ disco.temp[m].v = config[m]

\* verificaModulo(): the hash of the module, then the one already in temp/.
Confere(m) ==
  /\ Em("servico", "confere")
  /\ m \in processo["servico"].resta
  /\ LET resta == processo["servico"].resta \ {m}
     IN  IF Conferido(m)
         THEN SegueEm("servico", "confere", resta) /\ UNCHANGED disco
         ELSE AbreDownload("servico", m,
                IF disco.bin[m] = Ausente THEN "bin" ELSE "temp", resta)
  /\ UNCHANGED <<publicado, config, quedas>>

AposDownload(p) ==
  SegueEm(p, IF p = "servico" THEN "confere" ELSE "inicia", processo[p].resta)

\* The file gets its execution bit when its last byte is there, and its hash
\* is not checked. One that lost its name meanwhile is gone.
Baixado(p) ==
  /\ Em(p, "baixa")
  /\ LET q == processo[p]
     IN disco' = IF q.aberto
                 THEN [disco EXCEPT ![q.onde][q.m] = Pronto(publicado[q.m])]
                 ELSE disco
  /\ AposDownload(p)
  /\ UNCHANGED <<publicado, config, quedas>>

\* The file is removed by its name.
BaixaFalha(p) ==
  /\ "download" \in Ambiente
  /\ Em(p, "baixa")
  /\ disco' = [disco EXCEPT ![processo[p].onde][processo[p].m] = Ausente]
  /\ AposDownload(p)
  /\ UNCHANGED <<publicado, config, quedas>>

\* Mutant: chksys is looked for among the downloads.
MutIniciaModulos ==
  /\ Em("servico", "confere")
  /\ processo["servico"].resta = {}
  /\ processo' = [processo EXCEPT
       !["servico"] = Vai(@, "executa", {}),
       !["vigia"] = IF @.pc = "parado" /\ Executa(disco.temp["chksys"])
                    THEN Inicio(disco.temp["chksys"].v) ELSE @]
  /\ UNCHANGED <<publicado, config, disco, quedas>>

\* iniciarThread(): chksys is started when it is on disk and does not run.
IniciaModulos ==
  /\ Em("servico", "confere")
  /\ processo["servico"].resta = {}
  /\ processo' = [processo EXCEPT
       !["servico"] = Vai(@, "executa", {}),
       !["vigia"] = IF @.pc = "parado" /\ Executa(disco.bin["chksys"])
                    THEN Inicio(disco.bin["chksys"].v) ELSE @]
  /\ UNCHANGED <<publicado, config, disco, quedas>>

-----------------------------------------------------------------------------
(* verificarModulos(), which the service and chksys each have.             *)

\* The list is made once, and followed to its end.
Lista(p) ==
  /\ Em(p, IF p = "servico" THEN "executa" ELSE "ocioso")
  /\ SegueEm(p, "instala", {m \in Modulos : disco.temp[m].exec})
  /\ UNCHANGED <<publicado, config, disco, quedas>>

\* Mutant: chksys does not stop the service before it replaces its file.
MutMata(p, m) == p = "servico" /\ m = "chksys"

\* Each stops the other before replacing its file.
Mata(p, m) == m = Executavel[Outro(p)] /\ disco.bin[m] # Ausente

Remove(p, m) ==
  /\ Em(p, "instala")
  /\ m \in processo[p].resta
  /\ p = "servico" => m # "cacic-service"
  /\ disco' = [disco EXCEPT !.bin[m] = Ausente]
  /\ processo' = [processo EXCEPT
       ![p].pc = "removeu", ![p].m = m, ![p].resta = @ \ {m},
       ![Outro(p)] = IF Mata(p, m) THEN Parado ELSE Desliga(@, "bin", m)]
  /\ UNCHANGED <<publicado, config, quedas>>

\* Mutant: the module at hand is released before temp/ is cleaned.
MutCopia(p) ==
  /\ Em(p, "removeu")
  /\ LET m == processo[p].m
     IN  /\ disco' = IF disco.bin[m] = Ausente
                     THEN [disco EXCEPT !.bin[m] = disco.temp[m]] ELSE disco
         /\ SegueEm(p, "copiou", processo[p].resta)
  /\ UNCHANGED <<publicado, config, quedas>>

\* A second later. Without the file in temp/ the copy fails and nobody asks.
Copia(p) ==
  /\ Em(p, "removeu")
  /\ LET m == processo[p].m
     IN  IF disco.bin[m] = Ausente
         THEN /\ disco' = [disco EXCEPT !.bin[m] = disco.temp[m]]
              /\ processo' = [processo EXCEPT ![p].pc = "copiou"]
         ELSE /\ SegueEm(p, "instala", processo[p].resta)
              /\ UNCHANGED disco
  /\ UNCHANGED <<publicado, config, quedas>>

Apaga(p) ==
  /\ Em(p, "copiou")
  /\ LET m == processo[p].m
     IN  /\ disco' = [disco EXCEPT !.temp[m] = Ausente]
         /\ processo' = [processo EXCEPT
              ![p] = Vai(@, "instala", @.resta),
              ![Outro(p)] = Desliga(@, "temp", m)]
  /\ UNCHANGED <<publicado, config, quedas>>

\* Its own update the service leaves to chksys: it ends, with what is left in
\* the list, and whether or not chksys runs.
ServicoSeEncerra ==
  /\ Em("servico", "instala")
  /\ "cacic-service" \in processo["servico"].resta
  /\ processo' = [processo EXCEPT !["servico"] = Parado]
  /\ UNCHANGED <<publicado, config, disco, quedas>>

ServicoTermina ==
  /\ Em("servico", "instala")
  /\ processo["servico"].resta = {}
  /\ SegueEm("servico", "ocioso", {})
  /\ UNCHANGED <<publicado, config, disco, quedas>>

-----------------------------------------------------------------------------
(* chksys: the rest of onTimerCheckService().                              *)

\* Mutant: a service whose file is there is taken for a running one.
MutVerifica ==
  /\ Em("vigia", "instala")
  /\ processo["vigia"].resta = {}
  /\ IF Em("servico", "parado") /\ disco.bin["cacic-service"] = Ausente
     THEN AbreDownload("vigia", "cacic-service", "bin", {})
     ELSE SegueEm("vigia", "ocioso", {}) /\ UNCHANGED disco
  /\ UNCHANGED <<publicado, config, quedas>>

Verifica ==
  /\ Em("vigia", "instala")
  /\ processo["vigia"].resta = {}
  /\ IF ~Em("servico", "parado")
     THEN SegueEm("vigia", "ocioso", {}) /\ UNCHANGED disco
     ELSE IF disco.bin["cacic-service"] = Ausente
     THEN AbreDownload("vigia", "cacic-service", "bin", {})
     ELSE SegueEm("vigia", "inicia", {}) /\ UNCHANGED disco
  /\ UNCHANGED <<publicado, config, quedas>>

\* The service, if it can be started: what /etc/init.d/cacic3 start does.
Levanta(q) ==
  IF q.pc = "parado" /\ Executa(disco.bin["cacic-service"])
  THEN Inicio(disco.bin["cacic-service"].v) ELSE q

Inicia ==
  /\ Em("vigia", "inicia")
  /\ processo' = [servico |-> Levanta(processo["servico"]),
                  vigia   |-> Vai(processo["vigia"], "ocioso", {})]
  /\ UNCHANGED <<publicado, config, disco, quedas>>

-----------------------------------------------------------------------------
(* Crashes. The machine starts the service and not chksys.                 *)

ProcessoCai(p) ==
  /\ "queda" \in Ambiente
  /\ quedas < MaxQuedas
  /\ ~Em(p, "parado")
  /\ quedas' = quedas + 1
  /\ processo' = [processo EXCEPT ![p] = Parado]
  /\ UNCHANGED <<publicado, config, disco>>

MaquinaReinicia ==
  /\ "queda" \in Ambiente
  /\ quedas < MaxQuedas
  /\ quedas' = quedas + 1
  /\ processo' = [servico |-> Levanta(Parado), vigia |-> Parado]
  /\ UNCHANGED <<publicado, config, disco>>

-----------------------------------------------------------------------------
Instala(p) == (\E m \in Modulos : Remove(p, m)) \/ Copia(p) \/ Apaga(p)

Passo(p) ==
  \/ Baixado(p) \/ BaixaFalha(p) \/ Lista(p) \/ Instala(p)
  \/ /\ p = "servico"
     /\ \/ Comunica \/ IniciaModulos \/ ServicoSeEncerra \/ ServicoTermina
        \/ \E m \in Modulos : Confere(m)
  \/ /\ p = "vigia"
     /\ Verifica \/ Inicia

Next ==
  \/ \E m \in Modulos : Publica(m)
  \/ \E p \in Processos : Passo(p) \/ ProcessoCai(p)
  \/ MaquinaReinicia

Spec == Init /\ [][Next]_vars

\* The timers fire, every transfer ends, and a module asked for again and
\* again is delivered in the end. Neither the manager nor a crash is fair.
Fairness ==
  \A p \in Processos :
    /\ WF_vars(Passo(p))
    /\ \A m \in Modulos : SF_vars(Baixado(p) /\ processo[p].m = m)

FairSpec == Spec /\ Fairness
===============================================================================
