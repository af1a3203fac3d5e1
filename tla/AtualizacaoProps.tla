--------------------------- MODULE AtualizacaoProps ---------------------------
(* What the update of the modules must achieve.                             *)
EXTENDS Atualizacao

\* Files, configuration and processes hold what the code stores in them, and a
\* process that downloads knows what it downloads.
TypeOK ==
  /\ publicado \in [Modulos -> 1..MaxVersao]
  /\ config \in [Modulos -> 1..MaxVersao]
  /\ disco \in [bin : [Modulos -> Arquivos], temp : [Modulos -> Arquivos]]
  /\ processo \in [servico : Quadros, vigia : Quadros]
  /\ \A p \in Processos :
       Em(p, "baixa") \/ Em(p, "removeu") \/ Em(p, "copiou")
         => processo[p].m \in Modulos
  /\ quedas \in 0..MaxQuedas

\* The service that runs is the one on disk: whoever replaces, downloads or
\* removes its file, in whatever order and with whatever crash in between, no
\* old version goes on running over a new file or over none.
VersaoEmExecucao ==
  ~Em("servico", "parado") =>
    disco.bin["cacic-service"] = Pronto(processo["servico"].versao)

-----------------------------------------------------------------------------
(* The inductive invariant behind VersaoEmExecucao.                         *)

\* While chksys replaces or downloads the service's file, the service is down.
VigiaTroca ==
  /\ (Em("vigia", "removeu") \/ Em("vigia", "copiou"))
       /\ processo["vigia"].m = "cacic-service" => Em("servico", "parado")
  /\ Em("vigia", "baixa") =>
       /\ Em("servico", "parado")
       /\ processo["vigia"].m = "cacic-service"
       /\ processo["vigia"].onde = "bin"

\* The service never writes its own file in the main folder.
ServicoNaoSeTroca ==
  /\ Em("servico", "baixa") /\ processo["servico"].m = "cacic-service"
       => processo["servico"].onde = "temp"
  /\ Em("servico", "removeu") \/ Em("servico", "copiou")
       => processo["servico"].m # "cacic-service"

IndVersao == TypeOK /\ VersaoEmExecucao /\ VigiaTroca /\ ServicoNaoSeTroca

-----------------------------------------------------------------------------
\* Once one of the two is down, nobody but the other can start it: they are never
\* down together, although each ends itself or kills the other to replace a file.
\* Not so when processes crash, chksys is not on disk or is itself updated.
UmVivo == ~Em("servico", "parado") \/ ~Em("vigia", "parado")

(* The inductive invariant behind UmVivo.                                   *)

\* Nobody has a reason to touch chksys, on disk or in the loops in progress.
ChksysIntocado ==
  /\ publicado["chksys"] = 1 /\ config["chksys"] = 1
  /\ disco.bin["chksys"] = Pronto(1) /\ disco.temp["chksys"] = Ausente
  /\ \A p \in Processos :
       /\ processo[p].m # "chksys"
       /\ Em(p, "instala") \/ Em(p, "removeu") \/ Em(p, "copiou")
            => "chksys" \notin processo[p].resta

\* The service does not begin to install, and so to end itself, before chksys runs.
VigiaAntes ==
  processo["servico"].pc \in {"parado", "executa", "instala", "removeu", "copiou"}
    => ~Em("vigia", "parado")

IndVivo == ChksysIntocado /\ VigiaAntes

-----------------------------------------------------------------------------
\* The service is back again and again: the agent's document has it check the
\* binaries and run the modules "de tempos em tempos".
ServicoSempreVolta == []<>~Em("servico", "parado")

\* Every module the manager publishes ends up on disk whole and executable, for
\* good, although the two installers race and downloads fail.
TudoAtualizado ==
  <>[](\A m \in Modulos : disco.bin[m] = Pronto(publicado[m]))
===============================================================================
