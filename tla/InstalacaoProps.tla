--------------------------- MODULE InstalacaoProps ---------------------------
(* What the installers and chksys promise together.                        *)
EXTENDS Instalacao

\* Every variable has its type; icsa/ is being written exactly while sa downloads, and
\* install-cacic keeps fileService open only while install() is at work.
TypeOK ==
  /\ registro \in {"nao", "sim", "marcado"}
  /\ servico \in {"parado", "rodando", "parando"}
  /\ bin \in Conteudos /\ temp \in Conteudos /\ icsa \in Conteudos
  /\ config \in BOOLEAN
  /\ vigia \in [pc : PontosVigia, fim : BOOLEAN]
  /\ sa \in PontosSa
  /\ ic \in [pc : PontosIc, lendo : BOOLEAN, desfaz : BOOLEAN]
  /\ pedidos \in 0 .. MaxPedidos /\ quedas \in 0 .. MaxQuedas
  /\ icsa = "baixando" <=> sa = "baixando"
  /\ Em("fora") => ~ic.lendo /\ ~ic.desfaz
  /\ Em("para") \/ Em("remove") \/ Em("copia") \/ Em("limpa") \/ Em("relanca") => ~ic.lendo

\* The file of a service that runs is whole and registered, or marked for deletion:
\* whatever the installers and chksys remove, copy and download meanwhile, none takes
\* it away, and none starts what another is still writing.
RodandoInteiro ==
  /\ Ativo => bin \in Inteiros /\ registro # "nao"
  /\ bin \in Inteiros => ~Gravando

\* installcacic-standalone puts nothing in the main folder but the version whose hash
\* it has compared with the manager's, in spite of what happens to icsa/ between the
\* comparison and the move.
SaSoInstalaConferido == [][SaMove => bin' \in {bin, "novo"}]_vars

\* Of many downloads one ends well.
ChksysBaixa == SF_vars(VigiaBaixou /\ bin' = "novo")
SaBaixaBem  == SF_vars(SaBaixou /\ icsa' = "novo")

\* Users log on and the manager answers; and of many moves one finds chksys not
\* downloading to the place that sa has just emptied.
UsuariosEntram == SF_vars(SaComeca) /\ SF_vars(SaMove /\ sa' # "fora")

\* installcacic-standalone, which runs at each logon, repairs what the others leave in
\* the main folder and in the control manager: a file in part, a service without a
\* registration or with one and no file, an uninstallation that stopped half way. A
\* cacic-service.exe in part in temp/ it leaves there; chksys may then stop the service
\* and put that part in the place of the file just moved, which a later logon repairs.
\* So the service runs again and again, though not for good.
SaConserta ==
  ChksysBaixa /\ SaBaixaBem /\ UsuariosEntram => []<>(servico = "rodando")

\* chksys alone, with no logon, brings back a service that is down, once its
\* configuration exists, unless it is itself stopped. What it can not repair are a file
\* in part, which it never downloads again, and a service that awaits its deletion.
VigiaRepara ==
  ChksysBaixa =>
    (vigia.pc \notin {"ausente", "fora"} /\ config) ~>
       \/ servico = "rodando"
       \/ ~config \/ vigia.fim \/ sa # "fora"
       \/ bin = "parcial" \/ registro = "marcado"

=============================================================================
