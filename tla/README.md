# Verification of the Cacic agent

TLA+ models of the agent of Cacic (Configurador Automático e Coletor de
Informações Computacionais), the program that runs on each machine, collects
its hardware and software, and delivers them to the manager (*gerente*). The
models are translated from the C++/Qt source in `src/`; TLC checks them on
small instances and TLAPS proves the safety properties that matter most for
every value of the constants. `PROJECT.json` maps each definition to the lines
it stands for, and lists the runs, the mutants of the code that each property
detects, the hazards and the theorems.

1. [The system](#1-the-system)
2. [The modules](#2-the-modules)
3. [What is checked](#3-what-is-checked)
4. [Fairness](#4-fairness)
5. [What is proved](#5-what-is-proved)
6. [What the models found](#6-what-the-models-found)
7. [Plan](#7-plan)
8. [Not modelled](#8-not-modelled)

How to run it, in this directory:

    tlasany Coleta.tla
    tlc -workers 2 -config ColetaSemFalhas.cfg ColetaProps
    tlapm ColetaProofs.tla

## 1. The system

The agent is a set of processes on one machine and a manager reached by HTTP.

    manager  <---- HTTP POST / GET, FTP ---->  cacic-service  <--- local socket ---> cacic-ui
                                                |   ^    |
                         starts and waits for   |   |    | starts
                              gercols  <--------+   |    +-----> mapacacic, cacicdeploy
                                                    |
                                              chksys (starts it, is started by it)

    shared by all of them, without a lock: bin/ and temp/, the JSON files
    (getConfig, coleta, coletaDiff, getMapa, outros), the registry values

What makes it hard is the same everywhere:

- **Nested event loops.** `CacicComm::comm()` sends a request and waits for its
  answer in a local `QEventLoop` (`src/src/cacic_comm.cpp:48-113`). Every other
  slot of the thread may run inside that wait: the timer's, the user's FORCAR,
  the queued end of a worker. The calls in progress form a stack and only the
  one on top can go on.
- **A timeout that is a success.** After ten seconds the loop is left with the
  reply still running; its error is `NoError` and `comm()` returns ok.
- **Processes that share files and registry values.** Each reads, computes and
  writes with no lock; a crash may fall between any two of the writes.
- **Two supervisors** that replace each other's files, stop each other from
  their main threads, and each rely on the other to be started.
- **Two installers** that an administrator or a logon may start at any point of
  that, with nothing between them but the locks Windows keeps on open files.
- **Signals between threads**, queued and delivered in any order with respect
  to timers and sockets; a mutex taken in one thread and released in another.

### Components

| Component | State it keeps | Operations | Talks to | What makes it correct |
|---|---|---|---|---|
| Delivery of the coleta: `cacicD/cacictimer.cpp`, `gercols/`, `Mapa/` | `coleta.json`, `coletaDiff.json`, registry `enviaColeta` and `dataColetaEnviada`, `nu_forca_coleta` | timer slot, running of the collector and of the patrimony form, `enviarColeta()` and `realizarEnviodeColeta()` | manager (POST), child processes, user (FORCAR) | no change of the inventory is forgotten; the date of the last delivery means a delivery; the manager ends up with the inventory |
| Update of the modules: `src/CheckModules`, `cacicD/cacictimer.cpp`, `chksys/` | `bin/`, `temp/`, hashes of `getConfig.json`, which processes run | comparison of hashes, download, two copies of `verificarModulos()`, start and stop of each other | manager (FTP/HTTP), `/etc/init.d/cacic3` | the service always comes back; the modules end up current and whole; what runs is what is on disk |
| Execution of the manager's modules: `cacicdeploy/`, `src/cacicthread.cpp` | list *outros*, timer, mutex, worker, `deploy/` | `onTimer()`, worker, `confirmaExecucao()` | manager | one module at a time; only those that are due; the timer comes back |
| Comparison of collections: `gercols/gercols.cpp` | old and new `coleta.json`, `coletaDiff.json`, `enviaColeta` | `run()`, `verificaColeta()`, `percorreColeta()` | — | no datum is missed, and none is left out of the difference |
| Interface and service: `cacic-ui/uiclient.cpp`, `cacicD/serviceserver*.cpp` | sockets and timers of the interface, threads of the service, queued slots | connect, reconnect, FORCAR, FINALIZAR, ACK | local socket | the ACK that closes the interface answers FINALIZAR; a button works again; the interface does not outlive the service |
| Windows services: `src/servicecontroller.cpp`, `src/qtservice/src/qtservice_win.cpp` | status in the control manager, three threads of each service, a mutex and a condition | `serviceMain()`, the control handler, the events of the main thread; `isRunning()`, `start()`, `stop()`, `waitPending()` | control manager, installers | the status is the process's; no thread sleeps for ever; a stop ends even if the two services stop each other |
| Stopping the interface: `cacicD/serviceclient.cpp`, `cacic-ui/uiserver*.cpp` | a second connection | STOPUI, its ACK, the wait in `stop()` | local socket | `stop()` ends, and with it the interface |
| Timer of the service: `cacicD/cacictimer.cpp:28-52,874-897` | interval | `reiniciarTimer()`, `verificarPeriodicidade()` | configuration | the timer always runs, with a legal interval |
| Service process: `cacicD/cacicd.cpp`, `main.cpp`, `qtservice` | running or not | start, stop, pause | system | — |
| Communication: `src/cacic_comm.cpp` | session, reply in progress | `login()`, `comm()`, `fileDownload()`, FTP | manager | an answer belongs to its request |
| Files and registry: `src/ccacic.cpp`, `src/vregistry.cpp` | files, registry | read, write, `findProc()` | — | a file is whole when it is read |
| Patrimony form: `Mapa/` | what the user typed | form, LDAP query, `salvarInfo()` | user | — |
| Collectors: `src/` hardware and software readers | — | WMI, lshw, package managers | system | — |
| Log: `src/logcacic.cpp`, `src/QLogger.cpp` | log files | write; `enviarLogs()` reads the day's errors | manager | lines are not mixed |
| Installers of the service: `install-cacic/`, `installcacic-standalone/` | service registration, `cacic-service.exe` in three folders, `getConfig.json` | `install()`, `updateService()`, `uninstall()`; `verificaServico()` at each logon | manager, chksys, service | the file of a running service stays whole; the service runs in the end, whatever stopped half way |
| Session start, UI windows, `http-server`, LDAP, conversions, Windows scripts, tests, vendored code | | | | |

`PROJECT.json` has one entry for each with its status; section 8 says why the
ones without a module have none.

### The hazards

`PROJECT.json` lists them at their lines. The ones that decided what to model
first:

1. FORCAR and the timer run inside the waits of a cycle in progress
   (`cacictimer.cpp:255`).
2. `enviaColeta` is written by the collector and by the sender, and a crash,
   a failure or a false success may fall between any two writes
   (`gercols.cpp:25,33`, `cacic_comm.cpp:78`, `cacictimer.cpp:655`).
3. The form rewrites `coleta.json` while the collector does (`mapa.cpp:288`).
4. chksys and the service install `temp/` at the same time
   (`chksystimer.cpp:170`, `cacictimer.cpp:154`), and each can end with nobody
   left to start it again (`cacictimer.cpp:199`).
5. `onTimer()` of cacicdeploy is re-entered inside its own downloads with the
   timer stopped or not, and its mutex crosses threads
   (`deploytimer.cpp:70,81,99,112`).
6. The positions of one list are looked up in another (`gercols.cpp:127`).
7. One line is read however many have arrived, and an ACK is anonymous
   (`serviceserverthread.cpp:67`, `uiclient.cpp:122,139`).
8. Each Windows service stops the other from the thread that would handle its
   own stop (`servicecontroller.cpp:123`), and `stop()` of the service waits for
   an ACK that the end of the interface can lose (`serviceclient.cpp:102`).
9. One condition wakes the threads of `serviceMain()` and of the handler
   (`qtservice_win.cpp:591`).
10. A half-written file in `temp/` or in the main folder, which on Windows is as
    good as any other to whoever installs it (`chksystimer.cpp:158`), and
    registrations that two installers make at once (`installcacic.cpp:300`).

## 2. The modules

| Family | Model | Properties | Proofs | Composes |
|---|---|---|---|---|
| Coleta | `Coleta` | `ColetaProps`, abstract `Espelho` | `ColetaProofs`, `EspelhoProofs` | service, collector, form, manager |
| Atualizacao | `Atualizacao` | `AtualizacaoProps` | `AtualizacaoProofs` | service, chksys, manager, files |
| Deploy | `Deploy` | `DeployProps` | `DeployProofs` | timer, worker thread, manager |
| Diferenca | `Diferenca` | `MCDiferenca` | — (recursive operators) | collector, form, sender |
| Interface | `Interface` | `InterfaceProps` | `InterfaceProofs` | interface, service, sockets |
| Parada | `Parada` | `ParadaProps`, abstract `CicloServico` | `ParadaProofs` | the two Windows services, the control manager, the interface, an installer |
| Instalacao | `Instalacao` | `InstalacaoProps` | `InstalacaoProofs` | both installers, chksys, the service, files, registration |

Names of actions and variables are those of the code where it has a name
(`enviaColeta`, `verificaColeta`, `on_readyRead`, `confirmaExecucao`), in
Portuguese like the code where it has none. Operators named `Mut...` are wrong
versions of the operator they precede or follow: they are used nowhere in the
specifications and serve to see that the properties notice such a mistake.

### Coleta

| Code | Model |
|---|---|
| thread of the service, with its nested loops | `pilha`, frames with a program counter; `DespachaEventos` says when another slot may run |
| `mslot()` (`cacictimer.cpp`) | `Mslot`, then `ComunicaOk`, `ComunicaTimeout`, `ComunicaErro`, `ExecutaGercols`, `GercolsTerminou`, `PulaGercols`, `ConsultaMapa`, `GetMapaResponde`, `EnviaNoCiclo` |
| `iniciarThread()`: list of modules in the order of the hash | `resta`, a set: any order |
| `Gercols::run()`, another process | `GercolsLe`, `GercolsGrava`, `GercolsCompara`, `GercolsRegistra`: each read or write of something shared is a step |
| `Mapa::salvarInfo()`, another process | `MapaLe`, `MapaGrava`, `MapaRegistra`; leaving without saving: `MapaFecha` |
| `enviarColeta()` | `RamoDoEnvio` (forced, changed, older than seven days, nothing), `EnviarColeta` |
| `realizarEnviodeColeta()` and the rest of each branch | `EnvioOk`, `EnvioTimeout`, `EnvioErro`, `AposEnvio`, `DiffResponde` |
| FORCAR | `ForcarColeta` |
| manager storing a POST, in any order; a request the agent gave up on | `GerenteProcessa`, `AtrasadaChega`, `AtrasadaSePerde` |
| crash of the service, of the machine | `ServicoReinicia`, `MaquinaReinicia` |

A collection is the version of the inventory it was made from, and whether it
carries the form's section. `Diferenca` models the comparison itself; here
`verificaColeta` keeps what decides the protocol: sections present in only one
of the two collections are not compared. `Ambiente` chooses what may go wrong
(`erro`, `timeout`, `queda`), whether the manager asks for the form (`mapa`)
and whether the timer may fire inside a cycle (`reentrada`).

`Espelho` is the abstract specification: a manager's copy that may lag behind
and may go back, but only shows what the machine has had and is brought up to
date in the end. `Coleta` implements it with `fonte <- inventario` and
`copia <- gerente.inv`. Its `Seguro` is what the copy may show, with no promise
that it follows.

### Atualizacao

Linux build. A file is its version (the hash identifies it; 0 is a file being
downloaded) and its execution bit. Each of the two processes has a program
counter, and every removal, copy, download or process control is a step of its
own, since the other process may act between any two. `Confere` is
`CheckModules::verificaModulo()`; `Lista`, `Remove`, `Copia`, `Apaga` are the
two copies of `verificarModulos()`, which take the list of `temp/` once;
`Mata` is the `killall` of the other process; `ServicoSeEncerra` is the service
that leaves its own update to chksys; `Verifica` and `Inicia` are the rest of
`onTimerCheckService()`. `Baixado` and `BaixaFalha` act by the file's name, and
a file unlinked during the download (`Desliga`) loses its name, as on Linux.
`/etc/init.d/cacic3`, not in the repository, is external: `Levanta`.

### Deploy

`OnTimer`, `AutorizaResponde`, `Baixado`, `IniciaFio`, `DesisteDoMutex` are the
parts of `DeployTimer::onTimer()` between its waits; `FioExecuta` and
`FioTermina` are `CacicThread`; `ConfirmaExecucao` and `Confirmado` are the
queued slot and its request. The mutex is released by a thread that did not
take it: undefined in Qt's documentation, and modelled as what its
implementation on the platforms of the build does, a release. The success that
`fileDownload()` returns is read from a deleted reply and so is independent of
the file (`Baixado`).

### Diferenca

JSON values are records with one field named for their kind. A missing key is
null and a position beyond the end of an array is undefined, as Qt returns
them. `percorreColeta`, `percorreObjeto`, `percorreLista` and `Diferencas` are
the code's functions; the reference definition `Dados` flattens a collection
into a set of pairs of a path and a value, and knows nothing of the recursion
over two values.

### Interface

One record per connection: what is on its way, what has arrived and was not
read, in each direction, and which end has closed it. The interface has one
thread (the `moveToThread` in its set-up has no effect: the object has a
parent); its sockets are replaced and never deleted; `connectTimer` is not
stopped by a success. The service has a thread per connection, which answers
before the main thread has acted on the queued signal. `finalizou` is a history
variable used by a property only. What Coleta does with FORCAR is there, and
what Interface does with the end of the service is the `ServicoReinicia` of
Coleta and the `parado` of Atualizacao: the three are separate models that meet
in those actions.

### Parada

The start and the stop of the two Windows services. One record or value per
service for each of its threads:

| Code | Model |
|---|---|
| `main()` thread with its event loop | `fio[s]`: its point, whether the nested loop of `stop()` is on the stack, whether `quit()` was called |
| `QtServiceSysPrivate::serviceMain()` | `inicio[s]`: `SemaforosLiberados`, `PostaInicio`, `EsperaInicio`, `AnunciaInicio` |
| `handler()` of a stop | `controle[s]`: `PostaParada`, `EsperaParada`, `Devolve` |
| mutex, `QWaitCondition`, posted events | `mutex[s]`, the points `espera` and `acordado`, `eventos[s]`; `TrataInicio`, `Acorda` are `handleCustomEvent()` |
| `exec()` returns, the process ends | `Termina` |
| `chksys::stop()`, `cacicD::stop()` | `ParaVigia`, `ParaServico`; the nested loop ends in `LeAck`, `NinhoTermina` |
| `ServiceClient` with its two timers | `cliente`; `Desconecta`, `Reconecta` |
| `UiServerThread`, `on_finalizar()` of the interface | `LeStopUi`, `EnviaAck`, `on_finalizar` |
| `ServiceController`, run by an installer and by the main thread of each service | `chamada[c]`: `Pergunta`, `PedeParada`, `Respondido`, `ControleExpira`, `FimDaEspera` (stop), `PerguntaInicio`, `Consulta`, `Lanca` (start) |
| `on_finalizar()` of the service, `verificarModulos()`, the cycle's `chksys.exe`, `onTimerCheckService()` | `Finaliza`, `AtualizaVigia`, `IniciaVigia`, `TimerVigia` |

A wait with a limit may end at any time, with or without what it waited for
(`Esperou`): thirty seconds are not compared with how long the other takes. A
status that nobody has filled (`lpsStatus`, when `ControlService()` fails) may
be any. `perdeu` is a history variable.

`CicloServico` is the abstract specification: a service as the control manager
sees it, with no threads, events or callers. It is announced once per process, a
stop that was reported is never taken back, and the next start begins with a
process that has ended. `Parada` implements it with `estado <- scm`.

AtualizacaoAmbos and Parada are the two builds of the same mutual supervision:
on Linux processes are killed, on Windows each is a service.

### Instalacao

Four processes over the same files, Windows build. A file is absent, being
written, left in part, or whole in the old or new version: `bin` in the main
folder, `temp` where the service leaves its update, `icsa` where the standalone
installer downloads. What separates two processes is what Windows separates: a
file that runs is neither written nor removed, one that is open is not removed
or moved (`Removivel`, external).

| Code | Model |
|---|---|
| `InstallCacicSA::exec()` up to the hash, `downloadService()`, `verificaServico()` | `SaComeca`, `SaBaixa`, `SaBaixou`, `SaConfere`, then `SaPara`, `SaApaga`, `SaMove`, `SaRegistra`, `SaInicia`; the points `apagaSem`, `moveSem` are the branch of a service that is not registered |
| `InstallCacic::install()` | `IcInstala`, `IcVerifica`, `IcParaVigia`, `IcBaixa`, `IcBaixou`, `IcConclui`, `IcRegistra`, `IcInicia`; `ic.lendo` while `fileService` is open |
| `updateService()` | `IcAtualiza`, `IcPara`, `IcRemove`, `IcCopia`, `IcLimpa`, `IcRelanca` |
| `uninstall()`, by itself or from `install()` (`ic.desfaz`) | `IcDesinstala`, `IcDesinstalaServico`, `IcDesregistra`, `IcApaga`, `IcApagaBin` |
| `onTimerCheckService()` of chksys with `verificarModulos()` and `downloadService()` | `OnTimerCheckService`, then the `Vigia...` actions; a stop is taken in the event loop, the one of a download too (`VigiaInterrompida`) |
| the cycle of cacic-service, as far as it touches these files | `ServicoBaixa`, `ServicoBaixou`, `ServicoIniciaVigia`, `ServicoFinaliza` |
| `ServiceController` | `Para` (in time, late, or nothing to stop), `Inicia`, `Desregistra`; its waits in detail are in Parada |

`deleteCacicAntigo()` empties `C:\Cacic` except for twelve names, in every folder:
`delFolder()` hands the same list to its recursion and compares bare names, and
`cacic-service.exe` is one of them, so `temp/` keeps it, whole or in part
(`SaComeca` leaves the four files as they are). The hash of the installed file is never computed
before the download, so the branch of an equal hash is not reachable and
`SaComeca` always goes on to the download.

## 3. What is checked

Every run that is expected to pass completes its state space. *Distinct* is the
number of states TLC finds.

| Run | Question | Bounds | Distinct |
|---|---|---|---|
| `ColetaSemFalhas` | With nothing failing, but FORCAR nested anywhere and the inventory changing at any point: types, no compared change is forgotten (`NadaEsquecido`), and the manager never goes back (`SemRegresso`) | 3 versions, 3 days, 3 nested slots | 6,294 |
| `ColetaEspelho` | Failures, timeouts and a crash: the agent implements the mirror (`CopiaFiel`), with its liveness | 2 versions, 2 days, 1 slot, 1 crash | 28 thousand |
| `ColetaMapa` | Failures and a form that races the collector: the date means a delivery (`DataSoDepoisDaEntrega`), the manager catches up (`EntregaEventual`) | 2 versions, 2 days, 1 slot | 99 thousand |
| `ColetaTimeout` | *violation*: a timeout is taken for a delivery (`NadaEsquecido`) | 2 versions | — |
| `AtualizacaoUm` | The service and gercols updated, downloads failing, the two installers racing: one of the two supervisors is alive (`UmVivo`), the service comes back (`ServicoSempreVolta`), everything ends up current (`TudoAtualizado`) | 3 versions | 14.7 thousand |
| `AtualizacaoQueda` | Both supervisors updated, overlapping versions, failures, a crash: types, what runs is what is on disk (`VersaoEmExecucao`) | 2 versions, 1 crash | 47.8 thousand |
| `AtualizacaoAmbos` | *violation*: both supervisors updated in one cycle (`ServicoSempreVolta`) | 2 versions | — |
| `Deploy` | Re-entered slots, downloads failing or misreported: types, `UmPorVez`, `TemporizadorDevido`, `PrazoDoDono`, `TemporizadorVolta`, and every module is run once all are due (`VencidosRodam`) | 2 modules, 2 slots, 2 signals | 30 thousand |
| `Diferenca` | Every pair of collections of a small universe: `MudancaDetectada`, `DiferencaCompleta` | 25 hardware and 2 software sections | 8,393 |
| `Interface` | Two connections, three clicks, a service that ends twice and may return: types, `NadaSemLer`, `BotaoDevido`, `AckDoFinalizar`, `FinalizarChega`, `BotaoVolta`, `InterfaceTermina` | 2 connections, 3 clicks, 2 ends | 163 thousand |
| `Parada` | Two services stopped and started by an installer, the user and each other, with an interface that opens and closes freely: types, `StatusVerdadeiro`, `DespertarGarantido`, `RespostaDevida`, `ParadaTermina`, `InterfaceAcaba`, `ChamadaVolta`, `UmSustentaOutro`, and the refinement `CicloDosServicos` | 1 connection trial, 2 requests | 61 thousand |
| `Instalacao` | Both installers, chksys and the service at once, and a restart of the machine: types, `RodandoInteiro`, `SaSoInstalaConferido`, `SaConserta`, `VigiaRepara` | 1 run of install-cacic, 1 restart, any number of logons | 260 thousand |

### Why the bounds are enough

- *Versions*: two are needed to have an old and a new one, and a third to have
  a change arrive while another is delivered. Nothing in the code counts them.
  `MaxVersao` stops the inventory, which is also what lets "in the end" be said.
- *Days*: the code compares an age with seven. Two or three days keep the three
  cases apart: never, younger, old enough. The age stops at the limit.
- *Nested slots*: at depth one the service handles one slot at a time; two
  show a send nested in the send of the cycle; three, a send nested in a nested
  send. A frame only sees what the ones above it did to the files, so deeper
  stacks repeat the same effects. The liveness runs use depth one, the safety
  run and the proofs the others.
- *Crashes*: one at every point of every process; what a second one could
  destroy is on disk, and the state after a restart is one the first can leave.
- *Modules of Deploy*: two, of which one has a timeout and one can be put off:
  the smallest list in which an index can take the wrong one and in which one
  round waits for another. Two slots: `onTimer` within a download of `onTimer`,
  the confirmation within either and either within the confirmation. A third
  was tried with one signal (134 thousand states, nine minutes) and changes no
  answer; the proofs hold for any number. `MaxSinais` bounds the ends of workers
  that were not dispatched before the timer fires again.
- *Connections*: two, an old and a current one, which is what the code keeps
  apart (one `socket`). When none is free a reconnection waits: the interface
  of the code would open a third. Three clicks: two requests in one segment and
  a third to show what is left unread.
- *Stops of the services*: two requests, by the installer, the user or an
  update, are enough for both services to stop each other at once and for a
  stop to meet a start; the timer of chksys and the cycle start each other
  without a bound. One connection trial keeps the three cases of
  `ServiceClient`: first failure, last failure, connected.
- *Installations*: one run of install-cacic (with its three forms) against any
  number of runs of the standalone installer, checks of chksys and cycles of
  the service. Two runs were tried (910 thousand states) and change no answer.
  One restart, at any point; what it leaves can be left by the first.
- *Collections*: lists that are empty, grow, shrink, change order and differ
  only in keys that are ignored; a key that is missing, null, an empty object,
  or changes.

Deadlock is checked except where the system really may rest:
`AtualizacaoAmbos` and `AtualizacaoQueda` (both processes can be down for good,
which is what the first of them is about), `Interface` (the clicks are bounded
and the processes end) and `Parada` (both services can be stopped).

### What the properties say

- **NadaEsquecido** relates a registry value that two processes write to the
  manager's copy: after the collector compared, either the value asks for a
  delivery or the manager has the collection. A failed request followed by an
  unchanged collection, or a false success, breaks it: it is checked (and
  proved) without failures, and `ColetaTimeout` shows the second of the two.
- **SemRegresso** relates two states: the manager never replaces a version by an
  older one, although several requests are pending at once, nested in each
  other's event loop, answered in any order, and the collector rewrites the file
  between two of them. It holds because the service waits for the collector
  outside any event loop, and fails (its mutant) if the wait dispatched events.
  A timeout, a crash, the form or a re-entered timer slot each break it.
- **DataSoDepoisDaEntrega**: the clock of the resend never runs before the
  first delivery, so a machine the manager does not know is always asked for.
- **CopiaFiel**, **EntregaEventual**: all the ways of losing a change are made
  good by the resend. This is what the agent can promise with failures.
- **UmVivo** is what **ServicoSempreVolta** rests on: each process ends itself or
  is killed to be replaced, and only the other can start it. The service starts
  chksys before it installs anything, and so before it can end itself. TLC finds
  `UmVivo` false once a process crashes, chksys itself is published, or chksys
  is not on disk and its download fails.
- **VersaoEmExecucao**, **ServicoSempreVolta**, **TudoAtualizado**: safety and
  liveness of two unlocked installers.
- **UmPorVez**, **TemporizadorDevido**, **TemporizadorVolta**: the mutex and
  the timer under re-entrance. **PrazoDoDono**: every slot waits for the mutex
  with the one `this->timeout`; it is the timeout of the module that holds the
  mutex, although another slot may be confirming the end of an earlier one.
  **VencidosRodam**: once every module stays due
  each of them is run, although the rounds index one list with the positions of
  another. (With modules that are not due the index picks wrong ones: section 6.)
- **MudancaDetectada** (both ways: changes are found, and nothing is marked
  when only ignored keys change), **DiferencaCompleta**.
- **AckDoFinalizar**, **FinalizarChega**, **BotaoVolta**, **InterfaceTermina**:
  an anonymous ACK closes the interface only if FINALIZAR was handled; no
  request stays unread, no button dead, no interface alone.
- **NadaSemLer** is the state behind **FinalizarChega**: the service reads one
  line of whatever has arrived, and nothing is left behind it, on the current
  connection or on one that was replaced, until FINALIZAR was handled.
  **BotaoDevido** is the one behind **BotaoVolta**: it names what a disabled
  button waits for, which a reconnection, a timer that was stopped or an answer
  on another socket could take away.
- **StatusVerdadeiro** relates what the control manager is told by one thread to
  where the two others are: never RUNNING before `start()`, never again once a
  stop has been asked for. **DespertarGarantido**: a thread asleep in
  `condition.wait()` has its event in the queue or being handled. Both rest on
  the mutex being held from the post to the wait, and fail without it.
- **RespostaDevida**: while `cacicD::stop()` is in its nested loop, STOPUI or its
  ACK is on its way or was lost with a process. The order in which the end of the
  connection and the ACK are handled decides it.
- **CicloDosServicos**: the refinement of `CicloServico`. `StatusVerdadeiro`
  relates the status to the threads in one state; this one says which status may
  follow which.
- **ParadaTermina**, **ChamadaVolta**: with each main thread inside a `stop()` of
  the other, the limits of the waits are what ends it. `ParadaTermina` excepts
  `SemResposta`, the ACK that is lost with the interface (section 6).
  **InterfaceAcaba**, **UmSustentaOutro**: what the stop is for, and what the
  two services are for.
- **RodandoInteiro** relates the process, the registration, the file and who is
  writing it. **SaSoInstalaConferido** relates the move to a comparison made
  several waits earlier, with three other processes at work in the folder.
- **SaConserta**, **VigiaRepara**: which of the two can repair what. chksys
  repairs a missing file or registration but neither a file left in part nor a
  registration that awaits its deletion, which `VigiaRepara` excepts by name;
  the standalone installer repairs these. It does not touch `temp/`: a part of
  `cacic-service.exe` there may be installed by chksys over the file just moved,
  which the next logon repairs. That is why `SaConserta` says that the service
  runs again and again and not that it runs for good: `<>[](bin # "parcial")` is
  false under the same assumptions, because the stop that the service asks of
  chksys before its own update may interrupt a download into the place the
  installer has just emptied, each time anew.

Each of them is broken by at least one mutant of the code, listed in
`PROJECT.json`.

## 4. Fairness

- *Coleta*. Weak: days pass, the collector's process runs, a form that is
  saving finishes, a late request arrives or is lost. Strong: the timer fires
  when no slot is running (the code's `QTimer` repeats), and the slot on top of
  the stack goes on at each depth — strong because a nested slot disables the
  one below. Strong too for the good outcome of a request that is tried again
  and again: the contact, the collector being on disk, the post, the manager's
  storing of it. Without it a manager that is never reached is a legal
  behaviour in which nothing can arrive. FORCAR, the form, changes, failures,
  timeouts and crashes are not fair.
- *Atualizacao*. Weak for each process: its timer and its steps. Strong for
  the success of a download that is tried again and again. That a transfer
  ends is assumed: `fileDownload()` has no timeout, and with a transfer that
  hangs nothing holds (a hazard without a property). Publication and crashes
  are not fair.
- *Deploy*. Weak: the workers' thread, which assumes that the modules end (the
  code's kill timer acts on a process that runs nothing). Strong: the slot on
  top at each depth, the dispatch of a queued signal, and the timer while
  active, each of which a nested slot can disable. Strong for each module: a
  download of it tried again and again succeeds (`BaixaBem`), and a worker
  started for it again and again finds its file, which a confirmation of another
  module may have removed. `VencidosRodam` needs the last two.
- *Interface*. Weak only: the two event loops, the delivery of what was sent,
  the ends of connections. Clicks, ends and starts of the service are not fair.
- *Parada*. Weak: the system's threads, the calls of `ServiceController` (a wait
  ends, at its limit if not before), the interface's loop, the timer of chksys
  and the cycle. Strong: the dispatch of a posted event and the reading of the
  ACK, which a slot that starts again can disable; Qt dispatches posted events
  at each turn of the loop before the timers. Requests, openings and ends of the
  interface are not fair.
- *Instalacao*. Weak: what was begun goes on (the service's end, chksys's loop
  and check, `verificaServico()`, install-cacic). What depends on the world is
  not in the specification but stands before each property as its assumption:
  a download tried again and again arrives whole (`ChksysBaixa`,
  `SaBaixaBem`), users log on and the manager answers, and of many moves of the
  standalone installer one does not meet chksys's download into the place it
  has just emptied (`UsuariosEntram`). `SaConserta` is false without that last
  one: the two can starve each other for ever. `VigiaRepara` assumes no logon.
- *Diferenca* has safety properties only.

## 5. What is proved

All proofs are checked by TLAPS to the last leaf. The only assumptions are
those on the constants (`ColetaAssumption`, `AtualizacaoAssumption`,
`DeployAssumption`, `InterfaceAssumption`, `ParadaAssumption`,
`InstalacaoAssumption`): bounds are natural numbers, sets are
subsets of what they choose from. TLC evaluates them on each run.

| Theorem | Statement | Argument |
|---|---|---|
| `TipoCorreto` | `Spec => []TypeOK` (Coleta) | inductive as it stands |
| `DataProvada` | `DataSoDepoisDaEntrega` for every environment without timeouts, every nesting and every number of crashes | `EntregaProvada`: a frame that has passed the post, and one whose request was stored, are evidence that the manager holds a collection; no pending request is empty. With the property alone the step of an answered request has no reason to hold |
| `NadaEsquecidoSemFalhas` | `NadaEsquecido` when nothing fails and the form and the re-entered timer are off, for every number of versions and every nesting of FORCAR | `IndEsquecido`: the stack is ordered with at most one cycle at its bottom (`PilhaOrdenada`); the collector only runs while the cycle waits for it with nothing marked, so it compares with what the manager has (`GercolsEsperado`); a pending post carries the file (`EnvioAtual`); what is marked is on its way (`MarcaEmAndamento`) |
| `NadaAdiantadoProvado` | no file, slot, process, pending request, nor the manager, holds a version the machine has not had, in every environment | `NadaAdiantado` of all the places a collection may be in, since each is copied from another; that of the manager alone has no reason to hold when a late request arrives (`DeOndeChega`) |
| `EspelhoSeguro` | `Spec => EspelhoDoInventario!Seguro` in every environment: failures, false successes, crashes, late requests and a form that brings an old version back | by simulation, from `NadaAdiantado`: a step changes the inventory by one and not the manager, or the manager to a version the machine has had, or neither |
| `SemRegressoProvado` | `SemRegresso` with failed requests and any nesting, in an environment of at most `erro` | `IndRegresso`: manager, file, collector and machine form a queue, and every pending post carries the file (`EmFila`). It is not enough that a post is not newer than the file: a second one could overtake it |
| `AtualizacaoTipada` | `Spec => []TypeOK` | the module at hand is a module whenever it is used |
| `VersaoProvada` | `VersaoEmExecucao` in every environment | `IndVersao`: while chksys has the service's file in its hands the service is down (`VigiaTroca`), and the service never writes its own file in `bin/` (`ServicoNaoSeTroca`) |
| `UmVivoProvado` | `UmVivo` with chksys on disk and not published, without crashes | `IndVivo`: nobody has a reason to touch chksys, on disk or in a list in progress (`ChksysIntocado`), and the service is only past the start of the modules with chksys alive (`VigiaAntes`). The hypotheses are those without which TLC finds it false |
| `DeployTipado`, `UmPorVezProvado`, `TemporizadorProvado` | the three invariants of Deploy for every list and every nesting | `IndDeploy`: the debt of a stopped timer is owed by a slot that waits for the worker or confirms, by a worker, or by a signal (`Divida`) — a slot that only downloads can return without paying it, which is why `TemporizadorDevido` is not inductive |
| `PrazoProvado` | `PrazoDoDono`, the same | from types and `UmPorVez`: a worker is only started with the mutex free, when there is no other whose timeout it would replace |
| `InterfaceTipada`, `AckProvado` | types, and `AckDoFinalizar` for every number of connections, clicks and ends | `IndInterface`: until FINALIZAR was handled on the current connection there is at most one request or answer under way, and while FORCAR is unanswered nothing else is written (`UmaDeCadaVez`). It rests on lemmas on reading one line of those that arrived |
| `LeituraProvada` | `NadaSemLer` for every number of connections and clicks | `IndLeitura`: nothing follows a FORCAR that was not handled, on any connection (`NadaDepoisDeForcar`); `UmaDeCadaVez` says so of the current one only |
| `BotaoProvado` | `BotaoDevido`, the same | `IndBotao`: a click that finds its socket closed must find a reason to connect again, so a living interface always has an open socket that will be read or such a reason (`SocketOuTemporizador`) |
| `ParadaTipos`, `ParadaStatus`, `ParadaDespertar` | types, `StatusVerdadeiro`, `DespertarGarantido` for any number of requests and trials | `ParadaIndutiva`: each service is in one of nine phases of its start and stop, each of which fixes the points of its three threads, its mutex, its queue and its status together; a main thread is inside a call of `ServiceController` exactly while its own call is in progress. The conjuncts of the properties taken alone say nothing of the thread that will act next |
| `CicloProvado` | `Spec => CicloDosServicos` | by simulation, from `ParadaIndutiva`: the phase says which status the thread that acts finds, without which the announcement of RUNNING could follow a stop |
| `RespostaProvada` | `RespostaDevida` for any number of connections, openings and stops | `IndResposta`: what a connection that has ended, or is none, can still hold (`ConexaoCoerente`); a connection may end, be lost or be made again at any point of the loop |
| `InstalacaoTipada`, `RodandoInteiroProvado` | types, `RodandoInteiro` for any number of installations and restarts | `IndInstalacao`: with `Escritas`: while somebody downloads into `bin` it is not whole, a deletion is pending only while the process is there, and after the comparison `icsa` is the new file or was deleted. The first conjunct of `RodandoInteiro` alone does not exclude a start during a download |
| `SaSoInstalaConferidoProvado` | the action property of that name | from `Escritas`: nothing but a deletion comes between the comparison and the move |

Each inductive invariant was first checked by TLC on the runs' instances.

**Only model-checked**: liveness (that of `CopiaFiel`, `EntregaEventual`,
`ServicoSempreVolta`, `TudoAtualizado`, `TemporizadorVolta`, `VencidosRodam`,
`FinalizarChega`, `BotaoVolta`, `InterfaceTermina`, `ParadaTermina`,
`InterfaceAcaba`, `ChamadaVolta`, `UmSustentaOutro`, `SaConserta`,
`VigiaRepara`), since fairness and ENABLED are out of the
prover's reach: of the refinement of `Espelho` the safety half is proved
(`EspelhoSeguro`) and the other is not; `CicloServico` has no fairness and is
proved as a whole. And everything about `Diferenca`, whose operators are recursive: what a recursive
definition computes for every input needs an induction over data that the
installed provers do not do.

## 6. What the models found

- **A timeout counts as a delivery** (`ColetaTimeout`): the mark of a change is
  cleared although the manager never stored it, against
  `docs/Funcionamento agente.md:34`. The change reaches the manager with the
  next one, or after seven days.
- **Both supervisors in one cycle** (`AtualizacaoAmbos`): the service kills
  chksys to replace its file, then ends itself for its own update; on Linux
  nobody is left (`docs/Funcionamento agente.md:11`). Whether it happens
  depends on the order in which the files of `temp/` are listed.

Two further disagreements happen inside the runs that pass, and are no property
of theirs:

- **The second installer removes what the first installed.** With chksys and
  the service on one `temp/`, the slower one removes the new file when there is
  nothing left in `temp/` to replace it; the module is missing until the next
  download, against the comment of `cacictimer.cpp:114`. `TudoAtualizado` shows
  that the next check repairs it.
- **The wrong module is run.** cacicdeploy counts its rounds in the list of the
  modules that are due and indexes the list of all of them with the count
  (`deploytimer.cpp:62,70`): a module that is not due may be run and one that
  is due left out. `VencidosRodam` says how far it goes: when all are due, all
  are run.

Weaknesses seen while modelling, with no document that says otherwise and so no
run of their own:

*Collection and update.*
A failed post followed by an unchanged collection clears the mark until the
resend. A new version published while the previous one is in `temp/` is written
over it in place, with its execution bit on. After a failed download of chksys
an update of the service leaves nobody to start it. For that reason
`ServicoSempreVolta` and `TudoAtualizado` are checked where they can be
expected: one version of a module at a time, chksys on disk at the start and
not itself updated, no crash. A JSON file that a crash leaves half written ends
every process that reads it, at each start, and nothing repairs it
(`ccacic.cpp:151`).

*cacicdeploy.*
A module that could not be confirmed is run again every minute
(`deploytimer.cpp:154`); the timer that should kill one is tied to a process
that runs nothing (`cacicthread.cpp:31`); `lastStatus` is not set when the
module's file does not exist (`cacicthread.cpp:58`).

*Interface and stops.*
The interface opens a socket every ten seconds after its first failed connection
(`uiclient.cpp:162`). Finalizar clicked while a FORCAR has no answer closes the
interface only (`uiclient.cpp:115`). `on_finalizar()` of the Windows service
always stops chksys before it quits (`cacicd.cpp:93`), so after an update of
cacic-service itself both are down and neither starts the other, unlike
`docs/Funcionamento agente.md:11`. With each main thread in a `stop()` of the
other, both wait the full thirty seconds of the control manager's limit. After
such a limit `stop()` reads an `lpsStatus` that nobody has filled
(`servicecontroller.cpp:123-136`). If the interface ends before its ACK is sent,
the nested loop of `cacicD::stop()` never ends: the service stays in
STOP_PENDING until its process is killed.

*Installers.*
On Windows `QDir::Executable` goes by the extension, so chksys installs a
half-downloaded `temp/cacic-service.exe` even over a whole file, and a file that
exists is never downloaded again: only the standalone installer repairs it. That
one keeps the half-downloaded file of `temp/` (`installcacicsa.cpp:484,535`), so
chksys may install it over the file just moved, and the repair waits for the next
logon.
`install()` takes a registration that another made in between as a failure,
uninstalls, and then tries the start all the same. It looks the hash
of the service up by `name` (`installcacic.cpp:268`), the rest of the agent by
`nome`, so a current service may be taken for an old one (`IcVerifica` allows
both). With a service that does not stop in time it cannot open the file and reports a success with the old version.
A failed `updateService()` leaves the service and chksys stopped; one that finds
no registration makes it and does not start the service. `uninstall()` with a
late stop leaves a registered service without its file; it never removes chksys,
which in a check already begun registers the service again. `-configure` stores
the password under a name nobody reads (`installcacic.cpp:179`).
`cacicInstalado()` of the standalone installer tests the registry key that
`exec()` has just written, so the branch of the MSI needs that write to fail;
its `hashLocal` is empty until a download, so it downloads at each logon and
replaces the service even when nothing has changed.

*Timer and log.*
`verificarPeriodicidade()` sets its field to the default on an error without
restarting the timer, so the two may differ, and a later configuration equal to
the field is not applied; the interval is converted and multiplied with no
check of zero or of overflow (`cacictimer.cpp:874-897`). The mutex locker of the
log is a temporary, destroyed before the lines it should protect
(`QLogger.cpp:61`).

## 7. Plan

All seven families of the plan are built: **Coleta** with `Espelho`,
**Atualizacao**, **Deploy**, **Diferenca**, **Interface**, **Parada**,
**Instalacao**. Four further ones were considered and left out, for the reasons
of section 8: the interval of the timer, the log, the session with the manager,
and a half-written file.

Both abstract specifications are proved to be implemented, and every invariant
and action property of the runs is a theorem, but for `Diferenca`. Theorems to
come: for Instalacao, an abstract service that the four processes maintain; for
Atualizacao, that no file is ahead of what the manager has published.

## 8. Not modelled

- *Windows branches* of the update by hash: Atualizacao is the Linux build;
  Parada and Instalacao are the Windows build, where they differ most (service
  control, files that cannot be removed). Interface is the 32-bit Windows build,
  where the `incomingConnection` of the service is the override that Qt calls.
- *Details of the covered parts*: `enviarLogs()`, the content of the requests,
  `login()` and TLS, the removal of foreign files, the Linux process test of
  cacicdeploy, `waitForConnected()` that times out with a service listening.
- *Parada*: the report of STOPPED and the end of the process are one step, and
  so are the end of `waitPending()` and the query after it. The twenty seconds
  of the two semaphores at the start never run out. The further sockets that
  `connectTimer` opens are left out, and the processes do not crash.
- *Instalacao*: the MSI, the removal of versions 2.6 and 2.8, the messages to the
  manager and the Linux branches. Two standalone installers at once. `delFolder()`
  is modelled as what it leaves: a folder that is not empty is not removed.
  `-configure` and `-forcaColeta` touch nothing the others read meanwhile.
- *quit() during a nested loop* of Coleta: after it, every nested wait returns at
  once without an error. The effect on the state is that of the timeout; the end
  of the service in the middle of a cycle is modelled as a crash.
- *Files are written at once* in Coleta. A half-written file makes its readers
  exit and nothing repairs it, so with one no property holds.
- *The interval of the timer*: Coleta lets the timer fire at any time, which
  includes every interval. The mutex of `CacicTimer` is recursive and taken by
  one thread: nothing can wait for it.
- *The graphical installer* does not build with the current `CCacic` and
  `identificadores.h`: it uses members they no longer have.
- *Collectors, LDAP, windows, http-server, log*: input and output with no state
  that another part depends on. The collected value is an arbitrary one.
- *Vendored libraries* (but for the Windows part of QtService, which Parada
  models), *scripts, tests, unused code*.
