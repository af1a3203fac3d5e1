------------------------------- MODULE Diferenca -------------------------------
(***************************************************************************)
(* gercols: how a new collection is compared with the one in coleta.json,  *)
(* and what coletaDiff.json says was removed and inserted.                 *)
(*                                                                         *)
(* JSON values are records with one field, named for their kind. The       *)
(* comparison is recursive, so nothing is proved about this module.        *)
(***************************************************************************)
EXTENDS Naturals, Sequences, SequencesExt

CONSTANTS
  Hardwares,  \* bound: the "hardware" sections the collector can produce
  Softwares   \* bound: the "software" sections, objects like those

Valor(x)  == [valor |-> x]
Objeto(f) == [objeto |-> f]
Lista(s)  == [lista |-> s]
Nulo       == [nulo |-> TRUE]
Indefinido == [indefinido |-> TRUE]  \* QJsonArray::at() beyond the end

EObjeto(v) == "objeto" \in DOMAIN v
ELista(v)  == "lista" \in DOMAIN v

\* toObject() and toArray() of something else are empty.
Campos(v) == IF EObjeto(v) THEN v.objeto ELSE <<>>
Itens(v)  == IF ELista(v) THEN v.lista ELSE <<>>

\* operator[] of a QJsonObject and at() of a QJsonArray.
Campo(f, k) == IF k \in DOMAIN f THEN f[k] ELSE Nulo
Item(s, i)  == IF i \in DOMAIN s THEN s[i] ELSE Indefinido

VARIABLES
  coleta,       \* coleta.json, a JSON object as a function; empty: no file
  coletaDiff,   \* coletaDiff.json: its two parts; SemDiff: no file
  enviaColeta   \* registry: there is something new to send

vars == <<coleta, coletaDiff, enviaColeta>>

Vazia   == <<>>
SemDiff == [retiradas |-> Vazia, inseridas |-> Vazia]

-----------------------------------------------------------------------------
(* percorreColeta(): the set that holds the part of primeiro that differs   *)
(* from segundo, empty when nothing does.                                  *)

\* Keys that change all the time.
Variaveis == {"FreeSpace", "clock", "CurrentClockSpeed", "ipv4", "ipv6",
              "MaxClockSpeed"}

\* Some member of a set with one member.
Unico(S) == CHOOSE x \in S : TRUE

\* The keys with a difference, and the difference of each.
Diferentes(f) == {k \in DOMAIN f : f[k] # {}}
Juntas(f)     == [k \in Diferentes(f) |-> Unico(f[k])]

RECURSIVE percorreColeta(_, _)

\* Mutant: the items of a list beyond the end of the other are not compared.
MutItensComparados(s, t) == DOMAIN s \cap DOMAIN t

ItensComparados(s, t) == DOMAIN s

percorreObjeto(f, g) ==
  LET dif == Juntas([k \in DOMAIN f \ Variaveis |-> percorreColeta(f[k], Campo(g, k))])
  IN  IF DOMAIN dif = {} THEN {} ELSE {Objeto(dif)}

\* An undefined difference becomes null when it is appended.
percorreLista(s, t) ==
  LET dif == [i \in ItensComparados(s, t) |-> percorreColeta(s[i], Item(t, i))]
      is  == SetToSortSeq(Diferentes(dif), <)
      Acrescenta(v) == IF v = Indefinido THEN Nulo ELSE v
  IN  IF is = <<>> THEN {}
      ELSE {Lista([n \in DOMAIN is |-> Acrescenta(Unico(dif[is[n]]))])}

percorreColeta(primeiro, segundo) ==
  IF primeiro = Nulo /\ segundo # Nulo THEN {segundo}
  ELSE IF EObjeto(primeiro)
       THEN percorreObjeto(Campos(primeiro), Campos(segundo))
  ELSE IF ELista(primeiro)
       THEN percorreLista(Itens(primeiro), Itens(segundo))
  ELSE IF primeiro = segundo THEN {} ELSE {primeiro}

-----------------------------------------------------------------------------
(* verificaColeta().                                                       *)

\* One direction: a section that the other does not have is passed over.
Direcao(primeira, segunda) ==
  Juntas([k \in {c \in DOMAIN primeira \ {"computador"} : Campo(segunda, c) # Nulo}
            |-> percorreColeta(primeira[k], segunda[k])])

\* Mutant: the second direction is skipped when the first found something.
MutDiferencas(antiga, nova) ==
  LET retiradas == Direcao(antiga, nova)
  IN  [retiradas |-> retiradas,
       inseridas |-> IF DOMAIN retiradas = {} THEN Direcao(nova, antiga) ELSE Vazia]

\* The second direction goes on with the sections of the first, and is only
\* recorded when it finds something itself.
Diferencas(antiga, nova) ==
  LET retiradas == Direcao(antiga, nova)
      inseridas == Direcao(nova, antiga)
      Sobre(f, g) == [k \in DOMAIN f \cup DOMAIN g |->
                        IF k \in DOMAIN f THEN f[k] ELSE g[k]]
  IN  [retiradas |-> retiradas,
       inseridas |-> IF DOMAIN inseridas = {} THEN Vazia
                     ELSE Sobre(inseridas, retiradas)]

-----------------------------------------------------------------------------
Coletas == [computador : {Nulo}, hardware : Hardwares, software : Softwares]

Init == coleta = Vazia /\ coletaDiff = SemDiff /\ enviaColeta = FALSE

\* Gercols::run(), once there is a new collection.
run(nova) ==
  /\ coleta' = nova
  /\ IF coleta = Vazia
     THEN enviaColeta' = TRUE /\ UNCHANGED coletaDiff
     ELSE LET dif == Diferencas(coleta, nova)
          IN  /\ enviaColeta' = (dif # SemDiff)
              /\ coletaDiff' = IF dif # SemDiff THEN dif ELSE coletaDiff

\* mapacacic adds its section to the file.
salvarInfo ==
  /\ coleta' = [k \in DOMAIN coleta \cup {"patrimonio"} |->
                  IF k = "patrimonio" THEN Objeto([predio |-> Valor(1)])
                  ELSE coleta[k]]
  /\ enviaColeta' = TRUE
  /\ UNCHANGED coletaDiff

\* cacic-service sends the file and its difference.
EnvioOk ==
  /\ enviaColeta
  /\ enviaColeta' = FALSE
  /\ UNCHANGED <<coleta, coletaDiff>>

Next == (\E nova \in Coletas : run(nova)) \/ salvarInfo \/ EnvioOk

Spec == Init /\ [][Next]_vars
===============================================================================
