------------------------------ MODULE MCDiferenca ------------------------------
(* A small universe of collections, and what the comparison must find.       *)
EXTENDS Diferenca

\* Network interfaces: the address changes all the time, the name does not.
Interface(nome, ip) == Objeto([nome |-> Valor(nome), ipv4 |-> Valor(ip)])

Redes == {Lista(s) : s \in {<<>>, <<Interface(1, 1)>>, <<Interface(1, 2)>>,
                            <<Interface(2, 1)>>, <<Interface(1, 1), Interface(2, 1)>>}}

\* A value that is missing, null, an empty object, and an object that changes.
Bios == {Nulo, Objeto(<<>>), Objeto([versao |-> Valor(1)]),
         Objeto([versao |-> Valor(2)])}

MCHardwares ==
  {Objeto([redes |-> r]) : r \in Redes}
    \cup {Objeto([redes |-> r, bios |-> b]) : r \in Redes, b \in Bios}

MCSoftwares == {Objeto(<<>>), Objeto([editor |-> Objeto([versao |-> Valor(1)])])}

-----------------------------------------------------------------------------
(* The reference: a collection is the set of its data, each with the path of *)
(* keys and positions that leads to it.                                      *)

RECURSIVE Dados(_)
Dados(v) ==
  CASE EObjeto(v) -> UNION {{<<<<k>> \o d[1], d[2]>> : d \in Dados(v.objeto[k])} :
                              k \in DOMAIN v.objeto \ Variaveis}
    [] ELista(v)  -> UNION {{<<<<ToString(i)>> \o d[1], d[2]>> : d \in Dados(v.lista[i])} :
                              i \in DOMAIN v.lista}
    [] v = Nulo   -> {}
    [] OTHER      -> {<<<<>>, v>>}

RECURSIVE TemNulo(_)
TemNulo(v) ==
  \/ v = Nulo
  \/ EObjeto(v) /\ \E k \in DOMAIN v.objeto : TemNulo(v.objeto[k])
  \/ ELista(v) /\ \E i \in DOMAIN v.lista : TemNulo(v.lista[i])

\* The data of the sections two collections have in common.
Secoes(c, d) == (DOMAIN c \cap DOMAIN d) \ {"computador"}
DadosDe(c, S) == Dados(Objeto([k \in S |-> c[k]]))
NovosDados(c, d) == DadosDe(d, Secoes(c, d)) \ DadosDe(c, Secoes(c, d))

\* What a part of the difference holds, whatever the positions in its lists.
Soltos(D) == {<<d[1][1], d[2]>> : d \in D}
PartesDe(f) == Soltos(Dados(Objeto(f)))

GercolsComparou == coleta # Vazia /\ "patrimonio" \notin DOMAIN coleta'

-----------------------------------------------------------------------------
\* verificaColeta() misses no datum that was added, changed or removed, however
\* deep, and marks nothing when only the addresses, speeds and free space of the
\* machine changed. A null and an empty object hold no datum but differ.
MudancaDetectada ==
  [][GercolsComparou =>
       LET mudou == NovosDados(coleta, coleta') # {} \/ NovosDados(coleta', coleta) # {}
       IN  /\ mudou => enviaColeta'
           /\ enviaColeta' /\ ~(\E k \in Secoes(coleta, coleta') :
                                  TemNulo(coleta[k]) \/ TemNulo(coleta'[k]))
                => mudou]_vars

\* coletaDiff.json leaves nothing out: every datum of the old collection that is
\* gone is among the removed ones, and every new one among the inserted ones.
DiferencaCompleta ==
  [][GercolsComparou =>
       /\ Soltos(NovosDados(coleta', coleta)) \subseteq PartesDe(coletaDiff'.retiradas)
       /\ Soltos(NovosDados(coleta, coleta')) \subseteq PartesDe(coletaDiff'.inseridas)]_vars
===============================================================================
