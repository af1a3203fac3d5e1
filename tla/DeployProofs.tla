----------------------------- MODULE DeployProofs -----------------------------
(* One worker at a time, and a timer that is always owed a start, for every *)
(* list of modules, depth of the stack and number of pending signals.       *)
EXTENDS DeployProps, SequenceTheorems, FiniteSetTheorems, TLAPS

\* Calling a slot.
LEMMA ChamaProp ==
  ASSUME NEW S, NEW s \in Seq(S), NEW q \in S
  PROVE  /\ Append(s, q) \in Seq(S)
         /\ Len(Append(s, q)) = Len(s) + 1
         /\ Append(s, q)[Len(s) + 1] = q
         /\ \A i \in 1..Len(s) : Append(s, q)[i] = s[i]
  OBVIOUS

\* Returning from a slot.
LEMMA RetornaProp ==
  ASSUME NEW S, NEW s \in Seq(S), s # <<>>
  PROVE  /\ Front(s) \in Seq(S)
         /\ Len(Front(s)) = Len(s) - 1
         /\ \A i \in 1..(Len(s) - 1) : Front(s)[i] = s[i]
         /\ Last(s) \in S
<1>1. Len(s) \in Nat /\ Len(s) # 0
  OBVIOUS
<1> DEFINE n == Len(s) - 1
<1>2. n \in Nat /\ n - 1 + 1 = n
  BY <1>1
<1>3. \A i \in 1..n : s[i] \in S
  BY <1>1
<1>4. /\ SubSeq(s, 1, n) \in Seq(S)
      /\ Len(SubSeq(s, 1, n)) = IF 1 <= n THEN n - 1 + 1 ELSE 0
      /\ \A i \in 1..(n - 1 + 1) : SubSeq(s, 1, n)[i] = s[1 + i - 1]
  <2> HIDE DEF n
  <2> QED BY <1>2, <1>3, SubSeqProperties
<1>5. Len(SubSeq(s, 1, n)) = n
  <2> HIDE DEF n
  <2> QED BY <1>2, <1>4
<1>6. ASSUME NEW i \in 1..n PROVE SubSeq(s, 1, n)[i] = s[i]
  <2>1. 1 + i - 1 = i /\ i \in 1..(n - 1 + 1)
    BY <1>2
  <2> HIDE DEF n
  <2> QED BY <2>1, <1>4
<1>7. Last(s) \in S
  BY <1>1 DEF Last
<1> QED BY <1>4, <1>5, <1>6, <1>7 DEF Front

\* Going on in the same slot.
LEMMA TrocaProp ==
  ASSUME NEW S, NEW s \in Seq(S), s # <<>>, NEW q \in S
  PROVE  LET t == Append(Front(s), q)
         IN  /\ t \in Seq(S)
             /\ Len(t) = Len(s)
             /\ t[Len(s)] = q
             /\ \A i \in 1..(Len(s) - 1) : t[i] = s[i]
<1>1. Len(s) \in Nat \ {0}
  OBVIOUS
<1>2. /\ Front(s) \in Seq(S) /\ Len(Front(s)) = Len(s) - 1
      /\ \A i \in 1..(Len(s) - 1) : Front(s)[i] = s[i]
  BY RetornaProp
<1>3. /\ Append(Front(s), q) \in Seq(S)
      /\ Len(Append(Front(s), q)) = Len(Front(s)) + 1
      /\ Append(Front(s), q)[Len(Front(s)) + 1] = q
      /\ \A i \in 1..Len(Front(s)) : Append(Front(s), q)[i] = Front(s)[i]
  BY <1>2, ChamaProp
<1> QED BY <1>1, <1>2, <1>3

\* The only worker ends.
LEMMA UnicoTermina ==
  ASSUME NEW S, NEW s \in Seq(S), Len(s) = 1, NEW k \in DOMAIN s
  PROVE  RemoveAt(s, k) = <<>>
<1>1. k = 1
  OBVIOUS
<1>2. SubSeq(s, 1, 0) = <<>> /\ SubSeq(s, 2, 1) = <<>>
  OBVIOUS
<1> QED BY <1>1, <1>2 DEF RemoveAt

\* A round starts when some module is due: their number, which is the number of
\* rounds, is positive and no more than the list is long.
LEMMA Contagem ==
  ASSUME NEW V \in SUBSET Modulos, V # {}
  PROVE  Cardinality(V) \in 1..N
<1>1. IsFiniteSet(Modulos) /\ Cardinality(Modulos) = N
  BY FS_Interval, DeployAssumption DEF Modulos
<1>2. IsFiniteSet(V) /\ Cardinality(V) <= N
  BY <1>1, FS_Subset
<1>3. Cardinality(V) \in Nat
  BY <1>2, FS_CardinalityType
<1>4. Cardinality(V) # 0
  BY <1>2, FS_EmptySet
<1> QED BY <1>2, <1>3, <1>4, DeployAssumption

\* start() begins with a running timer, no slot, no worker and a free mutex.
THEOREM DeployInicial == Init => IndDeploy
<1> SUFFICES ASSUME Init PROVE IndDeploy
  OBVIOUS
<1> USE DeployAssumption
<1>1. <<>> \in Seq(Quadros) /\ <<>> \in Seq([m : Modulos, pc : {"criado", "executa"}])
  OBVIOUS
<1>2. Len(pilha) = 0 /\ Len(fios) = 0 /\ DOMAIN pilha = {}
  BY DEF Init
<1>3. /\ vencidos \subseteq Modulos /\ arquivos \subseteq Modulos
      /\ executados \subseteq Modulos
      /\ ativo \in BOOLEAN /\ travado \in BOOLEAN /\ prazo \in BOOLEAN
      /\ moduloExec \in 0..N /\ sinais \in Nat
  <2>1. moduloExec \in 0..N /\ sinais \in Nat
    BY DEF Init
  <2>2. ativo \in BOOLEAN /\ travado \in BOOLEAN /\ prazo \in BOOLEAN
    BY Zenon DEF Init
  <2>3. /\ vencidos \subseteq Modulos /\ arquivos \subseteq Modulos
        /\ executados \subseteq Modulos
    BY DEF Init
  <2> QED BY <2>1, <2>2, <2>3
<1>4. /\ pilha \in Seq(Quadros)
      /\ fios \in Seq([m : Modulos, pc : {"criado", "executa"}])
  <2>1. pilha = <<>> /\ fios = <<>>
    BY DEF Init
  <2> QED BY <1>1, <2>1
<1>5. TypeOK
  BY <1>2, <1>3, <1>4 DEF TypeOK
<1> QED BY <1>2, <1>5 DEF Init, IndDeploy, UmPorVez, Divida

\* Each step of a slot, of a worker and of the timer keeps the invariant: a slot
\* that stops the timer goes on to start a worker or to start the timer again.
THEOREM DeployPreservada == IndDeploy /\ [Next]_vars => IndDeploy'
<1> SUFFICES ASSUME IndDeploy, [Next]_vars PROVE IndDeploy'
  OBVIOUS
<1> USE DeployAssumption DEF IndDeploy
<1> DEFINE Fios == [m : Modulos, pc : {"criado", "executa"}]
           Bom(q) == q.pc # "confirma" => q.i \in 1..q.n
           L == Len(pilha)
<1>t. /\ vencidos \subseteq Modulos /\ arquivos \subseteq Modulos
      /\ executados \subseteq Modulos
      /\ ativo \in BOOLEAN /\ travado \in BOOLEAN /\ prazo \in BOOLEAN
      /\ pilha \in Seq(Quadros) /\ L \in Nat /\ L <= MaxPilha
      /\ \A j \in 1..L : pilha[j] \in Quadros /\ Bom(pilha[j])
      /\ fios \in Seq(Fios)
      /\ moduloExec \in 0..N /\ sinais \in Nat
      /\ Len(fios) = (IF travado THEN 1 ELSE 0)
      /\ MaxPilha \in Nat /\ N \in Nat
  BY DEF TypeOK, UmPorVez
<1>d. ~ativo => \/ \E j \in 1..L : Devedor(pilha[j])
                \/ fios # <<>>
                \/ sinais > 0
  BY <1>t DEF Divida
<1> HIDE DEF IndDeploy
\* What is left to prove of a step, when the sets of modules stay sets of modules.
<1>f. ASSUME vencidos' \subseteq Modulos, arquivos' \subseteq Modulos,
             executados' \subseteq Modulos, ativo' \in BOOLEAN,
             travado' \in BOOLEAN, prazo' \in BOOLEAN,
             pilha' \in Seq(Quadros), Len(pilha') <= MaxPilha,
             \A j \in 1..Len(pilha') : Bom(pilha'[j]),
             fios' \in Seq(Fios), moduloExec' \in 0..N, sinais' \in Nat,
             Len(fios') = (IF travado' THEN 1 ELSE 0),
             ~ativo' => \/ \E j \in 1..Len(pilha') : Devedor(pilha'[j])
                        \/ fios' # <<>>
                        \/ sinais' > 0
      PROVE  IndDeploy'
  <2>1. DOMAIN pilha' = 1..Len(pilha')
    BY <1>f
  <2>2. TypeOK' /\ UmPorVez' /\ Divida'
    BY <1>f, <2>1 DEF TypeOK, UmPorVez, Divida
  <2> QED BY <2>2 DEF IndDeploy
\* The slot on top, and what happens to the stack.
<1>p. ASSUME pilha # <<>>
      PROVE  /\ L \in 1..MaxPilha /\ Topo = pilha[L]
             /\ Topo \in Quadros /\ Bom(Topo)
  BY <1>p, <1>t DEF Topo, Last
<1>v. ASSUME pilha # <<>>, NEW pc \in Pontos, NEW i \in 1..Topo.n, Vai(pc, i)
      PROVE  /\ pilha' \in Seq(Quadros) /\ Len(pilha') = L
             /\ \A j \in 1..Len(pilha') : Bom(pilha'[j])
             /\ \A j \in 1..(L - 1) : pilha'[j] = pilha[j]
             /\ pilha'[L].pc = pc
  <2> DEFINE q == Quadro(pc, i, Topo.n)
  <2>1. q \in Quadros /\ Bom(q) /\ q.pc = pc
    BY <1>v, <1>p, <1>t DEF Quadro, Quadros
  <2>2. /\ pilha' \in Seq(Quadros) /\ Len(pilha') = L /\ pilha'[L] = q
        /\ \A j \in 1..(L - 1) : pilha'[j] = pilha[j]
    <3>1. pilha' = Append(Front(pilha), q)
      BY <1>v DEF Vai
    <3> HIDE DEF q
    <3> QED BY <1>v, <2>1, <3>1, <1>t, TrocaProp
  <2> HIDE DEF q
  <2> QED BY <2>1, <2>2, <1>t
<1>r. ASSUME pilha # <<>>, Retorna
      PROVE  /\ pilha' \in Seq(Quadros) /\ Len(pilha') = L - 1
             /\ Len(pilha') <= MaxPilha
             /\ \A j \in 1..Len(pilha') : Bom(pilha'[j])
             /\ \A j \in 1..(L - 1) : pilha'[j] = pilha[j]
  <2>1. /\ pilha' \in Seq(Quadros) /\ Len(pilha') = L - 1
        /\ \A j \in 1..(L - 1) : pilha'[j] = pilha[j]
    BY <1>r, <1>t, RetornaProp DEF Retorna
  <2> QED BY <2>1, <1>t
<1>c. ASSUME DespachaEventos, NEW q \in Quadros, Bom(q), Chama(q)
      PROVE  /\ pilha' \in Seq(Quadros) /\ Len(pilha') = L + 1
             /\ Len(pilha') <= MaxPilha
             /\ \A j \in 1..Len(pilha') : Bom(pilha'[j])
             /\ \A j \in 1..L : pilha'[j] = pilha[j]
             /\ pilha'[L + 1] = q
  <2>1. /\ pilha' \in Seq(Quadros) /\ Len(pilha') = L + 1
        /\ \A j \in 1..L : pilha'[j] = pilha[j]
        /\ pilha'[L + 1] = q
    BY <1>c, <1>t, ChamaProp DEF Chama
  <2>2. L < MaxPilha
    BY <1>c DEF DespachaEventos
  <2> QED BY <1>c, <2>1, <2>2, <1>t
<1> HIDE DEF Bom, L, Fios
<1> USE DEF Pontos
\* A debtor below the slot on top is still there after the step.
<1>1. ASSUME NEW m \in Modulos, Vence(m) \/ Adia(m) PROVE IndDeploy'
  BY <1>1, <1>t, <1>d, <1>f DEF Vence, Adia, L
<1>2. CASE OnTimer
  <2> DEFINE q == Quadro("autoriza", 1, Cardinality(vencidos))
  <2>1. Cardinality(vencidos) \in 1..N
    BY <1>2, <1>t, Contagem DEF OnTimer
  <2>2. q \in Quadros /\ Bom(q)
    BY <2>1, <1>t DEF Quadro, Quadros, Bom
  <2>3. DespachaEventos /\ Chama(q) /\ ativo /\ ativo' = ativo
    BY <1>2 DEF OnTimer
  <2>4. /\ pilha' \in Seq(Quadros) /\ Len(pilha') <= MaxPilha
        /\ \A j \in 1..Len(pilha') : Bom(pilha'[j])
    <3> HIDE DEF q
    <3> QED BY <2>2, <2>3, <1>c
  <2> QED BY <1>2, <2>3, <2>4, <1>t, <1>f DEF OnTimer
<1>3. CASE AutorizaResponde
  <2>1. pilha # <<>> /\ Topo.pc = "autoriza" /\ Topo.i \in 1..Topo.n
    BY <1>3, <1>p DEF AutorizaResponde, NoTopo, Bom
  <2>2. \/ Vai("espera", Topo.i)
        \/ Vai("baixa", Topo.i) /\ UNCHANGED ativo
    BY <1>3 DEF AutorizaResponde
  <2>3. ativo' \in BOOLEAN
    BY <1>3, <1>t DEF AutorizaResponde
  <2>4. UNCHANGED <<vencidos, fios, travado, prazo, moduloExec, sinais, arquivos,
                    executados>>
    BY <1>3 DEF AutorizaResponde
  <2>5. CASE Vai("espera", Topo.i)
    <3>1. /\ pilha' \in Seq(Quadros) /\ Len(pilha') = L
          /\ \A j \in 1..Len(pilha') : Bom(pilha'[j])
          /\ pilha'[L].pc = "espera"
      BY <2>1, <2>5, <1>v
    <3>2. L \in 1..Len(pilha') /\ Devedor(pilha'[L])
      BY <2>1, <3>1, <1>p DEF Devedor
    <3> QED BY <2>3, <2>4, <3>1, <3>2, <1>t, <1>f
  <2>6. CASE Vai("baixa", Topo.i) /\ UNCHANGED ativo
    <3>1. /\ pilha' \in Seq(Quadros) /\ Len(pilha') = L
          /\ \A j \in 1..Len(pilha') : Bom(pilha'[j])
          /\ \A j \in 1..(L - 1) : pilha'[j] = pilha[j]
      BY <2>1, <2>6, <1>v
    <3>2. ~Devedor(pilha[L])
      BY <2>1, <1>p DEF Devedor
    <3>3. \A j \in 1..L : Devedor(pilha[j]) => j \in 1..(L - 1)
      BY <3>2, <1>t
    <3> QED BY <2>3, <2>4, <2>6, <3>1, <3>3, <1>t, <1>d, <1>f
  <2> QED BY <2>2, <2>5, <2>6
<1>4. CASE Baixado
  <2>1. pilha # <<>> /\ Topo.pc = "baixa" /\ Topo.i \in 1..Topo.n /\ Topo.i \in Modulos
    BY <1>4, <1>p DEF Baixado, NoTopo, Bom, Quadros, Modulos
  <2>2. arquivos' \subseteq Modulos
    BY <1>4, <2>1, <1>t DEF Baixado
  <2>3. UNCHANGED <<vencidos, fios, travado, prazo, moduloExec, sinais, executados>>
    BY <1>4 DEF Baixado
  <2>4. CASE Vai("espera", Topo.i) /\ ativo' = FALSE
    <3>1. /\ pilha' \in Seq(Quadros) /\ Len(pilha') = L
          /\ \A j \in 1..Len(pilha') : Bom(pilha'[j])
          /\ pilha'[L].pc = "espera"
      BY <2>1, <2>4, <1>v
    <3>2. L \in 1..Len(pilha') /\ Devedor(pilha'[L])
      BY <2>1, <3>1, <1>p DEF Devedor
    <3> QED BY <2>2, <2>3, <2>4, <3>1, <3>2, <1>t, <1>f
  <2>5. CASE Retorna /\ UNCHANGED ativo
    <3>1. /\ pilha' \in Seq(Quadros) /\ Len(pilha') = L - 1 /\ Len(pilha') <= MaxPilha
          /\ \A j \in 1..Len(pilha') : Bom(pilha'[j])
          /\ \A j \in 1..(L - 1) : pilha'[j] = pilha[j]
      BY <2>1, <2>5, <1>r
    <3>2. ~Devedor(pilha[L])
      BY <2>1, <1>p DEF Devedor
    <3>3. \A j \in 1..L : Devedor(pilha[j]) => j \in 1..(L - 1)
      BY <3>2, <1>t
    <3> QED BY <2>2, <2>3, <2>5, <3>1, <3>3, <1>t, <1>d, <1>f
  <2> QED BY <1>4, <2>4, <2>5 DEF Baixado
<1>5. CASE IniciaFio
  <2>1. pilha # <<>> /\ Topo.pc = "espera" /\ Topo.i \in 1..Topo.n
        /\ Topo.i \in Modulos /\ Topo.n \in 0..N
    BY <1>5, <1>p DEF IniciaFio, NoTopo, Bom, Quadros, Modulos
  <2>2. ~travado /\ travado' = TRUE
    BY <1>5 DEF IniciaFio, PegaMutex
  <2>3. fios' \in Seq(Fios) /\ Len(fios') = 1
    <3>1. fios' = Append(fios, [m |-> Topo.i, pc |-> "criado"])
      BY <1>5 DEF IniciaFio
    <3>2. [m |-> Topo.i, pc |-> "criado"] \in Fios
      BY <2>1 DEF Fios
    <3> QED BY <2>2, <3>1, <3>2, <1>t, ChamaProp
  <2>4. /\ pilha' \in Seq(Quadros) /\ Len(pilha') <= MaxPilha
        /\ \A j \in 1..Len(pilha') : Bom(pilha'[j])
    <3>1. CASE HaMais
      <4>1. Topo.i + 1 \in 1..Topo.n /\ Vai("autoriza", Topo.i + 1)
        BY <1>5, <2>1, <3>1, <1>t DEF IniciaFio, HaMais
      <4> QED BY <4>1, <2>1, <1>v, <1>t
    <3>2. CASE ~HaMais
      BY <1>5, <2>1, <3>2, <1>r DEF IniciaFio
    <3> QED BY <3>1, <3>2
  <2>5. /\ prazo' \in BOOLEAN /\ moduloExec' \in 0..N
        /\ UNCHANGED <<vencidos, ativo, sinais, arquivos, executados>>
    BY <1>5, <2>1, <1>t DEF IniciaFio, Modulos
  <2>6. fios' # <<>>
    BY <2>3
  <2> QED BY <2>2, <2>3, <2>4, <2>5, <2>6, <1>t, <1>f
<1>6. CASE DesisteDoMutex \/ Confirmado
  <2>1. pilha # <<>> /\ Retorna /\ ativo' = TRUE
    BY <1>6 DEF DesisteDoMutex, Confirmado, NoTopo
  <2>2. /\ arquivos' \subseteq Modulos
        /\ UNCHANGED <<vencidos, fios, travado, prazo, moduloExec, sinais, executados>>
    BY <1>6, <1>t DEF DesisteDoMutex, Confirmado
  <2>3. /\ pilha' \in Seq(Quadros) /\ Len(pilha') <= MaxPilha
        /\ \A j \in 1..Len(pilha') : Bom(pilha'[j])
    BY <2>1, <1>r
  <2> QED BY <2>1, <2>2, <2>3, <1>t, <1>f
<1>7. ASSUME NEW k \in DOMAIN fios, FioExecuta(k) PROVE IndDeploy'
  <2>1. k \in 1..Len(fios) /\ fios[k] \in Fios
    BY <1>7, <1>t
  <2>2. fios' = [fios EXCEPT ![k].pc = "executa"]
    BY <1>7 DEF FioExecuta
  <2>3. fios' \in Seq(Fios) /\ Len(fios') = Len(fios)
    BY <2>1, <2>2, <1>t DEF Fios
  <2>4. fios' # <<>>
    BY <2>1, <2>3, <1>t
  <2>5. executados' \subseteq Modulos
    BY <1>7, <2>1, <1>t DEF FioExecuta, Fios
  <2>6. UNCHANGED <<vencidos, ativo, pilha, travado, prazo, moduloExec, sinais,
                    arquivos>>
    BY <1>7 DEF FioExecuta
  <2>7. \A j \in 1..Len(pilha') : Bom(pilha'[j])
    BY <2>6, <1>t DEF L
  <2> QED BY <2>3, <2>4, <2>5, <2>6, <2>7, <1>t, <1>f DEF L
<1>8. ASSUME NEW k \in DOMAIN fios, FioTermina(k) PROVE IndDeploy'
  <2>1. Len(fios) = 1
    BY <1>8, <1>t
  <2>2. fios' = <<>>
    BY <1>8, <2>1, <1>t, UnicoTermina DEF FioTermina
  <2>3. /\ travado' = FALSE /\ sinais' = sinais + 1
        /\ UNCHANGED <<vencidos, ativo, pilha, prazo, moduloExec, arquivos, executados>>
    BY <1>8 DEF FioTermina
  <2>4. fios' \in Seq(Fios) /\ Len(fios') = 0
    BY <2>2
  <2>5. \A j \in 1..Len(pilha') : Bom(pilha'[j])
    BY <2>3, <1>t DEF L
  <2>6. sinais' \in Nat /\ sinais' > 0
    BY <2>3, <1>t
  <2> QED BY <2>3, <2>4, <2>5, <2>6, <1>t, <1>f DEF L
<1>9. CASE ConfirmaExecucao
  <2> DEFINE q == Quadro("confirma", 0, 0)
  <2>1. q \in Quadros /\ Bom(q) /\ Devedor(q)
    BY <1>t DEF Quadro, Quadros, Bom, Devedor
  <2>2. DespachaEventos /\ Chama(q) /\ sinais > 0 /\ sinais' = sinais - 1
    BY <1>9 DEF ConfirmaExecucao
  <2> HIDE DEF q
  <2>3. /\ pilha' \in Seq(Quadros) /\ Len(pilha') = L + 1 /\ Len(pilha') <= MaxPilha
        /\ \A j \in 1..Len(pilha') : Bom(pilha'[j])
        /\ pilha'[L + 1] = q
    BY <2>1, <2>2, <1>c
  <2>4. L + 1 \in 1..Len(pilha') /\ Devedor(pilha'[L + 1])
    BY <2>1, <2>3, <1>t
  <2>5. UNCHANGED <<vencidos, ativo, fios, travado, prazo, moduloExec, arquivos,
                    executados>>
    BY <1>9 DEF ConfirmaExecucao
  <2>6. sinais' \in Nat
    BY <2>2, <1>t
  <2> QED BY <2>3, <2>4, <2>5, <2>6, <1>t, <1>f
<1>10. CASE UNCHANGED vars
  BY <1>10, <1>t, <1>d, <1>f DEF vars, L
<1> QED BY <1>1, <1>2, <1>3, <1>4, <1>5, <1>6, <1>7, <1>8, <1>9, <1>10
     DEF Next, Passo

\* Slots, workers and files are typed in every behaviour.
THEOREM DeployTipado == Spec => []TypeOK
<1>1. IndDeploy => TypeOK
  BY DEF IndDeploy
<1> QED BY <1>1, DeployInicial, DeployPreservada, PTL DEF Spec

\* The mutex that one thread takes and another releases keeps the modules one
\* at a time, however the slots are nested.
THEOREM UmPorVezProvado == Spec => []UmPorVez
<1>1. IndDeploy => UmPorVez
  BY DEF IndDeploy
<1> QED BY <1>1, DeployInicial, DeployPreservada, PTL DEF Spec

\* A stopped timer is always owed a start: whatever fails, cacicdeploy never
\* comes to rest with its timer stopped.
THEOREM TemporizadorProvado == Spec => []TemporizadorDevido
<1>1. IndDeploy => TemporizadorDevido
  <2> SUFFICES ASSUME IndDeploy PROVE TemporizadorDevido
    OBVIOUS
  <2>1. (\E j \in DOMAIN pilha : Devedor(pilha[j])) => pilha # <<>>
    OBVIOUS
  <2> QED BY <2>1 DEF IndDeploy, Divida, TemporizadorDevido
<1> QED BY <1>1, DeployInicial, DeployPreservada, PTL DEF Spec

\* A worker is only started with the mutex free, and so alone.
LEMMA PrazoPasso ==
  ASSUME TypeOK, UmPorVez, PrazoDoDono, [Next]_vars
  PROVE  PrazoDoDono'
<1>t. /\ fios \in Seq([m : Modulos, pc : {"criado", "executa"}])
      /\ Len(fios) = (IF travado THEN 1 ELSE 0)
  BY DEF TypeOK, UmPorVez
<1>1. CASE IniciaFio
  <2>1. fios' = Append(fios, [m |-> Topo.i, pc |-> "criado"]) /\ fios = <<>>
    BY <1>1, <1>t DEF IniciaFio, PegaMutex
  <2>2. fios'[1].m = Topo.i
    BY <2>1
  <2> QED BY <1>1, <2>2 DEF IniciaFio, PrazoDoDono
<1>2. ASSUME NEW k \in DOMAIN fios, FioExecuta(k) PROVE PrazoDoDono'
  <2>1. /\ fios' = [fios EXCEPT ![k].pc = "executa"]
        /\ UNCHANGED <<travado, prazo, moduloExec>>
    BY <1>2 DEF FioExecuta
  <2>2. travado => 1 \in DOMAIN fios /\ fios'[1].m = fios[1].m
    BY <1>t, <2>1
  <2> QED BY <2>1, <2>2 DEF PrazoDoDono
<1>3. ASSUME NEW k \in DOMAIN fios, FioTermina(k) PROVE PrazoDoDono'
  BY <1>3 DEF FioTermina, PrazoDoDono
<1>4. CASE UNCHANGED <<fios, travado, prazo, moduloExec>>
  BY <1>4 DEF PrazoDoDono
<1>5. CASE \/ \E m \in Modulos : Vence(m) \/ Adia(m)
           \/ OnTimer \/ ConfirmaExecucao \/ UNCHANGED vars
           \/ AutorizaResponde \/ Baixado \/ DesisteDoMutex \/ Confirmado
  BY <1>4, <1>5 DEF Vence, Adia, OnTimer, ConfirmaExecucao, vars, AutorizaResponde,
     Baixado, DesisteDoMutex, Confirmado
<1> QED BY <1>1, <1>2, <1>3, <1>5 DEF Next, Passo

\* The timeout with which the mutex is waited for is that of the module that
\* holds it, for every list of modules and however the slots are nested.
THEOREM PrazoProvado == Spec => []PrazoDoDono
<1>1. Init => PrazoDoDono
  BY DEF Init, PrazoDoDono
<1> QED BY <1>1, PrazoPasso, DeployTipado, UmPorVezProvado, PTL DEF Spec
===============================================================================
