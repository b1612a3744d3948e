-------------------------- MODULE EstabilidadeProofs --------------------------
(***************************************************************************)
(* Proofs about the stability check, for every number of readings, every   *)
(* granularity of mtime that the pauses between them outlast, and every    *)
(* file, number of writes and limit on the size.                           *)
(***************************************************************************)
EXTENDS Estabilidade, SequenceTheorems, TLAPS

(* The identical readings have seen an mtime that was there when the first of them was made. *)
MtimeAntigo ==
  /\ arquivo # Nada => arquivo.mtime <= agora
  /\ fase = "dorme" => ultimo # Nada /\ ultimo.mtime + seguidas - 1 <= agora
  /\ fase = "le" /\ ultimo # Nada => ultimo.mtime + seguidas <= agora
  /\ fase \in {"abre", "hash", "compara"} =>
       ultimo # Nada /\ ultimo.tam > 0 /\ ultimo.mtime + Leituras - 1 <= agora

(* While the hash is computed, a file that still has the mtime of the readings is the one that
   is open, and what was hashed of it is still there. *)
Intacto ==
  fase \in {"hash", "compara"} /\ arquivo # Nada /\ arquivo.mtime = ultimo.mtime =>
    /\ aberto = Nada
    /\ Len(lido) <= Len(arquivo.blocos)
    /\ \A i \in 1..Len(lido) : lido[i] = arquivo.blocos[i]
    /\ fase = "compara" => Len(lido) = Len(arquivo.blocos)

(* The count is short of the number of readings until the last, and the hash has a file open. *)
Andamento ==
  /\ fase \in {"le", "dorme"} => seguidas < Leituras
  /\ fase = "hash" /\ aberto = Nada => arquivo # Nada

IInv == TypeOK /\ Andamento /\ MtimeAntigo /\ Intacto

-----------------------------------------------------------------------------
(* A block changed, added or taken away leaves a file of blocks. *)
LEMMA MudaTipo ==
  ASSUME TypeOK, NEW b \in Seq(Valores), Muda(b)
  PROVE  /\ TypeOK'
         /\ arquivo' \in Arquivo /\ arquivo' # Nada
         /\ arquivo'.mtime > agora - Grao /\ arquivo'.mtime <= agora
<1> USE GraoAssumption, LimitesAssumption, NadaAssumption
<1>1. PICK m \in Mtimes : arquivo' = [blocos |-> b, mtime |-> m]
  BY DEF Muda
<1>2. m \in Int /\ m > agora - Grao /\ m <= agora
  BY <1>1 DEF Mtimes, TypeOK
<1>3. arquivo' \in Arquivo /\ arquivo' # Nada
  BY <1>1, <1>2 DEF Arquivo
<1>4. escritas' \in 0..MaxEscritas
  BY DEF Muda, TypeOK
<1> QED
  BY <1>1, <1>2, <1>3, <1>4 DEF Muda, TypeOK, leitura

(* A step of a producer but for a removal is a write of some blocks. *)
LEMMA ProdutorMuda ==
  ASSUME TypeOK, Cria \/ Trunca \/ Acrescenta \/ Reescreve
  PROVE  \E b \in Seq(Valores) : Muda(b)
<1>1. CASE Cria \/ Trunca
  <2>1. <<>> \in Seq(Valores) /\ Muda(<<>>)
    BY <1>1, EmptySeq DEF Cria, Trunca
  <2> QED
    BY <2>1, Zenon
<1>2. CASE Acrescenta
  <2>1. arquivo \in Arquivo
    BY <1>2 DEF Acrescenta, TypeOK
  <2>2. PICK v \in Valores : Muda(Append(arquivo.blocos, v))
    BY <1>2 DEF Acrescenta
  <2> QED
    BY <2>1, <2>2, AppendProperties DEF Arquivo
<1>3. CASE Reescreve
  <2>1. arquivo \in Arquivo
    BY <1>3 DEF Reescreve, TypeOK
  <2>2. PICK i \in DOMAIN arquivo.blocos, v \in Valores : Muda([arquivo.blocos EXCEPT ![i] = v])
    BY <1>3 DEF Reescreve
  <2>3. [arquivo.blocos EXCEPT ![i] = v] \in Seq(Valores)
    BY <2>1, <2>2, ExceptSeq DEF Arquivo
  <2> QED
    BY <2>2, <2>3
<1> QED
  BY <1>1, <1>2, <1>3

LEMMA MetadataTipo ==
  ASSUME TypeOK, arquivo # Nada
  PROVE  /\ Metadata = [tam |-> Len(arquivo.blocos), mtime |-> arquivo.mtime]
         /\ Metadata.tam = Len(arquivo.blocos) /\ Metadata.mtime = arquivo.mtime
         /\ Metadata.tam \in Nat /\ Metadata.mtime \in Int
         /\ Metadata \in [tam : Nat, mtime : Int] /\ Metadata # Nada
         /\ Metadata.tam <= TamanhoMaximo => Metadata \in Leitura
<1>1. arquivo \in Arquivo
  BY DEF TypeOK
<1>2. arquivo.blocos \in Seq(Valores) /\ arquivo.mtime \in Int
  BY <1>1 DEF Arquivo
<1>3. Len(arquivo.blocos) \in Nat
  BY <1>2
<1> QED
  BY <1>2, <1>3, NadaAssumption, LeiturasAssumption DEF Metadata, Leitura

(* What Le does: it ends, or counts a reading that was the same as the last or is the first. *)
LEMMA LeCasos ==
  ASSUME TypeOK, Le
  PROVE  \/ fase' \in Fins /\ UNCHANGED <<seguidas, ultimo, lido>>
         \/ /\ arquivo # Nada /\ Metadata.tam <= TamanhoMaximo
            /\ Conta(Metadata, IF Metadata = ultimo THEN seguidas + 1 ELSE 1)
<1> QED
  BY DEF Le, Acaba, Fins

LEMMA ContaFase ==
  ASSUME NEW r, NEW k \in Nat, Conta(r, k)
  PROVE  /\ k < Leituras => fase' = "dorme"
         /\ k >= Leituras => fase' \in {"zero", "abre"}
         /\ fase' = "abre" => k >= Leituras /\ r.tam # 0
         /\ fase' \in {"dorme", "zero", "abre"}
  BY LeiturasAssumption DEF Conta

-----------------------------------------------------------------------------
LEMMA IInvInicial == Init => IInv
<1> SUFFICES ASSUME Init PROVE IInv
  OBVIOUS
<1> USE GraoAssumption, LimitesAssumption, LeiturasAssumption, NadaAssumption
<1>1. PICK v \in Valores, m \in Mtimes : arquivo = [blocos |-> <<v>>, mtime |-> m]
  BY DEF Init
<1>2. m \in Int /\ m <= agora /\ agora = 0
  BY <1>1 DEF Mtimes, Init
<1>3. arquivo \in Arquivo
  BY <1>1, <1>2 DEF Arquivo
<1>4. TypeOK
  BY <1>2, <1>3 DEF Init, TypeOK, Fases, Fins
<1>5. MtimeAntigo
  BY <1>1, <1>2 DEF Init, MtimeAntigo
<1>6. Intacto
  BY DEF Init, Intacto
<1>7. Andamento
  BY DEF Init, Andamento
<1> QED
  BY <1>4, <1>5, <1>6, <1>7 DEF IInv

(* Producers and time keep every part of the invariant: what they write is newer than the
   readings. *)
LEMMA ProdutorPreserva ==
  ASSUME IInv, Produtor \/ Atrasa
  PROVE  IInv'
<1> USE GraoAssumption, LimitesAssumption, LeiturasAssumption
<1>1. CASE Cria \/ Trunca \/ Acrescenta \/ Reescreve
  <2>1. PICK b \in Seq(Valores) : Muda(b)
    BY <1>1, ProdutorMuda DEF IInv
  <2>2. /\ TypeOK' /\ arquivo' \in Arquivo
        /\ arquivo'.mtime > agora - Grao /\ arquivo'.mtime <= agora
    BY <2>1, MudaTipo DEF IInv
  <2>3. UNCHANGED <<agora, fase, seguidas, ultimo, lido, aberto>>
    BY <2>1 DEF Muda, leitura
  <2>4. MtimeAntigo' /\ Andamento'
    BY <2>1, <2>2, <2>3, MudaTipo DEF IInv, MtimeAntigo, Andamento
  <2>5. Intacto'
    <3> SUFFICES ASSUME fase' \in {"hash", "compara"}, arquivo'.mtime = ultimo'.mtime PROVE FALSE
      BY DEF Intacto
    <3>1. ultimo # Nada /\ ultimo.mtime + Leituras - 1 <= agora
      BY <2>3 DEF IInv, MtimeAntigo
    <3>2. ultimo \in Leitura
      BY <3>1 DEF IInv, TypeOK
    <3>3. ultimo.mtime \in Int /\ agora \in Int
      BY <3>2 DEF Leitura, IInv, TypeOK
    <3> QED
      BY <2>2, <2>3, <3>1, <3>3
  <2> QED
    BY <2>2, <2>4, <2>5 DEF IInv
<1>2. CASE Remove
  <2>1. TypeOK'
    BY <1>2 DEF Remove, IInv, TypeOK, leitura
  <2>2. arquivo' = Nada /\ UNCHANGED <<agora, fase, seguidas, ultimo>>
    BY <1>2 DEF Remove, leitura
  <2>3. Andamento'
    BY <1>2, <2>2 DEF Remove, IInv, Andamento
  <2> QED
    BY <2>1, <2>2, <2>3 DEF IInv, MtimeAntigo, Intacto
<1>3. CASE Atrasa
  <2>1. TypeOK'
    BY <1>3 DEF Atrasa, IInv, TypeOK, leitura
  <2>2. agora' = agora + 1 /\ UNCHANGED <<arquivo, fase, seguidas, ultimo, lido, aberto>>
    BY <1>3 DEF Atrasa, leitura
  <2>3. agora \in Int /\ seguidas \in Int
    BY DEF IInv, TypeOK
  <2>4. arquivo # Nada => arquivo.mtime \in Int
    BY DEF IInv, TypeOK, Arquivo
  <2>5. ultimo # Nada => ultimo.mtime \in Int
    BY DEF IInv, TypeOK, Leitura
  <2>6. MtimeAntigo'
    BY <2>2, <2>3, <2>4, <2>5 DEF IInv, MtimeAntigo
  <2>7. Intacto' /\ Andamento'
    BY <2>2 DEF IInv, Intacto, Andamento
  <2> QED
    BY <2>1, <2>6, <2>7 DEF IInv
<1> QED
  BY <1>1, <1>2, <1>3 DEF Produtor

(* A reading: each identical one is at least a pause later than the one before. *)
LEMMA LePreserva ==
  ASSUME IInv, Le
  PROVE  IInv'
<1> USE LeiturasAssumption
<1>1. UNCHANGED <<arquivo, agora, aberto, escritas, atrasos, lido>>
  BY DEF Le, Acaba, Conta
<1>2. fase = "le" /\ agora \in Int /\ seguidas \in Nat /\ seguidas <= Leituras
  BY DEF Le, IInv, TypeOK
<1>3. CASE fase' \in Fins /\ UNCHANGED <<seguidas, ultimo, lido>>
  BY <1>1, <1>3 DEF IInv, TypeOK, MtimeAntigo, Intacto, Andamento, Fins, Fases
<1>4. CASE /\ arquivo # Nada /\ Metadata.tam <= TamanhoMaximo
           /\ Conta(Metadata, IF Metadata = ultimo THEN seguidas + 1 ELSE 1)
  <2> DEFINE k == IF Metadata = ultimo THEN seguidas + 1 ELSE 1
  <2>1. Metadata \in Leitura /\ Metadata # Nada /\ Metadata.mtime = arquivo.mtime
        /\ Metadata.mtime \in Int /\ Metadata.tam \in Nat
    BY <1>4, MetadataTipo DEF IInv
  <2>2. k \in Nat /\ ultimo' = Metadata /\ seguidas' = k
    BY <1>2, <1>4 DEF Conta
  <2>3. Metadata.mtime + k - 1 <= agora
    BY <1>2, <1>4, <2>1 DEF IInv, MtimeAntigo
  <2>4. /\ k < Leituras => fase' = "dorme"
        /\ k >= Leituras => fase' \in {"zero", "abre"}
        /\ fase' = "abre" => k >= Leituras /\ Metadata.tam # 0
        /\ fase' \in {"dorme", "zero", "abre"}
    <3> HIDE DEF k
    <3>1. Conta(Metadata, k)
      BY <1>4 DEF k
    <3> QED
      BY <2>2, <3>1, ContaFase
  <2>5. k <= Leituras
    BY <1>2, <2>1 DEF IInv, Andamento
  <2>6. TypeOK'
    BY <1>1, <2>1, <2>2, <2>4, <2>5 DEF IInv, TypeOK, Fases, Fins
  <2>7. MtimeAntigo'
    BY <1>1, <1>2, <2>1, <2>2, <2>3, <2>4 DEF IInv, MtimeAntigo
  <2>8. Intacto' /\ Andamento'
    BY <2>2, <2>4 DEF Intacto, Andamento
  <2> QED
    BY <2>6, <2>7, <2>8 DEF IInv
<1> QED
  BY <1>3, <1>4, LeCasos DEF IInv

(* The end of a pause. *)
LEMMA AcordaPreserva ==
  ASSUME IInv, Acorda
  PROVE  IInv'
<1>1. /\ fase = "dorme" /\ fase' = "le" /\ agora' = agora + 1
      /\ UNCHANGED <<arquivo, seguidas, ultimo, lido, aberto, escritas, atrasos>>
  BY DEF Acorda
<1>2. agora \in Int /\ seguidas \in Int
  BY DEF IInv, TypeOK
<1>3. arquivo # Nada => arquivo.mtime \in Int
  BY DEF IInv, TypeOK, Arquivo
<1>4. ultimo # Nada => ultimo.mtime \in Int
  BY DEF IInv, TypeOK, Leitura
<1>5. TypeOK'
  BY <1>1, <1>2 DEF IInv, TypeOK, Fases
<1>6. MtimeAntigo'
  BY <1>1, <1>2, <1>3, <1>4 DEF IInv, MtimeAntigo
<1>7. Andamento'
  BY <1>1 DEF IInv, Andamento
<1> QED
  BY <1>1, <1>5, <1>6, <1>7 DEF IInv, Intacto

(* The hash: what is read next is the next block of the file, as long as its mtime is the old one. *)
LEMMA HashPreserva ==
  ASSUME IInv, Abre \/ LeBloco
  PROVE  IInv'
<1>1. CASE Abre
  <2>1. TypeOK'
    <3>1. lido' \in Seq(Valores)
      BY <1>1, EmptySeq DEF Abre, Acaba, IInv, TypeOK
    <3> QED
      BY <1>1, <3>1 DEF Abre, Acaba, IInv, TypeOK, Fases, Fins
  <2>2. MtimeAntigo' /\ Andamento'
    BY <1>1 DEF Abre, Acaba, IInv, MtimeAntigo, Andamento
  <2>3. Intacto'
    <3> SUFFICES ASSUME fase' = "hash", arquivo' # Nada PROVE /\ aberto' = Nada /\ lido' = <<>>
                                                     /\ Len(arquivo'.blocos) \in Nat
      BY <1>1 DEF Abre, Acaba, Intacto
    <3>1. arquivo \in Arquivo
      BY <1>1 DEF Abre, IInv, TypeOK
    <3> QED
      BY <1>1, <3>1 DEF Abre, Acaba, Arquivo
  <2> QED
    BY <2>1, <2>2, <2>3 DEF IInv
<1>2. CASE LeBloco
  <2>1. fase = "hash" /\ UNCHANGED <<arquivo, agora, aberto, escritas, atrasos, seguidas, ultimo>>
    BY <1>2 DEF LeBloco, Acaba
  <2>2. lido \in Seq(Valores) /\ Len(lido) \in Nat
    BY DEF IInv, TypeOK
  <2>3. CASE fase' = "io" /\ lido' = lido
    BY <2>1, <2>3 DEF IInv, TypeOK, MtimeAntigo, Andamento, Intacto, Fases, Fins
  <2>4. CASE Len(lido) + 1 > Len(Conteudo) /\ fase' = "compara" /\ lido' = lido
    <3>1. TypeOK' /\ MtimeAntigo' /\ Andamento'
      BY <2>1, <2>4 DEF IInv, TypeOK, MtimeAntigo, Andamento, Fases
    <3>2. Intacto'
      <4> SUFFICES ASSUME arquivo # Nada, arquivo.mtime = ultimo.mtime
                   PROVE  /\ aberto = Nada /\ Len(lido) = Len(arquivo.blocos)
                          /\ \A i \in 1..Len(lido) : lido[i] = arquivo.blocos[i]
        BY <2>1, <2>4, <2>2 DEF Intacto
      <4>1. aberto = Nada /\ Len(lido) <= Len(arquivo.blocos)
            /\ \A i \in 1..Len(lido) : lido[i] = arquivo.blocos[i]
        BY <2>1 DEF IInv, Intacto
      <4>2. Len(arquivo.blocos) \in Nat
        BY DEF IInv, TypeOK, Arquivo
      <4> QED
        BY <2>2, <2>4, <4>1, <4>2 DEF Conteudo
    <3> QED
      BY <3>1, <3>2 DEF IInv
  <2>5. CASE /\ Len(lido) + 1 <= Len(Conteudo) /\ fase' = fase
             /\ lido' = Append(lido, Conteudo[Len(lido) + 1])
    <3>1. (aberto = Nada => arquivo # Nada) => Conteudo \in Seq(Valores)
      BY DEF Conteudo, IInv, TypeOK, Arquivo
    <3>2. aberto = Nada => arquivo # Nada
      BY <2>1 DEF IInv, Andamento
    <3>3. Len(Conteudo) \in Nat /\ Len(lido) + 1 \in 1..Len(Conteudo)
      BY <2>2, <2>5, <3>1, <3>2
    <3>4. Conteudo[Len(lido) + 1] \in Valores
      BY <3>1, <3>2, <3>3, ElementOfSeq
    <3>5. /\ lido' \in Seq(Valores) /\ Len(lido') = Len(lido) + 1
          /\ \A i \in 1..Len(lido) : lido'[i] = lido[i]
          /\ lido'[Len(lido) + 1] = Conteudo[Len(lido) + 1]
      BY <2>2, <2>5, <3>4, AppendProperties
    <3>6. TypeOK' /\ MtimeAntigo' /\ Andamento'
      BY <2>1, <2>5, <3>5 DEF IInv, TypeOK, MtimeAntigo, Andamento
    <3>7. Intacto'
      <4> SUFFICES ASSUME arquivo # Nada, arquivo.mtime = ultimo.mtime
                   PROVE  /\ aberto = Nada /\ Len(lido') <= Len(arquivo.blocos)
                          /\ \A i \in 1..Len(lido') : lido'[i] = arquivo.blocos[i]
        BY <2>1, <2>5 DEF Intacto
      <4>1. aberto = Nada /\ \A i \in 1..Len(lido) : lido[i] = arquivo.blocos[i]
        BY <2>1 DEF IInv, Intacto
      <4> QED
        BY <2>2, <3>3, <3>5, <4>1 DEF Conteudo
    <3> QED
      BY <3>6, <3>7 DEF IInv
  <2> QED
    BY <1>2, <2>1, <2>3, <2>4, <2>5 DEF LeBloco, Acaba
<1> QED
  BY <1>1, <1>2

(* The last look at the metadata. *)
LEMMA ComparaPreserva ==
  ASSUME IInv, Compara
  PROVE  IInv'
<1>1. UNCHANGED <<arquivo, agora, aberto, escritas, atrasos, lido>>
  BY DEF Compara, Acaba, Recomeca
<1>2. \/ fase' \in {"estavel", "io"} /\ UNCHANGED <<seguidas, ultimo>>
      \/ fase' = "le" /\ seguidas' = 0 /\ ultimo' = Nada
  BY DEF Compara, Acaba, Recomeca
<1>3. TypeOK'
  BY <1>1, <1>2, LeiturasAssumption DEF IInv, TypeOK, Fases, Fins
<1>4. MtimeAntigo' /\ Andamento' /\ Intacto'
  BY <1>1, <1>2, LeiturasAssumption DEF IInv, MtimeAntigo, Andamento, Intacto
<1> QED
  BY <1>3, <1>4 DEF IInv

LEMMA IInvPreservado == IInv /\ [Next]_vars => IInv'
<1> SUFFICES ASSUME IInv, [Next]_vars PROVE IInv'
  OBVIOUS
<1>1. CASE Produtor \/ Atrasa
  BY <1>1, ProdutorPreserva
<1>2. CASE Passo
  BY <1>2, LePreserva, AcordaPreserva, HashPreserva, ComparaPreserva DEF Passo
<1>3. CASE UNCHANGED vars
  BY <1>3 DEF vars, leitura, IInv, TypeOK, Andamento, MtimeAntigo, Intacto
<1> QED
  BY <1>1, <1>2, <1>3 DEF Next

LEMMA IInvSempre == Spec => []IInv
<1> QED
  BY IInvInicial, IInvPreservado, PTL DEF Spec

(* Every variable of the check holds a value of its kind, in particular no reading over the size
   limit is ever counted. *)
THEOREM TypeOKSempre == Spec => []TypeOK
<1>1. IInv => TypeOK
  BY DEF IInv
<1> QED
  BY <1>1, IInvSempre, PTL

(* The check returns the hash of the whole content of the file at that moment, provided the clock
   of the files is no coarser than the pauses between the readings are long. *)
THEOREM HashDeUmInstanteSempre == Spec => HashDeUmInstante
<1>1. IInv /\ [Next]_vars =>
        [fase # "estavel" /\ fase' = "estavel" =>
           arquivo # Nada /\ lido = arquivo.blocos /\ lido # <<>>]_vars
  <2> SUFFICES ASSUME IInv, Next, fase # "estavel", fase' = "estavel"
               PROVE  arquivo # Nada /\ lido = arquivo.blocos /\ lido # <<>>
    OBVIOUS
  <2>1. fase = "compara" /\ arquivo # Nada /\ Metadata = ultimo
    <3>1. CASE Produtor \/ Atrasa
      BY <3>1 DEF Produtor, Cria, Trunca, Acrescenta, Reescreve, Muda, Remove, Atrasa, leitura
    <3>2. CASE Le
      <4>1. \A r, k : Conta(r, k) => fase' # "estavel"
        BY DEF Conta
      <4> QED
        BY <3>2, <4>1 DEF Le, Acaba
    <3>3. CASE Acorda \/ Abre \/ LeBloco
      BY <3>3 DEF Acorda, Abre, LeBloco, Acaba
    <3>4. CASE Compara
      BY <3>4 DEF Compara, Acaba, Recomeca
    <3> QED
      BY <3>1, <3>2, <3>3, <3>4 DEF Next, Passo
  <2>2. /\ Len(arquivo.blocos) = ultimo.tam /\ arquivo.mtime = ultimo.mtime
        /\ ultimo.tam > 0
    BY <2>1, MetadataTipo DEF IInv, MtimeAntigo
  <2>3. Len(lido) = Len(arquivo.blocos) /\ \A i \in 1..Len(lido) : lido[i] = arquivo.blocos[i]
    BY <2>1, <2>2 DEF IInv, Intacto
  <2>4. lido \in Seq(Valores) /\ arquivo.blocos \in Seq(Valores)
    BY <2>1 DEF IInv, TypeOK, Arquivo
  <2>5. lido = arquivo.blocos
    BY <2>3, <2>4, SeqEqual
  <2>6. lido # <<>>
    BY <2>2, <2>3, <2>4
  <2> QED
    BY <2>1, <2>5, <2>6
<1> QED
  BY <1>1, IInvSempre, PTL DEF Spec, HashDeUmInstante
=============================================================================
