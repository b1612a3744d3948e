---------------------------- MODULE Estabilidade ----------------------------
(***************************************************************************)
(* The stability check of IngestorX (file_ops.rs, aguardar_estabilidade    *)
(* and calcular_hash_sha256): the metadata of a file is read until size    *)
(* and mtime are the same a number of times in a row, the content is       *)
(* hashed block by block, and the metadata is compared once more, while    *)
(* producers go on writing the file in place, remove it or create it anew. *)
(*                                                                         *)
(* A file is a sequence of blocks, its length the size; a hash stands for  *)
(* the blocks that were read.  A unit of time is the pause between two     *)
(* readings; the mtime of a write is late by less than Grao units.         *)
(***************************************************************************)
EXTENDS Integers, Sequences

CONSTANTS
  Valores,        \* what a block can hold
  Leituras,       \* leituras_necessarias
  Grao,           \* granularity of mtime
  TamanhoMaximo,  \* tamanho_maximo
  Nada,           \* no file
  MaxEscritas,    \* bound: writes and removals by producers
  MaxAtrasos      \* bound: units of time that pass over and above the pauses

ASSUME LeiturasAssumption == Leituras \in Nat \ {0} /\ TamanhoMaximo \in Nat
ASSUME LimitesAssumption == MaxEscritas \in Nat /\ MaxAtrasos \in Nat
ASSUME NadaAssumption ==
  Nada \notin [blocos : Seq(Valores), mtime : Int] \cup [tam : Nat, mtime : Int]

(* Between the first and the last of the identical readings the clock of the files moves on. *)
ASSUME GraoAssumption == Grao \in Nat \ {0} /\ Grao <= Leituras - 1

VARIABLES
  arquivo,    \* the file at the path
  agora,      \* time
  fase,       \* what the check is doing, or how it ended
  seguidas,   \* leituras_identicas_seguidas
  ultimo,     \* size and mtime of the last reading
  aberto,     \* the file that the hash reads, once it is no longer at the path
  lido,       \* blocks hashed so far
  escritas, atrasos

leitura == <<fase, seguidas, ultimo, lido>>
vars == <<arquivo, agora, leitura, aberto, escritas, atrasos>>

Arquivo == [blocos : Seq(Valores), mtime : Int]
Fins == {"estavel", "desapareceu", "excedido", "zero", "io"}
Fases == Fins \cup {"le", "dorme", "abre", "hash", "compara"}

Metadata == [tam |-> Len(arquivo.blocos), mtime |-> arquivo.mtime]
Mtimes == (agora - Grao + 1)..agora

Init ==
  /\ agora = 0
  /\ \E v \in Valores, m \in Mtimes : arquivo = [blocos |-> <<v>>, mtime |-> m]
  /\ fase = "le" /\ seguidas = 0 /\ ultimo = Nada /\ aberto = Nada /\ lido = <<>>
  /\ escritas = 0 /\ atrasos = 0

-----------------------------------------------------------------------------
(***************************************************************************)
(* Producers and time.                                                     *)
(***************************************************************************)
Muda(blocos) ==
  /\ escritas < MaxEscritas /\ escritas' = escritas + 1
  /\ \E m \in Mtimes : arquivo' = [blocos |-> blocos, mtime |-> m]
  /\ UNCHANGED <<agora, leitura, aberto, atrasos>>

Cria == arquivo = Nada /\ Muda(<<>>)
Trunca == arquivo # Nada /\ Muda(<<>>)
Acrescenta == arquivo # Nada /\ \E v \in Valores : Muda(Append(arquivo.blocos, v))
Reescreve ==
  /\ arquivo # Nada
  /\ \E i \in DOMAIN arquivo.blocos, v \in Valores : Muda([arquivo.blocos EXCEPT ![i] = v])

(* An open file outlives its name. *)
Remove ==
  /\ arquivo # Nada
  /\ escritas < MaxEscritas /\ escritas' = escritas + 1
  /\ arquivo' = Nada
  /\ aberto' = IF fase = "hash" /\ aberto = Nada THEN arquivo ELSE aberto
  /\ UNCHANGED <<agora, leitura, atrasos>>

Atrasa ==
  /\ atrasos < MaxAtrasos /\ atrasos' = atrasos + 1
  /\ agora' = agora + 1
  /\ UNCHANGED <<arquivo, leitura, aberto, escritas>>

-----------------------------------------------------------------------------
(***************************************************************************)
(* The loop over the metadata.                                             *)
(***************************************************************************)
Acaba(fim) == fase' = fim /\ UNCHANGED <<seguidas, ultimo, lido>>

(* What follows a reading that found the size and mtime r for the k-th time in a row. *)
Conta(r, k) ==
  /\ seguidas' = k /\ ultimo' = r
  /\ fase' = IF k < Leituras THEN "dorme" ELSE IF r.tam = 0 THEN "zero" ELSE "abre"
  /\ UNCHANGED lido

(* Mutant of Le: no limit on the size. *)
LeSemLimite ==
  /\ fase = "le" /\ arquivo # Nada
  /\ Conta(Metadata, IF Metadata = ultimo THEN seguidas + 1 ELSE 1)
  /\ UNCHANGED <<arquivo, agora, aberto, escritas, atrasos>>

Le ==
  /\ fase = "le"
  /\ \/ arquivo = Nada /\ Acaba("desapareceu")
     \/ Acaba("io")
     \/ arquivo # Nada /\ Metadata.tam > TamanhoMaximo /\ Acaba("excedido")
     \/ /\ arquivo # Nada /\ Metadata.tam <= TamanhoMaximo
        /\ Conta(Metadata, IF Metadata = ultimo THEN seguidas + 1 ELSE 1)
  /\ UNCHANGED <<arquivo, agora, aberto, escritas, atrasos>>

(* The sleep between two readings. *)
Acorda ==
  /\ fase = "dorme"
  /\ fase' = "le" /\ agora' = agora + 1
  /\ UNCHANGED <<arquivo, seguidas, ultimo, lido, aberto, escritas, atrasos>>

-----------------------------------------------------------------------------
(***************************************************************************)
(* calcular_hash_sha256, and the last look at the metadata.                *)
(***************************************************************************)
Abre ==
  /\ fase = "abre"
  /\ \/ arquivo # Nada /\ fase' = "hash" /\ lido' = <<>> /\ UNCHANGED <<seguidas, ultimo>>
     \/ Acaba("io")
  /\ aberto' = Nada
  /\ UNCHANGED <<arquivo, agora, escritas, atrasos>>

Conteudo == IF aberto = Nada THEN arquivo.blocos ELSE aberto.blocos

LeBloco ==
  /\ fase = "hash"
  /\ LET i == Len(lido) + 1 IN
       \/ i <= Len(Conteudo) /\ lido' = Append(lido, Conteudo[i]) /\ UNCHANGED <<fase, seguidas, ultimo>>
       \/ i > Len(Conteudo) /\ Acaba("compara")
       \/ Acaba("io")
  /\ UNCHANGED <<arquivo, agora, aberto, escritas, atrasos>>

Recomeca == fase' = "le" /\ seguidas' = 0 /\ ultimo' = Nada /\ UNCHANGED lido

(* Mutant of Compara: the size alone is compared. *)
ComparaTamanho ==
  /\ fase = "compara"
  /\ \/ arquivo # Nada /\ Metadata.tam = ultimo.tam /\ Acaba("estavel")
     \/ arquivo # Nada /\ Metadata.tam # ultimo.tam /\ Recomeca
     \/ Acaba("io")
  /\ UNCHANGED <<arquivo, agora, aberto, escritas, atrasos>>

(* Mutant of Compara: a file that changed is hashed again, and compared with the old reading. *)
ComparaSemReler ==
  /\ fase = "compara"
  /\ \/ arquivo # Nada /\ Metadata = ultimo /\ Acaba("estavel")
     \/ arquivo # Nada /\ Metadata # ultimo /\ Acaba("abre")
  /\ UNCHANGED <<arquivo, agora, aberto, escritas, atrasos>>

Compara ==
  /\ fase = "compara"
  /\ \/ arquivo # Nada /\ Metadata = ultimo /\ Acaba("estavel")
     \/ arquivo # Nada /\ Metadata # ultimo /\ Recomeca
     \/ Acaba("io")
  /\ UNCHANGED <<arquivo, agora, aberto, escritas, atrasos>>

-----------------------------------------------------------------------------
Produtor == Cria \/ Trunca \/ Acrescenta \/ Reescreve \/ Remove
Passo == Le \/ Acorda \/ Abre \/ LeBloco \/ Compara
Next == Produtor \/ Atrasa \/ Passo

Spec == Init /\ [][Next]_vars

(* The check runs; producers may stop at any time. *)
SpecVivo == Spec /\ WF_vars(Passo)

-----------------------------------------------------------------------------
(***************************************************************************)
(* Properties.                                                             *)
(***************************************************************************)
Leitura == [tam : 0..TamanhoMaximo, mtime : Int]

(* Every variable holds a value of its kind; no reading over the size limit counts. *)
TypeOK ==
  /\ arquivo \in Arquivo \cup {Nada} /\ aberto \in Arquivo \cup {Nada}
  /\ agora \in Int /\ fase \in Fases
  /\ seguidas \in 0..Leituras /\ ultimo \in Leitura \cup {Nada}
  /\ lido \in Seq(Valores)
  /\ escritas \in 0..MaxEscritas /\ atrasos \in 0..MaxAtrasos

(* The hash that the check returns is that of the whole content the file has at that moment: no
   slow copy, truncation, rewriting or replacement at any point between the readings and the
   blocks of the hash is missed (README: a file still being copied is never taken). *)
HashDeUmInstante ==
  [][fase # "estavel" /\ fase' = "estavel" =>
       arquivo # Nada /\ lido = arquivo.blocos /\ lido # <<>>]_vars

(* Once producers leave the file alone the check ends, however often it had to start again. *)
SempreAcaba == <>(fase \in Fins)
=============================================================================
