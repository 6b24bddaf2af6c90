--------------------------- MODULE OcmAdminProofs ---------------------------
(***************************************************************************)
(* What the commands of ocm-admin promise, proved for every set of common  *)
(* names, every start of the index and of the table, and every word typed: *)
(* the invariant AdminInv, and from it the safety properties of the runs   *)
(* of OcmAdmin.  The order is that of the model: the index, the other      *)
(* actors, the import, the prompt, and the two side by side.               *)
(***************************************************************************)
EXTENDS OcmAdmin, FiniteSetTheorems, FunctionTheorems, SequenceTheorems, TLAPS

(***************************************************************************)
(* The index: its lines are never lost.                                    *)
(***************************************************************************)
\* A line is taken off its front, and the rest keeps its order.
LEMMA HeadAndTail ==
  ASSUME todo \in Seq(Entry), todo # <<>>
  PROVE  /\ Head(todo) = todo[1] /\ Head(todo) \in Entry
         /\ 1 \in DOMAIN todo /\ DOMAIN todo = 1 .. Len(todo)
         /\ Len(todo) \in Nat \ {0}
         /\ Tail(todo) \in Seq(Entry) /\ Len(Tail(todo)) = Len(todo) - 1
         /\ \A i \in DOMAIN Tail(todo) : /\ i + 1 \in DOMAIN todo
                                         /\ Tail(todo)[i] = todo[i + 1]
         /\ \A i \in DOMAIN todo : i # 1 => /\ i - 1 \in DOMAIN Tail(todo)
                                            /\ Tail(todo)[i - 1] = todo[i]
<1>1. /\ Head(todo) \in Entry /\ Tail(todo) \in Seq(Entry)
      /\ Len(Tail(todo)) = Len(todo) - 1
      /\ \A i \in 1 .. Len(Tail(todo)) : Tail(todo)[i] = todo[i + 1]
  BY HeadTailProperties
<1>2. Len(todo) \in Nat \ {0} /\ DOMAIN todo = 1 .. Len(todo)
  BY EmptySeq, LenProperties
<1>3. DOMAIN Tail(todo) = 1 .. Len(Tail(todo))
  BY <1>1, LenProperties
<1>4. Head(todo) = todo[1]
  BY <1>2
<1> QED
  BY <1>1, <1>2, <1>3, <1>4

\* The lines of a Common Name.
LinesOf(cn) == {i \in DOMAIN index : index[i].cn = cn}

LEMMA LinesAreFinite ==
  ASSUME index \in Seq(Entry), NEW cn
  PROVE  IsFiniteSet(LinesOf(cn))
<1>1. DOMAIN index = 1 .. Len(index) /\ Len(index) \in Nat
  BY LenProperties
<1>2. IsFiniteSet(1 .. Len(index))
  BY <1>1, FS_Interval
<1> QED
  BY <1>1, <1>2, FS_Subset DEF LinesOf

\* Only finitely many Common Names have been issued.
LEMMA NamesAreFinite ==
  ASSUME index \in Seq(Entry)
  PROVE  IsFiniteSet({cn \in CN : Indexed(cn)})
<1> DEFINE f == [i \in DOMAIN index |-> index[i].cn]
           S == {cn \in CN : Indexed(cn)}
<1>1. DOMAIN index = 1 .. Len(index) /\ Len(index) \in Nat
  BY LenProperties
<1>2. IsFiniteSet(DOMAIN index)
  BY <1>1, FS_Interval
<1>3. \A i \in DOMAIN index : index[i].cn \in CN
  <2>1. \A i \in DOMAIN index : index[i] \in Entry
    BY <1>1, ElementOfSeq
  <2> QED
    BY <2>1 DEF Entry
<1>4. f \in [DOMAIN index -> S]
  <2>1. \A i \in DOMAIN index : index[i].cn \in S
    BY <1>3 DEF Indexed
  <2> QED
    BY <2>1
<1>5. \A c \in S : \E i \in DOMAIN index : f[i] = c
  BY DEF Indexed
<1>6. f \in Surjection(DOMAIN index, S)
  BY <1>4, <1>5, Fun_IsSurj
<1> QED
  BY <1>2, <1>6, FS_Surjection

\* Two lines of one Common Name mean that it was issued again.
LEMMA TwoLines ==
  ASSUME index \in Seq(Entry), NEW i \in DOMAIN index, NEW j \in DOMAIN index,
         i # j, index[i].cn = index[j].cn
  PROVE  IssuedAgain(index[i].cn)
<1> DEFINE S == LinesOf(index[i].cn)
<1>1. i \in S /\ j \in S /\ IsFiniteSet(S)
  BY LinesAreFinite DEF LinesOf
<1>2. Cardinality(S \ {j}) = Cardinality(S) - 1 /\ IsFiniteSet(S \ {j})
  BY <1>1, FS_RemoveElement
<1>3. S \ {j} # {}
  BY <1>1
<1>4. Cardinality(S \ {j}) \in Nat \ {0}
  BY <1>2, <1>3, FS_EmptySet, FS_CardinalityType
<1>5. Cardinality(S) > 1
  BY <1>1, <1>2, <1>4, FS_CardinalityType
<1> QED
  BY <1>5 DEF LinesOf, IssuedAgain

\* An index that keeps its lines keeps what is issued, and issued again.
LEMMA IndexGrows ==
  ASSUME index \in Seq(Entry), index' \in Seq(Entry), Len(index) <= Len(index'),
         \A i \in DOMAIN index : index'[i].cn = index[i].cn
  PROVE  \A cn : /\ Indexed(cn) => Indexed(cn)'
                 /\ IssuedAgain(cn) => IssuedAgain(cn)'
<1>1. /\ DOMAIN index = 1 .. Len(index) /\ Len(index) \in Nat
      /\ DOMAIN index' = 1 .. Len(index') /\ Len(index') \in Nat
  BY LenProperties
<1>2. DOMAIN index \subseteq DOMAIN index'
  BY <1>1
<1>3. ASSUME NEW cn, Indexed(cn)
      PROVE  Indexed(cn)'
  BY <1>2, <1>3 DEF Indexed
<1>4. ASSUME NEW cn, IssuedAgain(cn)
      PROVE  IssuedAgain(cn)'
  <2>1. LinesOf(cn) \subseteq LinesOf(cn)'
    BY <1>2 DEF LinesOf
  <2>2. DOMAIN index' = 1 .. Len(index') /\ IsFiniteSet(1 .. Len(index'))
    BY <1>1, FS_Interval
  <2>3. IsFiniteSet(LinesOf(cn)')
    BY <2>2, FS_Subset DEF LinesOf
  <2>4. /\ Cardinality(LinesOf(cn)) <= Cardinality(LinesOf(cn)')
        /\ Cardinality(LinesOf(cn)) \in Nat /\ Cardinality(LinesOf(cn)') \in Nat
    BY <2>1, <2>3, FS_Subset, FS_CardinalityType
  <2>5. Cardinality(LinesOf(cn)) > 1
    BY <1>4 DEF IssuedAgain, LinesOf
  <2>6. Cardinality(LinesOf(cn)') > 1
    BY <2>4, <2>5
  <2> QED
    BY <2>6 DEF IssuedAgain, LinesOf
<1> QED
  BY <1>3, <1>4

(***************************************************************************)
(* easy-rsa.                                                               *)
(***************************************************************************)
\* The files of the CA have the types declared.
CaTypeOK == /\ index \in Seq(Entry) /\ Len(index) <= MaxIndex
            /\ issued \in [CN -> Kind \union {"none"}]
            /\ encrypted \in [CN -> BOOLEAN]

LEMMA IssueLemma ==
  ASSUME ImportInv, NEW cn \in CN, NEW kind \in Kind, NEW pw \in BOOLEAN,
         Issue(cn, kind, pw)
  PROVE  /\ CaTypeOK' /\ IndexInv'
         /\ \A c : /\ Indexed(c) => Indexed(c)'
                   /\ IssuedAgain(c) => IssuedAgain(c)'
         /\ \A c \in CN : issued[c] # "none" => issued'[c] = issued[c]
         /\ Indexed(cn)'
<1>1. /\ index \in Seq(Entry) /\ Len(index) < MaxIndex
      /\ issued \in [CN -> Kind \union {"none"}] /\ issued[cn] = "none"
      /\ encrypted \in [CN -> BOOLEAN]
  BY DEF ImportInv, TypeOK, Issue
<1>2. MaxIndex \in Nat /\ Len(index) \in Nat
  BY <1>1, BoundAssumption, LenProperties
<1> DEFINE e == [cn |-> cn, revoked |-> FALSE]
<1>3. e \in Entry /\ index' = Append(index, e)
  BY DEF Entry, Issue
<1>4. /\ index' \in Seq(Entry) /\ Len(index') = Len(index) + 1
      /\ \A i \in 1 .. Len(index) : index'[i] = index[i]
      /\ index'[Len(index) + 1] = e
  BY <1>1, <1>3, AppendProperties
<1>5. /\ DOMAIN index = 1 .. Len(index)
      /\ DOMAIN index' = 1 .. Len(index) + 1
  BY <1>1, <1>4, LenProperties
<1>6. issued' = [issued EXCEPT ![cn] = kind] /\ encrypted' = [encrypted EXCEPT ![cn] = pw]
  BY DEF Issue
<1>7. CaTypeOK'
  BY <1>1, <1>2, <1>4, <1>6 DEF CaTypeOK
<1>8. \A c : /\ Indexed(c) => Indexed(c)'
             /\ IssuedAgain(c) => IssuedAgain(c)'
  <2>1. \A i \in DOMAIN index : index'[i].cn = index[i].cn
    BY <1>4, <1>5
  <2> QED
    BY <1>1, <1>2, <1>4, <2>1, IndexGrows
<1>9. \A c \in CN : issued[c] # "none" => issued'[c] = issued[c]
  BY <1>1, <1>6
<1>10. Len(index) + 1 \in DOMAIN index' /\ index'[Len(index) + 1].cn = cn
       /\ ~index'[Len(index) + 1].revoked
  BY <1>2, <1>4, <1>5
<1>11. IndexInv'
  <2> SUFFICES ASSUME NEW c \in CN, issued'[c] # "none"
               PROVE  \E i \in DOMAIN index' : index'[i].cn = c /\ ~index'[i].revoked
    BY DEF IndexInv
  <2>1. CASE c = cn
    BY <1>10, <2>1
  <2>2. CASE c # cn
    <3>1. issued[c] # "none"
      BY <1>1, <1>6, <2>2
    <3>2. PICK i \in DOMAIN index : index[i].cn = c /\ ~index[i].revoked
      BY <3>1 DEF ImportInv, IndexInv
    <3>3. i \in DOMAIN index' /\ index'[i] = index[i]
      BY <1>2, <1>4, <1>5
    <3> QED
      BY <3>2, <3>3
  <2> QED
    BY <2>1, <2>2
<1>12. Indexed(cn)'
  BY <1>10 DEF Indexed
<1> QED
  BY <1>7, <1>8, <1>9, <1>11, <1>12

LEMMA RevokeCertLemma ==
  ASSUME ImportInv, NEW cn \in CN, RevokeCert(cn)
  PROVE  /\ CaTypeOK' /\ IndexInv'
         /\ \A c : /\ Indexed(c) => Indexed(c)'
                   /\ IssuedAgain(c) => IssuedAgain(c)'
         /\ \A c \in CN \ {cn} : issued'[c] = issued[c]
<1>1. /\ index \in Seq(Entry) /\ Len(index) <= MaxIndex
      /\ issued \in [CN -> Kind \union {"none"}]
      /\ encrypted \in [CN -> BOOLEAN]
  BY DEF ImportInv, TypeOK
<1>2. /\ Len(index) \in Nat /\ DOMAIN index = 1 .. Len(index)
      /\ index \in [1 .. Len(index) -> Entry]
  BY <1>1, LenProperties
<1>3. \A i \in 1 .. Len(index) : index[i] \in Entry
  BY <1>2
<1>4. /\ DOMAIN index' = 1 .. Len(index)
      /\ \A i \in 1 .. Len(index) :
           /\ index'[i] \in Entry /\ index'[i].cn = index[i].cn
           /\ index[i].cn # cn => index'[i] = index[i]
  BY <1>2, <1>3 DEF RevokeCert, Entry
<1>5. index' \in [1 .. Len(index) -> Entry]
  BY <1>2, <1>3 DEF RevokeCert, Entry
<1>6. index' \in Seq(Entry) /\ Len(index') = Len(index)
  BY <1>2, <1>5
<1>7. issued' = [issued EXCEPT ![cn] = "none"] /\ encrypted' = [encrypted EXCEPT ![cn] = FALSE]
  BY DEF RevokeCert
<1>8. CaTypeOK'
  BY <1>1, <1>6, <1>7 DEF CaTypeOK
<1>9. \A c : /\ Indexed(c) => Indexed(c)'
             /\ IssuedAgain(c) => IssuedAgain(c)'
  <2>1. \A i \in DOMAIN index : index'[i].cn = index[i].cn
    BY <1>2, <1>4
  <2>2. Len(index) <= Len(index')
    BY <1>2, <1>6
  <2> QED
    BY <1>1, <1>6, <2>1, <2>2, IndexGrows
<1>10. \A c \in CN \ {cn} : issued'[c] = issued[c]
  BY <1>1, <1>7
<1>11. issued'[cn] = "none"
  BY <1>1, <1>7
<1>12. IndexInv'
  <2> SUFFICES ASSUME NEW c \in CN, issued'[c] # "none"
               PROVE  \E i \in DOMAIN index' : index'[i].cn = c /\ ~index'[i].revoked
    BY DEF IndexInv
  <2>1. c # cn /\ issued[c] # "none"
    BY <1>10, <1>11
  <2>2. PICK i \in DOMAIN index : index[i].cn = c /\ ~index[i].revoked
    BY <2>1 DEF ImportInv, IndexInv
  <2>3. i \in DOMAIN index' /\ index'[i] = index[i]
    BY <1>2, <1>4, <2>1, <2>2
  <2> QED
    BY <2>2, <2>3
<1> QED
  BY <1>8, <1>9, <1>10, <1>12

(***************************************************************************)
(* The administrator of the CA, and the API: what they leave to the import.*)
(***************************************************************************)
LEMMA OthersInv ==
  ASSUME ImportInv, CaTypeOK', IndexInv', UNCHANGED toolVars, calm' = FALSE,
         due' \subseteq due,
         row' \in [CN -> Row \union {NoRow}], api' \in Busy \union {Free},
         \A c : /\ Indexed(c) => Indexed(c)'
                /\ IssuedAgain(c) => IssuedAgain(c)',
         \A c \in due' : issued'[c] = issued[c],
         \A c \in CN : /\ Known(c) => Known(c)'
                       /\ Known(c)' => Known(c) \/ Indexed(c),
         \A c \in due' : Known(c)' /\ row'[c].revoked => Known(c) /\ row[c].revoked,
         api' # Free => Indexed(api.cn)',
         api'.op = "mark" => Known(api.cn)' /\ api'.cn \notin due'
  PROVE  ImportInv'
<1> USE DEF ImportInv, IsClientCertificate
<1>1. UNCHANGED <<tool, dry, todo, password, imported>>
  BY DEF toolVars
<1>2. todo \in Seq(Entry) /\ due \subseteq CN
  BY DEF TypeOK
<1>3. TypeOK'
  BY <1>1 DEF TypeOK, CaTypeOK
<1>4. ListedInv'
  BY DEF ListedInv
<1>5. TodoInv'
  <2>1. tool = "insert" => Head(todo).cn \in CN
    BY <1>2, HeadAndTail DEF TodoInv, Entry
  <2> QED
    BY <1>1, <2>1 DEF TodoInv
<1>6. DueInv'
  <2>1. IsFiniteSet(due')
    BY FS_Subset DEF DueInv
  <2>2. \A c : Owed(c) => Owed(c)'
    BY <1>1 DEF Owed
  <2> QED
    BY <1>1, <1>2, <2>1, <2>2 DEF DueInv
<1>7. CountInv'
  BY DEF CountInv
<1> QED
  BY <1>3, <1>4, <1>5, <1>6, <1>7

\* The API does something to the table, or to a key, and not to the index.
LEMMA SameIndex ==
  ASSUME ImportInv, UNCHANGED <<index, issued>>, encrypted' \in [CN -> BOOLEAN]
  PROVE  /\ CaTypeOK' /\ IndexInv'
         /\ \A c : /\ Indexed(c) => Indexed(c)'
                   /\ IssuedAgain(c) => IssuedAgain(c)'
  BY DEF ImportInv, TypeOK, CaTypeOK, IndexInv, Indexed, IssuedAgain

LEMMA CaIssueInv ==
  ASSUME ImportInv, CaIssue
  PROVE  ImportInv'
<1>1. PICK cn \in CN, kind \in Kind, pw \in BOOLEAN : Issue(cn, kind, pw)
  BY DEF CaIssue
<1>2. /\ CaTypeOK' /\ IndexInv'
      /\ \A c : /\ Indexed(c) => Indexed(c)'
                /\ IssuedAgain(c) => IssuedAgain(c)'
      /\ \A c \in CN : issued[c] # "none" => issued'[c] = issued[c]
  BY <1>1, IssueLemma
<1>3. UNCHANGED <<row, api, toolVars, due>> /\ calm' = FALSE
  BY DEF CaIssue
<1>4. \A c \in due' : c \in CN /\ issued'[c] = issued[c]
  BY <1>2, <1>3 DEF ImportInv, TypeOK, DueInv, IsClientCertificate
<1>5. api # Free => Indexed(api.cn)'
  <2>1. api # Free => api.cn \in CN /\ Indexed(api.cn)
    BY DEF ImportInv, ListedInv, TypeOK, Busy
  <2> QED
    BY <1>2, <1>3, <2>1 DEF Indexed
<1> QED
  BY <1>2, <1>3, <1>4, <1>5, OthersInv DEF ImportInv, ListedInv, TypeOK, Known

LEMMA CaRevokeInv ==
  ASSUME ImportInv, CaRevoke
  PROVE  ImportInv'
<1>1. PICK cn \in CN : RevokeCert(cn) /\ due' = due \ {cn}
  BY DEF CaRevoke
<1>2. /\ CaTypeOK' /\ IndexInv'
      /\ \A c : /\ Indexed(c) => Indexed(c)'
                /\ IssuedAgain(c) => IssuedAgain(c)'
      /\ \A c \in CN \ {cn} : issued'[c] = issued[c]
  BY <1>1, RevokeCertLemma
<1>3. UNCHANGED <<row, api, toolVars>> /\ calm' = FALSE
  BY DEF CaRevoke
<1>4. \A c \in due' : c \in CN /\ issued'[c] = issued[c]
  BY <1>1, <1>2 DEF ImportInv, TypeOK
<1>5. api # Free => Indexed(api.cn)'
  <2>1. api # Free => api.cn \in CN /\ Indexed(api.cn)
    BY DEF ImportInv, ListedInv, TypeOK, Busy
  <2> QED
    BY <1>2, <1>3, <2>1 DEF Indexed
<1> QED
  BY <1>1, <1>2, <1>3, <1>4, <1>5, OthersInv DEF ImportInv, ListedInv, TypeOK, Known

LEMMA ApiIssueInv ==
  ASSUME ImportInv, ApiIssue
  PROVE  ImportInv'
<1>1. PICK cn \in CN, pw \in BOOLEAN :
        /\ Issue(cn, "client", FALSE)
        /\ api' = [op |-> IF pw THEN "issued" ELSE "insert",
                   cn |-> cn, password |-> pw]
  BY DEF ApiIssue
<1>2. /\ CaTypeOK' /\ IndexInv'
      /\ \A c : /\ Indexed(c) => Indexed(c)'
                /\ IssuedAgain(c) => IssuedAgain(c)'
      /\ \A c \in CN : issued[c] # "none" => issued'[c] = issued[c]
      /\ Indexed(cn)'
  BY <1>1, IssueLemma DEF Kind
<1>3. UNCHANGED <<row, toolVars, due>> /\ calm' = FALSE
  BY DEF ApiIssue
<1>4. \A c \in due' : c \in CN /\ issued'[c] = issued[c]
  BY <1>2, <1>3 DEF ImportInv, TypeOK, DueInv, IsClientCertificate
<1>5. api' \in Busy /\ api'.cn = cn /\ api'.op # "mark"
  BY <1>1 DEF Busy
<1>6. Indexed(api.cn)'
  BY <1>2, <1>5 DEF Indexed
<1> QED
  BY <1>2, <1>3, <1>4, <1>5, <1>6, OthersInv DEF ImportInv, TypeOK, Known

LEMMA ApiEncryptInv ==
  ASSUME ImportInv, ApiEncrypt
  PROVE  ImportInv'
<1>1. api \in Busy /\ api.op = "issued"
  BY DEF ApiEncrypt, ImportInv, TypeOK, Free
<1>2. UNCHANGED <<index, issued, row, toolVars, due>> /\ calm' = FALSE
  BY DEF ApiEncrypt
<1>3. encrypted' \in [CN -> BOOLEAN]
  BY <1>1 DEF ApiEncrypt, ImportInv, TypeOK, Busy
<1>4. api' \in Busy \union {Free} /\ api'.op # "mark"
      /\ (api' # Free => api'.cn = api.cn)
  BY <1>1 DEF ApiEncrypt, Busy, Free
<1>5. /\ CaTypeOK' /\ IndexInv'
      /\ \A c : /\ Indexed(c) => Indexed(c)'
                /\ IssuedAgain(c) => IssuedAgain(c)'
  BY <1>2, <1>3, SameIndex
<1>6. api' # Free => Indexed(api.cn)'
  <2>1. api # Free
    BY <1>1 DEF Free, Busy
  <2>2. Indexed(api.cn)
    BY <2>1 DEF ImportInv, ListedInv
  <2> QED
    BY <1>2, <1>4, <2>2 DEF Indexed
<1> QED
  BY <1>2, <1>4, <1>5, <1>6, OthersInv DEF ImportInv, TypeOK, Known

LEMMA ApiInsertInv ==
  ASSUME ImportInv, ApiInsert
  PROVE  ImportInv'
<1>1. api \in Busy /\ api.op = "insert" /\ api.cn \in CN
  BY DEF ApiInsert, ImportInv, TypeOK, Free, Busy
<1>2. UNCHANGED <<caVars, toolVars, due>> /\ calm' = FALSE /\ api' = Free
  BY DEF ApiInsert
<1>3. Indexed(api.cn)
  <2>1. api # Free
    BY <1>1 DEF Free, Busy
  <2> QED
    BY <2>1 DEF ImportInv, ListedInv
<1> DEFINE r == [revoked |-> FALSE, hasPassword |-> api.password]
<1>4. r \in Row /\ r # NoRow /\ ~r.revoked
  <2>1. api.password \in BOOLEAN
    BY <1>1 DEF Busy
  <2>2. r \in Row /\ ~r.revoked
    BY <2>1 DEF Row
  <2> QED
    BY <2>2, NoRowAssumption
<1>5. row' = row \/ row' = [row EXCEPT ![api.cn] = r]
  BY DEF ApiInsert
<1>6. row \in [CN -> Row \union {NoRow}]
  BY DEF ImportInv, TypeOK
<1> HIDE DEF r
<1>7. /\ row' \in [CN -> Row \union {NoRow}]
      /\ \A c \in CN : row'[c] # row[c] => c = api.cn /\ row'[c] = r
  BY <1>4, <1>5, <1>6
<1>8. /\ CaTypeOK' /\ IndexInv'
      /\ \A c : /\ Indexed(c) => Indexed(c)'
                /\ IssuedAgain(c) => IssuedAgain(c)'
  BY <1>2, SameIndex DEF caVars, ImportInv, TypeOK
<1>9. \A c \in CN : /\ Known(c) => Known(c)'
                    /\ Known(c)' => Known(c) \/ Indexed(c)
                    /\ Known(c)' /\ row'[c].revoked => Known(c) /\ row[c].revoked
  BY <1>3, <1>4, <1>7 DEF Known
<1>10. due \subseteq CN /\ Free.op = "idle"
  BY DEF ImportInv, TypeOK, Free
<1> QED
  BY <1>2, <1>7, <1>8, <1>9, <1>10, OthersInv DEF caVars

LEMMA ApiRevokeInv ==
  ASSUME ImportInv, ApiRevoke
  PROVE  ImportInv'
<1>1. PICK cn \in CN : /\ Known(cn) /\ RevokeCert(cn)
                       /\ api' = [op |-> "mark", cn |-> cn, password |-> FALSE]
                       /\ due' = due \ {cn}
  BY DEF ApiRevoke, Known
<1>2. /\ CaTypeOK' /\ IndexInv'
      /\ \A c : /\ Indexed(c) => Indexed(c)'
                /\ IssuedAgain(c) => IssuedAgain(c)'
      /\ \A c \in CN \ {cn} : issued'[c] = issued[c]
  BY <1>1, RevokeCertLemma
<1>3. UNCHANGED <<row, toolVars>> /\ calm' = FALSE
  BY DEF ApiRevoke
<1>4. \A c \in due' : c \in CN /\ issued'[c] = issued[c]
  BY <1>1, <1>2 DEF ImportInv, TypeOK
<1>5. api' \in Busy /\ api'.cn = cn
  BY <1>1 DEF Busy
<1>6. Indexed(cn)'
  BY <1>1, <1>2 DEF ImportInv, ListedInv
<1>7. Indexed(api.cn)'
  BY <1>5, <1>6 DEF Indexed
<1>8. Known(api.cn)' /\ api'.cn \notin due'
  BY <1>1, <1>3, <1>5 DEF Known
<1> QED
  BY <1>1, <1>2, <1>3, <1>4, <1>5, <1>7, <1>8, OthersInv DEF ImportInv, TypeOK, Known

LEMMA ApiMarkInv ==
  ASSUME ImportInv, ApiMark
  PROVE  ImportInv'
<1>1. api \in Busy /\ api.op = "mark" /\ api.cn \in CN
  BY DEF ApiMark, ImportInv, TypeOK, Free, Busy
<1>2. UNCHANGED <<caVars, toolVars, due>> /\ calm' = FALSE /\ api' = Free
  BY DEF ApiMark
<1>3. Known(api.cn) /\ api.cn \notin due
  BY <1>1 DEF ImportInv, ListedInv
<1>4. row \in [CN -> Row \union {NoRow}] /\ row[api.cn] \in Row
  BY <1>1, <1>3 DEF ImportInv, TypeOK, Known
<1>5. row' = [row EXCEPT ![api.cn].revoked = TRUE]
  BY DEF ApiMark
<1>6. /\ row' \in [CN -> Row \union {NoRow}] /\ row'[api.cn] \in Row
      /\ \A c \in CN : c # api.cn => row'[c] = row[c]
  BY <1>1, <1>4, <1>5 DEF Row
<1>7. /\ CaTypeOK' /\ IndexInv'
      /\ \A c : /\ Indexed(c) => Indexed(c)'
                /\ IssuedAgain(c) => IssuedAgain(c)'
  BY <1>2, SameIndex DEF caVars, ImportInv, TypeOK
<1>8. \A c \in CN : /\ Known(c) => Known(c)'
                    /\ Known(c)' => Known(c)
  BY <1>3, <1>6, NoRowAssumption DEF Known
<1>9. \A c \in due : Known(c)' /\ row'[c].revoked => Known(c) /\ row[c].revoked
  BY <1>3, <1>6, <1>8 DEF ImportInv, TypeOK
<1>10. due \subseteq CN /\ Free.op = "idle"
  BY DEF ImportInv, TypeOK, Free
<1> QED
  BY <1>2, <1>6, <1>7, <1>8, <1>9, <1>10, OthersInv DEF caVars

(***************************************************************************)
(* The import.                                                             *)
(***************************************************************************)
\* A step of the import that leaves the CA and the table alone.
LEMMA QuietParts ==
  ASSUME ImportInv, UNCHANGED <<caVars, row, api>>
  PROVE  /\ CaTypeOK' /\ IndexInv'
         /\ row' \in [CN -> Row \union {NoRow}] /\ api' \in Busy \union {Free}
         /\ \A c : /\ Indexed(c)' <=> Indexed(c)
                   /\ IssuedAgain(c)' <=> IssuedAgain(c)
                   /\ Known(c)' <=> Known(c)
  BY DEF caVars, ImportInv, TypeOK, CaTypeOK, IndexInv, Indexed, IssuedAgain,
         Known

\* What is owed when the import starts: it is not listed, and the index has a
\* line for it.
LEMMA ReadIndexInv ==
  ASSUME ImportInv, NEW d \in BOOLEAN, ReadIndex(d)
  PROVE  ImportInv'
<1> USE DEF ImportInv, IsClientCertificate
<1>1. /\ tool' = "look" /\ dry' = d /\ todo' = index /\ imported' = 0
      /\ due' = {cn \in CN : IsClientCertificate(cn) /\ ~Known(cn)}
      /\ calm' = TRUE /\ UNCHANGED <<caVars, row, api, password>>
  BY DEF ReadIndex
<1>2. UNCHANGED <<index, issued, encrypted>>
  BY <1>1 DEF caVars
<1>3. /\ CaTypeOK' /\ IndexInv'
      /\ row' \in [CN -> Row \union {NoRow}] /\ api' \in Busy \union {Free}
      /\ \A c : /\ Indexed(c)' <=> Indexed(c)
                /\ IssuedAgain(c)' <=> IssuedAgain(c)
                /\ Known(c)' <=> Known(c)
  BY <1>1, QuietParts
<1>4. /\ index \in Seq(Entry) /\ Len(index) \in Nat /\ Len(index) <= MaxIndex
      /\ DOMAIN index = 1 .. Len(index) /\ MaxIndex \in Nat
  BY BoundAssumption, LenProperties DEF TypeOK
<1>5. \A c \in due' : /\ c \in CN /\ ~Known(c) /\ IsClientCertificate(c)
                      /\ \E i \in DOMAIN index : index[i].cn = c /\ ~index[i].revoked
  BY <1>1 DEF IndexInv
<1>6. TypeOK'
  BY <1>1, <1>3, <1>4 DEF TypeOK, CaTypeOK
<1>7. ListedInv'
  <2>1. /\ \A cn \in CN : Known(cn)' => Indexed(cn)'
    BY <1>3 DEF ListedInv
  <2>2. api' # Free => Indexed(api.cn)'
    BY <1>1, <1>2 DEF ListedInv, Indexed
  <2>3. api'.op = "mark" => Known(api.cn)' /\ api'.cn \notin due'
    BY <1>1, <1>5 DEF ListedInv, Known
  <2> QED
    BY <2>1, <2>2, <2>3 DEF ListedInv
<1>8. IsFiniteSet(due')
  <2>1. IsFiniteSet({cn \in CN : Indexed(cn)})
    BY <1>4, NamesAreFinite
  <2>2. due' \subseteq {cn \in CN : Indexed(cn)}
    BY <1>5 DEF Indexed
  <2> QED
    BY <2>1, <2>2, FS_Subset
<1>9. DueInv'
  BY <1>1, <1>2, <1>3, <1>5, <1>8 DEF DueInv, Owed
<1>10. TodoInv'
  <2>1. ASSUME NEW i \in DOMAIN index
        PROVE  /\ Indexed(index[i].cn)'
               /\ index[i].revoked /\ index[i].cn \in due' => IssuedAgain(index[i].cn)'
    <3>1. Indexed(index[i].cn)'
      BY <1>2, <2>1 DEF Indexed
    <3>2. ASSUME index[i].revoked, index[i].cn \in due'
          PROVE  IssuedAgain(index[i].cn)'
      <4>1. PICK j \in DOMAIN index : index[j].cn = index[i].cn /\ ~index[j].revoked
        BY <1>5, <3>2
      <4>2. i # j
        BY <3>2, <4>1
      <4>3. IssuedAgain(index[i].cn)
        BY <1>4, <4>1, <4>2, TwoLines
      <4> QED
        BY <1>2, <4>3 DEF IssuedAgain
    <3> QED
      BY <3>1, <3>2
  <2>2. ASSUME NEW i \in DOMAIN todo'
        PROVE  /\ Indexed(todo[i].cn)'
               /\ todo'[i].revoked /\ todo'[i].cn \in due' => IssuedAgain(todo[i].cn)'
    BY <1>1, <1>2, <2>1, <2>2 DEF Indexed, IssuedAgain
  <2>3. imported' + Len(todo') <= MaxIndex + 0
    BY <1>1, <1>4
  <2> QED
    BY <1>1, <2>2, <2>3 DEF TodoInv
<1>11. CountInv'
  <2>1. \A c \in CN : IsClientCertificate(c)' /\ ~Known(c)' => c \in due'
    BY <1>1, <1>2, <1>3
  <2>2. Listed' = {}
    BY <1>3, <1>5 DEF Listed
  <2>3. Cardinality(Listed') = 0 /\ imported' = 0
    BY <1>1, <2>2, FS_EmptySet
  <2>4. Ahead' = due'
    BY <1>1, <1>5 DEF Ahead
  <2>5. imported' + Cardinality(Ahead') = Cardinality(due')
    BY <1>8, <2>3, <2>4, FS_CardinalityType
  <2>6. ASSUME \A c \in due' : ~IssuedAgain(c)', NEW i \in DOMAIN todo', NEW j \in DOMAIN todo',
               todo'[i].cn = todo'[j].cn, todo'[i].cn \in due'
        PROVE  i = j
    <3>1. ~IssuedAgain(index[i].cn)
      BY <1>1, <1>3, <2>6
    <3> QED
      BY <1>1, <1>4, <2>6, <3>1, TwoLines
  <2> QED
    BY <1>1, <2>1, <2>2, <2>3, <2>5, <2>6 DEF CountInv
<1> QED
  BY <1>3, <1>6, <1>7, <1>9, <1>10, <1>11

\* What is known, or no client's, is not owed: a client that is owed works.
LEMMA SkipInv ==
  ASSUME ImportInv, Skip
  PROVE  ImportInv'
<1> USE DEF ImportInv, IsClientCertificate
<1> DEFINE h == Head(todo).cn
<1>1. /\ tool = "look" /\ todo # <<>> /\ todo' = Tail(todo)
      /\ Known(h) \/ ~IsClientCertificate(h)
      /\ UNCHANGED <<caVars, row, api, tool, dry, password, imported, due, calm>>
  BY DEF Skip
<1>2. UNCHANGED <<index, issued, encrypted>>
  BY <1>1 DEF caVars
<1>3. /\ CaTypeOK' /\ IndexInv'
      /\ row' \in [CN -> Row \union {NoRow}] /\ api' \in Busy \union {Free}
      /\ \A c : /\ Indexed(c)' <=> Indexed(c)
                /\ IssuedAgain(c)' <=> IssuedAgain(c)
                /\ Known(c)' <=> Known(c)
  BY <1>1, QuietParts
<1>4. /\ Head(todo) = todo[1] /\ Len(todo) \in Nat \ {0}
      /\ Tail(todo) \in Seq(Entry) /\ Len(Tail(todo)) = Len(todo) - 1
      /\ \A i \in DOMAIN Tail(todo) : /\ i + 1 \in DOMAIN todo
                                      /\ Tail(todo)[i] = todo[i + 1]
      /\ \A i \in DOMAIN todo : i # 1 => /\ i - 1 \in DOMAIN Tail(todo)
                                         /\ Tail(todo)[i - 1] = todo[i]
      /\ DOMAIN todo = 1 .. Len(todo)
  BY <1>1, HeadAndTail DEF TypeOK
<1>5. /\ \A i \in DOMAIN todo' : i + 1 \in DOMAIN todo /\ todo'[i] = todo[i + 1]
      /\ \A i \in DOMAIN todo : i # 1 => i - 1 \in DOMAIN todo' /\ todo'[i - 1] = todo[i]
  BY <1>1, <1>4
<1>6. TypeOK'
  BY <1>1, <1>3, <1>4 DEF TypeOK, CaTypeOK
<1>7. ListedInv'
  BY <1>1, <1>2 DEF ListedInv, Indexed, Known
<1>8. TodoInv'
  <2>1. ASSUME NEW i \in DOMAIN todo'
        PROVE  /\ Indexed(todo[i].cn)'
               /\ todo'[i].revoked /\ todo'[i].cn \in due' => IssuedAgain(todo[i].cn)'
    <3>1. PICK j \in DOMAIN todo : todo'[i] = todo[j]
      BY <1>5
    <3>2. /\ Indexed(todo[j].cn)
          /\ todo[j].revoked /\ todo[j].cn \in due => IssuedAgain(todo[j].cn)
      BY DEF TodoInv
    <3> QED
      BY <1>1, <1>2, <3>1, <3>2 DEF Indexed, IssuedAgain
  <2>2. imported' + Len(todo') <= MaxIndex
    BY <1>1, <1>4, BoundAssumption DEF TodoInv, TypeOK
  <2> QED
    BY <1>1, <2>1, <2>2, BoundAssumption DEF TodoInv
<1>9. DueInv'
  <2>1. ASSUME NEW c \in due, Owed(c), ~Known(c)
        PROVE  Owed(c)'
    <3>1. PICK i \in DOMAIN todo : todo[i].cn = c /\ ~todo[i].revoked
      BY <2>1 DEF Owed
    <3>2. i # 1
      BY <1>1, <1>4, <2>1, <3>1 DEF DueInv
    <3> QED
      BY <1>5, <3>1, <3>2 DEF Owed
  <2> QED
    BY <1>1, <1>2, <1>3, <2>1 DEF DueInv
<1>10. CountInv'
  <2> SUFFICES ASSUME calm'
               PROVE  CountInv'
    BY DEF CountInv
  <2>1. Listed' = Listed
    BY <1>1, <1>3 DEF Listed
  <2>2. ASSUME dry, \A c \in due : ~IssuedAgain(c)
        PROVE  /\ Ahead' = Ahead
               /\ \A i, j \in DOMAIN todo' :
                    todo'[i].cn = todo'[j].cn /\ todo'[i].cn \in due => i = j
    <3>1. h \notin due
      BY <1>1, <2>2 DEF CountInv, DueInv, Listed
    <3>2. \A i \in DOMAIN todo : todo[i].cn \in due => i # 1
      BY <1>4, <3>1
    <3>3. \A c \in due : (\E i \in DOMAIN todo' : todo'[i].cn = c)
                           <=> (\E i \in DOMAIN todo : todo[i].cn = c)
      BY <1>5, <3>2
    <3>4. Ahead' = Ahead
      BY <1>1, <3>3 DEF Ahead
    <3>5. \A i, j \in DOMAIN todo :
            todo[i].cn = todo[j].cn /\ todo[i].cn \in due => i = j
      BY <1>1, <2>2 DEF CountInv
    <3>6. \A i, j \in DOMAIN todo' :
            todo'[i].cn = todo'[j].cn /\ todo'[i].cn \in due => i = j
      BY <1>1, <1>4, <1>5, <3>5
    <3> QED
      BY <3>4, <3>6
  <2> QED
    BY <1>1, <1>2, <1>3, <2>1, <2>2 DEF CountInv
<1> QED
  BY <1>3, <1>6, <1>7, <1>8, <1>9, <1>10

\* What is looked at is owed, if nobody interferes.  A preview goes past it.
LEMMA LookInv ==
  ASSUME ImportInv, Look
  PROVE  ImportInv'
<1> USE DEF ImportInv, IsClientCertificate
<1> DEFINE h == Head(todo).cn
<1>1. /\ tool = "look" /\ todo # <<>> /\ imported' = imported + 1
      /\ ~Known(h) /\ IsClientCertificate(h)
      /\ UNCHANGED <<caVars, row, api, dry, due, calm>>
  BY DEF Look
<1>2. UNCHANGED <<index, issued, encrypted>>
  BY <1>1 DEF caVars
<1>3. /\ CaTypeOK' /\ IndexInv'
      /\ row' \in [CN -> Row \union {NoRow}] /\ api' \in Busy \union {Free}
      /\ \A c : /\ Indexed(c)' <=> Indexed(c)
                /\ IssuedAgain(c)' <=> IssuedAgain(c)
                /\ Known(c)' <=> Known(c)
  BY <1>1, QuietParts
<1>4. /\ todo \in Seq(Entry)
      /\ Head(todo) = todo[1] /\ Head(todo) \in Entry /\ 1 \in DOMAIN todo
      /\ Len(todo) \in Nat \ {0} /\ DOMAIN todo = 1 .. Len(todo)
      /\ Tail(todo) \in Seq(Entry) /\ Len(Tail(todo)) = Len(todo) - 1
      /\ \A i \in DOMAIN Tail(todo) : /\ i + 1 \in DOMAIN todo
                                      /\ Tail(todo)[i] = todo[i + 1]
      /\ \A i \in DOMAIN todo : i # 1 => /\ i - 1 \in DOMAIN Tail(todo)
                                         /\ Tail(todo)[i - 1] = todo[i]
  BY <1>1, HeadAndTail DEF TypeOK
<1>5. h \in CN /\ Indexed(h)
  BY <1>4 DEF TodoInv, Entry
<1>6. ListedInv'
  BY <1>1, <1>2 DEF ListedInv, Indexed, Known
<1>7. imported \in Nat /\ imported + Len(todo) <= MaxIndex
  BY <1>1, <1>4, BoundAssumption DEF TodoInv, TypeOK
<1>8. CASE ~dry
  <2>1. tool' = "insert" /\ password' = encrypted[h] /\ todo' = todo
    BY <1>8 DEF Look
  <2>2. TypeOK'
    BY <1>1, <1>3, <1>4, <1>5, <1>7, <2>1, BoundAssumption DEF TypeOK, CaTypeOK
  <2>3. TodoInv'
    <3>1. ASSUME NEW i \in DOMAIN todo'
          PROVE  /\ Indexed(todo[i].cn)'
                 /\ todo'[i].revoked /\ todo'[i].cn \in due' => IssuedAgain(todo[i].cn)'
      BY <1>1, <1>2, <2>1 DEF TodoInv, Indexed, IssuedAgain
    <3>2. imported' + Len(todo') <= MaxIndex + 1
      BY <1>1, <1>4, <1>7, <2>1, BoundAssumption
    <3> QED
      BY <1>1, <1>8, <2>1, <3>1, <3>2 DEF TodoInv
  <2>4. DueInv'
    BY <1>1, <1>2, <1>3, <2>1 DEF DueInv, Owed
  <2>5. CountInv'
    <3> SUFFICES ASSUME calm'
                 PROVE  CountInv'
      BY DEF CountInv
    <3>1. /\ \A c \in CN : IsClientCertificate(c) /\ ~Known(c) => c \in due
          /\ imported = Cardinality(Listed) + 0
      BY <1>1, <1>8 DEF CountInv
    <3>2. Listed' = Listed
      BY <1>1, <1>3 DEF Listed
    <3>3. imported' = Cardinality(Listed') + 1
      BY <1>1, <1>7, <3>1, <3>2, FS_CardinalityType, FS_Subset DEF DueInv, Listed
    <3>4. ~Known(Head(todo).cn)' /\ Head(todo').cn \in due'
      BY <1>1, <1>5, <2>1, <3>1 DEF Known
    <3> QED
      BY <1>1, <1>2, <1>3, <1>8, <2>1, <3>1, <3>3, <3>4 DEF CountInv
  <2> QED
    BY <1>3, <1>6, <2>2, <2>3, <2>4, <2>5
<1>9. CASE dry
  <2>1. todo' = Tail(todo) /\ UNCHANGED <<tool, password>>
    BY <1>9 DEF Look
  <2>2. /\ \A i \in DOMAIN todo' : i + 1 \in DOMAIN todo /\ todo'[i] = todo[i + 1]
        /\ \A i \in DOMAIN todo : i # 1 => i - 1 \in DOMAIN todo' /\ todo'[i - 1] = todo[i]
    BY <1>4, <2>1
  <2>3. TypeOK'
    BY <1>1, <1>3, <1>4, <1>7, <2>1, BoundAssumption DEF TypeOK, CaTypeOK
  <2>4. TodoInv'
    <3>1. ASSUME NEW i \in DOMAIN todo'
          PROVE  /\ Indexed(todo[i].cn)'
                 /\ todo'[i].revoked /\ todo'[i].cn \in due' => IssuedAgain(todo[i].cn)'
      <4>1. PICK j \in DOMAIN todo : todo'[i] = todo[j]
        BY <2>2
      <4>2. /\ Indexed(todo[j].cn)
            /\ todo[j].revoked /\ todo[j].cn \in due => IssuedAgain(todo[j].cn)
        BY DEF TodoInv
      <4> QED
        BY <1>1, <1>2, <4>1, <4>2 DEF Indexed, IssuedAgain
    <3>2. imported' + Len(todo') <= MaxIndex
      BY <1>1, <1>4, <1>7, <2>1, BoundAssumption
    <3> QED
      BY <1>1, <2>1, <3>1, <3>2, BoundAssumption DEF TodoInv
  <2>5. DueInv'
    BY <1>1, <1>2, <1>3, <1>9, <2>1 DEF DueInv
  <2>6. CountInv'
    <3> SUFFICES ASSUME calm'
                 PROVE  CountInv'
      BY DEF CountInv
    <3>1. Listed' = Listed
      BY <1>1, <1>3 DEF Listed
    <3>2. \A c \in CN : IsClientCertificate(c) /\ ~Known(c) => c \in due
      BY <1>1 DEF CountInv
    <3>3. ASSUME \A c \in due : ~IssuedAgain(c)
          PROVE  /\ Listed' = {}
                 /\ imported' + Cardinality(Ahead') = Cardinality(due')
                 /\ \A i, j \in DOMAIN todo' :
                      todo'[i].cn = todo'[j].cn /\ todo'[i].cn \in due' => i = j
      <4>1. /\ Listed = {} /\ imported + Cardinality(Ahead) = Cardinality(due)
            /\ \A i, j \in DOMAIN todo :
                 todo[i].cn = todo[j].cn /\ todo[i].cn \in due => i = j
        BY <1>1, <1>9, <3>3 DEF CountInv
      <4>2. h \in due
        BY <1>1, <1>5, <3>2
      <4>3. \A c \in due : (\E i \in DOMAIN todo' : todo'[i].cn = c)
                             <=> c # h /\ (\E i \in DOMAIN todo : todo[i].cn = c)
        BY <1>4, <2>2, <4>1, <4>2
      <4>4. Ahead' = Ahead \ {h} /\ h \in Ahead /\ Ahead \subseteq due
        BY <1>1, <1>4, <4>2, <4>3 DEF Ahead
      <4>5. IsFiniteSet(due) /\ IsFiniteSet(Ahead)
        BY <4>4, FS_Subset DEF DueInv
      <4>6. /\ Cardinality(Ahead') = Cardinality(Ahead) - 1
            /\ Cardinality(Ahead) \in Nat /\ Cardinality(due) \in Nat
        BY <4>4, <4>5, FS_RemoveElement, FS_CardinalityType
      <4>7. imported' + Cardinality(Ahead') = Cardinality(due')
        BY <1>1, <1>7, <4>1, <4>6
      <4>8. \A i, j \in DOMAIN todo' :
              todo'[i].cn = todo'[j].cn /\ todo'[i].cn \in due' => i = j
        BY <1>1, <1>4, <2>1, <2>2, <4>1
      <4> QED
        BY <3>1, <4>1, <4>7, <4>8
    <3> QED
      BY <1>1, <1>2, <1>3, <1>9, <2>1, <3>2, <3>3 DEF CountInv
  <2> QED
    BY <1>3, <1>6, <2>3, <2>4, <2>5, <2>6
<1> QED
  BY <1>8, <1>9

\* The row is new: it takes the revocation of its line, and a client that is
\* owed was in it as revoked only with another line.
LEMMA InsertInv ==
  ASSUME ImportInv, Insert
  PROVE  ImportInv'
<1> USE DEF ImportInv, IsClientCertificate
<1> DEFINE h == Head(todo).cn
           r == ImportedRow
<1>1. /\ tool = "insert" /\ todo # <<>> /\ ~dry /\ Indexed(h)
      /\ UNCHANGED <<caVars, api, dry, password, imported, due, calm>>
  BY DEF Insert, TodoInv
<1>2. UNCHANGED <<index, issued, encrypted>>
  BY <1>1 DEF caVars
<1>3. /\ todo \in Seq(Entry)
      /\ Head(todo) = todo[1] /\ Head(todo) \in Entry /\ 1 \in DOMAIN todo
      /\ Len(todo) \in Nat \ {0} /\ DOMAIN todo = 1 .. Len(todo)
      /\ Tail(todo) \in Seq(Entry) /\ Len(Tail(todo)) = Len(todo) - 1
      /\ \A i \in DOMAIN Tail(todo) : /\ i + 1 \in DOMAIN todo
                                      /\ Tail(todo)[i] = todo[i + 1]
      /\ \A i \in DOMAIN todo : i # 1 => /\ i - 1 \in DOMAIN Tail(todo)
                                         /\ Tail(todo)[i - 1] = todo[i]
  BY <1>1, HeadAndTail DEF TypeOK
<1>4. h \in CN /\ Head(todo).revoked \in BOOLEAN /\ password \in BOOLEAN
  BY <1>3 DEF Entry, TypeOK
<1>5. r \in Row /\ r.revoked = Head(todo).revoked
  BY <1>4 DEF ImportedRow, Row
<1>6. r # NoRow
  BY <1>5, NoRowAssumption
<1>7. row \in [CN -> Row \union {NoRow}]
  BY DEF TypeOK
<1>8. CASE Known(h)
  <2>1. tool' = "idle" /\ todo' = <<>> /\ row' = row
    BY <1>8 DEF Insert
  <2>2. TypeOK' /\ IndexInv' /\ ListedInv'
    BY <1>1, <1>2, <2>1
    DEF TypeOK, IndexInv, ListedInv, Indexed, Known
  <2>3. TodoInv'
    BY <1>1, <1>2, <2>1 DEF TodoInv
  <2>4. DueInv'
    BY <1>1, <1>2, <2>1 DEF DueInv, Known, IssuedAgain
  <2>5. CountInv'
    BY <2>1 DEF CountInv
  <2> QED
    BY <2>2, <2>3, <2>4, <2>5
<1>9. CASE ~Known(h)
  <2>1. row' = [row EXCEPT ![h] = r] /\ tool' = "look" /\ todo' = Tail(todo)
    BY <1>9 DEF Insert
  <2> HIDE DEF r
  <2>2. /\ row' \in [CN -> Row \union {NoRow}] /\ row'[h] = r
        /\ \A c \in CN : c # h => row'[c] = row[c]
    BY <1>4, <1>5, <1>7, <2>1
  <2>3. \A c \in CN : Known(c)' <=> Known(c) \/ c = h
    BY <1>4, <1>6, <2>2 DEF Known
  <2>4. /\ \A i \in DOMAIN todo' : i + 1 \in DOMAIN todo /\ todo'[i] = todo[i + 1]
        /\ \A i \in DOMAIN todo : i # 1 => i - 1 \in DOMAIN todo' /\ todo'[i - 1] = todo[i]
    BY <1>3, <2>1
  <2>5. TypeOK' /\ IndexInv'
    BY <1>1, <1>2, <1>3, <2>1, <2>2 DEF TypeOK, IndexInv
  <2>6. ListedInv'
    <3>1. \A c \in CN : Known(c)' => Indexed(c)'
      BY <1>1, <1>2, <2>3 DEF ListedInv, Indexed
    <3>2. api # Free => Indexed(api.cn)'
      BY <1>1, <1>2 DEF ListedInv, Indexed
    <3>3. ASSUME api.op = "mark"
          PROVE  Known(api.cn)' /\ api.cn \notin due'
      <4>1. Known(api.cn) /\ api.cn \notin due
        BY <3>3 DEF ListedInv
      <4>2. api.cn # h /\ api.cn \in CN
        BY <1>9, <3>3, <4>1 DEF TypeOK, Busy, Free
      <4>3. row'[api.cn] = row[api.cn] /\ api' = api /\ due' = due
        BY <1>1, <2>2, <4>2
      <4> QED
        BY <4>1, <4>3 DEF Known
    <3> QED
      BY <1>1, <3>1, <3>2, <3>3 DEF ListedInv
  <2>7. TodoInv'
    <3>1. ASSUME NEW i \in DOMAIN todo'
          PROVE  /\ Indexed(todo[i].cn)'
                 /\ todo'[i].revoked /\ todo'[i].cn \in due' => IssuedAgain(todo[i].cn)'
      <4>1. PICK j \in DOMAIN todo : todo'[i] = todo[j]
        BY <2>4
      <4>2. /\ Indexed(todo[j].cn)
            /\ todo[j].revoked /\ todo[j].cn \in due => IssuedAgain(todo[j].cn)
        BY DEF TodoInv
      <4> QED
        BY <1>1, <1>2, <4>1, <4>2 DEF Indexed, IssuedAgain
    <3>2. imported' + Len(todo') <= MaxIndex
      BY <1>1, <1>3, <2>1, BoundAssumption DEF TodoInv, TypeOK
    <3> QED
      BY <1>1, <2>1, <3>1, <3>2, BoundAssumption DEF TodoInv
  <2>8. DueInv'
    <3>1. \A c : IssuedAgain(c)' <=> IssuedAgain(c)
      BY <1>2 DEF IssuedAgain
    <3>2. ASSUME NEW c \in due
          PROVE  Known(c)' /\ row'[c].revoked => IssuedAgain(c)
      <4>1. CASE c = h
        BY <1>3, <1>5, <2>2, <4>1 DEF TodoInv
      <4>2. CASE c # h
        BY <2>2, <2>3, <4>2 DEF DueInv, TypeOK
      <4> QED
        BY <4>1, <4>2
    <3>3. ASSUME NEW c \in due, ~Known(c)'
          PROVE  Owed(c)'
      <4>1. c # h /\ ~Known(c)
        BY <1>4, <2>3, <3>3 DEF TypeOK
      <4>2. PICK i \in DOMAIN todo : todo[i].cn = c /\ ~todo[i].revoked
        BY <1>1, <4>1 DEF DueInv, Owed
      <4>3. i # 1
        BY <1>3, <4>1, <4>2
      <4> QED
        BY <2>4, <4>2, <4>3 DEF Owed
    <3> QED
      BY <1>1, <1>2, <3>1, <3>2, <3>3 DEF DueInv
  <2>9. CountInv'
    <3> SUFFICES ASSUME calm'
                 PROVE  CountInv'
      BY DEF CountInv
    <3>1. /\ h \in due /\ imported = Cardinality(Listed) + 1
          /\ \A c \in CN : IsClientCertificate(c) /\ ~Known(c) => c \in due
      BY <1>1 DEF CountInv
    <3>2. Listed' = Listed \union {h} /\ h \notin Listed /\ Listed \subseteq due
      BY <1>1, <1>9, <2>3, <3>1 DEF Listed, TypeOK
    <3>3. IsFiniteSet(Listed)
      BY <3>2, FS_Subset DEF DueInv
    <3>4. Cardinality(Listed') = Cardinality(Listed) + 1 /\ Cardinality(Listed) \in Nat
      BY <3>2, <3>3, FS_AddElement, FS_CardinalityType
    <3> QED
      BY <1>1, <1>2, <2>1, <2>3, <3>1, <3>4 DEF CountInv
  <2> QED
    BY <2>5, <2>6, <2>7, <2>8, <2>9
<1> QED
  BY <1>8, <1>9

LEMMA FinishInv ==
  ASSUME ImportInv, Finish
  PROVE  ImportInv'
<1> USE DEF ImportInv, IsClientCertificate
<1>1. /\ tool' = "idle"
      /\ UNCHANGED <<index, issued, encrypted, row, api, dry, todo, password,
                     imported, due, calm>>
  BY DEF Finish, caVars
<1>2. TypeOK' /\ IndexInv' /\ ListedInv'
  BY <1>1 DEF TypeOK, IndexInv, ListedInv, Indexed, Known
<1>3. TodoInv' /\ DueInv' /\ CountInv'
  BY <1>1 DEF TodoInv, DueInv, CountInv, Known, Indexed, IssuedAgain
<1> QED
  BY <1>2, <1>3

LEMMA ImportStutter ==
  ASSUME ImportInv, UNCHANGED vars
  PROVE  ImportInv'
<1> USE DEF ImportInv, IsClientCertificate
<1>1. UNCHANGED <<index, issued, encrypted, row, api, tool, dry, todo, password,
                  imported, due, calm>>
  BY DEF vars, caVars, toolVars
<1>2. TypeOK' /\ IndexInv' /\ ListedInv'
  BY <1>1 DEF TypeOK, IndexInv, ListedInv, Indexed, Known
<1>3. TodoInv' /\ DueInv'
  BY <1>1 DEF TodoInv, DueInv, Owed, Known, Indexed, IssuedAgain
<1>4. CountInv'
  BY <1>1 DEF CountInv, Listed, Ahead, Known, IssuedAgain
<1> QED
  BY <1>2, <1>3, <1>4

LEMMA ImportNext ==
  ASSUME ImportInv, Next
  PROVE  ImportInv'
  BY CaIssueInv, CaRevokeInv, ApiIssueInv, ApiEncryptInv, ApiInsertInv,
     ApiRevokeInv, ApiMarkInv, ReadIndexInv, SkipInv, LookInv, InsertInv,
     FinishInv DEF Next, Import

LEMMA ImportInit ==
  ASSUME Init
  PROVE  ImportInv
<1>1. TypeOK
  <2>1. /\ index \in Seq(Entry) /\ Len(index) = 0
        /\ todo \in Seq(Entry)
    BY EmptySeq DEF Init
  <2>2. Len(index) <= MaxIndex /\ imported \in 0 .. MaxIndex
    BY <2>1, BoundAssumption DEF Init
  <2>3. /\ issued \in [CN -> Kind \union {"none"}]
        /\ encrypted \in [CN -> BOOLEAN]
        /\ row \in [CN -> Row \union {NoRow}]
        /\ api \in Busy \union {Free} /\ due \subseteq CN
    BY DEF Init
  <2>4. tool = "idle" /\ dry = FALSE /\ password = FALSE /\ calm = TRUE
    BY DEF Init
  <2> QED
    BY <2>1, <2>2, <2>3, <2>4 DEF TypeOK
<1>2. IndexInv /\ ListedInv
  BY DEF Init, IndexInv, ListedInv, Known, Free
<1>3. DueInv /\ CountInv
  BY FS_EmptySet DEF Init, DueInv, CountInv
<1>4. TodoInv
  BY DEF Init, TodoInv
<1> QED
  BY <1>1, <1>2, <1>3, <1>4 DEF ImportInv

(***************************************************************************)
(* The prompts for a password.                                             *)
(***************************************************************************)
Key == Char \union Special

\* A line is a sequence of at most MaxKeys keys, and never stands for none.
LEMMA LineType ==
  /\ \A l : l \in Prompt!Line <=> l \in Seq(Key) /\ Len(l) <= MaxKeys
  /\ Prompt!Nothing \notin Prompt!Line
<1>1. MaxKeys \in Nat
  BY LengthAssumption
<1>2. ASSUME NEW l \in Prompt!Line
      PROVE  l \in Seq(Key) /\ Len(l) <= MaxKeys
  <2>1. PICK m \in 0 .. MaxKeys : l \in [1 .. m -> Key]
    BY DEF Prompt!Line, Prompt!SeqOf, Key
  <2> QED
    BY <1>1, <2>1
<1>3. ASSUME NEW l \in Seq(Key), Len(l) <= MaxKeys
      PROVE  l \in Prompt!Line
  <2>1. Len(l) \in 0 .. MaxKeys /\ l \in [1 .. Len(l) -> Key]
    BY <1>1, <1>3, LenProperties
  <2> QED
    BY <2>1 DEF Prompt!Line, Prompt!SeqOf, Key
<1>4. Prompt!Nothing \notin Prompt!Line
  <2>1. "nothing" \notin Key
    BY KeyAssumption DEF Key
  <2>2. ASSUME Prompt!Nothing \in Seq(Key)
        PROVE  FALSE
    <3>1. Prompt!Nothing[1] = "nothing" /\ Len(Prompt!Nothing) = 1
      BY DEF Prompt!Nothing
    <3>2. Prompt!Nothing[1] \in Key
      BY <2>2, <3>1, ElementOfSeq
    <3> QED
      BY <2>1, <3>1, <3>2
  <2> QED
    BY <1>2, <2>2
<1> QED
  BY <1>2, <1>3, <1>4

LEMMA EmptyLine == <<>> \in Prompt!Line
<1>1. <<>> \in Seq(Key) /\ Len(<<>>) = 0
  BY EmptySeq
<1>2. 0 <= MaxKeys
  BY LengthAssumption
<1> QED
  BY <1>1, <1>2, LineType

LEMMA PromptParts ==
  Prompt!PromptInv <=>
    /\ Prompt!TypeOK /\ Prompt!PipeInv /\ Prompt!TtyInv
    /\ Prompt!FirstInv /\ Prompt!PasswordIsTyped
  BY DEF Prompt!PromptInv

LEMMA PromptInit ==
  ASSUME Prompt!Init
  PROVE  Prompt!PromptInv
<1>1. Prompt!TypeOK
  <2>1. typed = <<>> /\ lineQueue = <<>> /\ value = <<>>
    BY DEF Prompt!Init
  <2>2. typed \in Seq(Prompt!Line) /\ Len(typed) = 0 /\ lineQueue \in Seq(Prompt!Line)
    BY <2>1, EmptySeq
  <2>3. Len(typed) <= Prompt!MaxLines
    BY <2>2 DEF Prompt!MaxLines
  <2>4. value \in Prompt!Line
    BY <2>1, EmptyLine
  <2> QED
    BY <2>2, <2>3, <2>4 DEF Prompt!Init, Prompt!TypeOK
<1>2. Prompt!PipeInv /\ Prompt!TtyInv
  BY DEF Prompt!Init, Prompt!PipeInv, Prompt!TtyInv, Prompt!Given, Prompt!Answered
<1>3. Prompt!FirstInv /\ Prompt!PasswordIsTyped
  BY DEF Prompt!Init, Prompt!FirstInv, Prompt!PasswordIsTyped
<1> QED
  BY <1>1, <1>2, <1>3, PromptParts

\* The number of answers, and the types of what they are compared with.
LEMMA PromptTypes ==
  ASSUME Prompt!PromptInv
  PROVE  /\ typed \in Seq(Prompt!Line) /\ Len(typed) \in Nat
         /\ DOMAIN typed = 1 .. Len(typed)
         /\ lineQueue \in Seq(Prompt!Line) /\ Len(lineQueue) \in Nat
         /\ DOMAIN lineQueue = 1 .. Len(lineQueue)
         /\ Prompt!Answered \in 0 .. 1 /\ Prompt!Given \in 0 .. 2
         /\ got # Prompt!Nothing => Prompt!Given \in 1 .. 2 /\ got \in Prompt!Line
<1>1. typed \in Seq(Prompt!Line) /\ lineQueue \in Seq(Prompt!Line)
      /\ (got # Prompt!Nothing => got \in Prompt!Line)
  BY DEF Prompt!PromptInv, Prompt!TypeOK
<1>2. Prompt!Answered \in 0 .. 1
  BY DEF Prompt!Answered
<1>3. /\ Prompt!Given \in 0 .. 2
      /\ got # Prompt!Nothing => Prompt!Given \in 1 .. 2
  BY <1>2 DEF Prompt!Given
<1> QED
  BY <1>1, <1>2, <1>3, LenProperties

\* A question is asked: a line of the queue answers it at once.
LEMMA PromptHiddenInv ==
  ASSUME Prompt!PromptInv, Prompt!PromptHidden
  PROVE  Prompt!PromptInv'
<1>1. /\ Prompt!TypeOK /\ Prompt!PipeInv /\ Prompt!TtyInv
      /\ Prompt!FirstInv /\ Prompt!PasswordIsTyped
  BY PromptParts
<1>2. /\ at \in {"new", "confirm"} /\ got = Prompt!Nothing
      /\ UNCHANGED <<tty, at, value, first>>
  BY DEF Prompt!PromptHidden
<1>3. /\ typed \in Seq(Prompt!Line) /\ Len(typed) \in Nat
      /\ DOMAIN typed = 1 .. Len(typed)
      /\ lineQueue \in Seq(Prompt!Line) /\ Len(lineQueue) \in Nat
      /\ DOMAIN lineQueue = 1 .. Len(lineQueue)
      /\ Prompt!Answered \in 0 .. 1
  BY PromptTypes
<1>4. Prompt!Given = Prompt!Answered /\ Prompt!Answered' = Prompt!Answered
  BY <1>2 DEF Prompt!Given, Prompt!Answered
<1>5. CASE tty
  <2>1. /\ ~listening /\ listening' = TRUE /\ typed' = Append(typed, <<>>)
        /\ UNCHANGED <<lineQueue, lineWaiter, got>>
    BY <1>5 DEF Prompt!PromptHidden, Prompt!Asked
  <2>2. /\ typed' \in Seq(Prompt!Line) /\ Len(typed') = Len(typed) + 1
        /\ \A i \in 1 .. Len(typed) : typed'[i] = typed[i]
        /\ typed'[Len(typed) + 1] = <<>>
    BY <1>3, <2>1, EmptyLine, AppendProperties
  <2>3. Len(typed) = Prompt!Answered /\ value = <<>>
    BY <1>1, <1>2, <1>4, <1>5, <2>1 DEF Prompt!TtyInv, Prompt!Asking
  <2>4. Prompt!TypeOK'
    BY <1>1, <1>2, <1>3, <2>1, <2>2, <2>3 DEF Prompt!TypeOK, Prompt!MaxLines
  <2>5. Prompt!TtyInv'
    BY <1>2, <1>4, <2>1, <2>2, <2>3
    DEF Prompt!TtyInv, Prompt!Given, Prompt!LastTyped
  <2>6. Prompt!PipeInv'
    BY <1>2, <1>5 DEF Prompt!PipeInv
  <2>7. Prompt!FirstInv'
    BY <1>1, <1>2, <2>2, <2>3 DEF Prompt!FirstInv, Prompt!Answered
  <2>8. Prompt!PasswordIsTyped'
    BY <1>2 DEF Prompt!PasswordIsTyped
  <2> QED
    BY <2>4, <2>5, <2>6, <2>7, <2>8 DEF Prompt!PromptInv
<1>6. CASE ~tty
  <2>1. UNCHANGED typed /\ listening' = TRUE /\ Prompt!ReadLine /\ ~lineWaiter
    BY <1>6 DEF Prompt!PromptHidden, Prompt!ReadLine, Prompt!Asked
  <2>2. /\ Len(typed) = Prompt!Answered + Len(lineQueue)
        /\ \A i \in DOMAIN lineQueue : typed[Prompt!Answered + i] = lineQueue[i]
    BY <1>1, <1>2, <1>4, <1>6 DEF Prompt!PipeInv, Prompt!Asking
  <2>3. Prompt!TtyInv' /\ Prompt!FirstInv' /\ Prompt!PasswordIsTyped'
    BY <1>1, <1>2, <1>6, <2>1
    DEF Prompt!TtyInv, Prompt!FirstInv, Prompt!PasswordIsTyped
  <2>4. CASE lineQueue = <<>>
    <3>1. lineWaiter' = TRUE /\ UNCHANGED <<got, lineQueue>>
      BY <2>1, <2>4 DEF Prompt!ReadLine
    <3>2. Prompt!TypeOK'
      BY <1>1, <1>2, <2>1, <3>1 DEF Prompt!TypeOK
    <3>3. Prompt!PipeInv'
      BY <1>1, <1>2, <1>4, <2>1, <2>2, <2>4, <3>1 DEF Prompt!PipeInv, Prompt!Given
    <3> QED
      BY <2>3, <3>2, <3>3 DEF Prompt!PromptInv
  <2>5. CASE lineQueue # <<>>
    <3>1. /\ got' = Head(lineQueue) /\ lineQueue' = Tail(lineQueue)
          /\ UNCHANGED lineWaiter
      BY <2>1, <2>5 DEF Prompt!ReadLine
    <3>2. /\ Head(lineQueue) \in Prompt!Line /\ lineQueue' \in Seq(Prompt!Line)
          /\ Len(lineQueue') = Len(lineQueue) - 1
          /\ \A i \in 1 .. Len(lineQueue') : lineQueue'[i] = lineQueue[i + 1]
          /\ Head(lineQueue) = lineQueue[1] /\ Len(lineQueue) # 0
      BY <1>3, <2>5, <3>1, HeadTailProperties, EmptySeq
    <3>3. got' # Prompt!Nothing
      BY <3>1, <3>2, LineType
    <3>4. Prompt!Given' = Prompt!Answered + 1
      BY <1>4, <3>3 DEF Prompt!Given
    <3>5. Prompt!TypeOK'
      BY <1>1, <1>2, <2>1, <3>1, <3>2 DEF Prompt!TypeOK
    <3>6. DOMAIN lineQueue' = 1 .. Len(lineQueue')
      BY <3>2, LenProperties
    <3>7. /\ Len(typed') = Prompt!Given' + Len(lineQueue')
          /\ typed'[Prompt!Given'] = got'
      BY <1>3, <2>1, <2>2, <3>1, <3>2, <3>4
    <3>8. ASSUME NEW i \in DOMAIN lineQueue'
          PROVE  typed'[Prompt!Given' + i] = lineQueue'[i]
      <4>1. i + 1 \in DOMAIN lineQueue /\ lineQueue'[i] = lineQueue[i + 1]
        BY <1>3, <3>2, <3>6
      <4>2. typed[Prompt!Answered + (i + 1)] = lineQueue[i + 1]
        BY <2>2, <4>1
      <4>3. Prompt!Given' + i = Prompt!Answered + (i + 1)
        BY <1>3, <3>2, <3>4, <3>6
      <4> QED
        BY <2>1, <4>1, <4>2, <4>3
    <3>9. Prompt!PipeInv'
      BY <2>1, <3>1, <3>7, <3>8 DEF Prompt!PipeInv
    <3> QED
      BY <2>3, <3>5, <3>9 DEF Prompt!PromptInv
  <2> QED
    BY <2>4, <2>5
<1> QED
  BY <1>5, <1>6

\* The answer is taken: of the first the command keeps a copy, of the second
\* it asks that it be the same.
LEMMA ResumeInv ==
  ASSUME Prompt!PromptInv, Prompt!Resume
  PROVE  Prompt!PromptInv'
<1>1. /\ Prompt!TypeOK /\ Prompt!PipeInv /\ Prompt!TtyInv
      /\ Prompt!FirstInv /\ Prompt!PasswordIsTyped
  BY PromptParts
<1>2. /\ at \in {"new", "confirm"} /\ got # Prompt!Nothing /\ got' = Prompt!Nothing
      /\ UNCHANGED <<tty, listening, lineQueue, lineWaiter, value, typed>>
  BY DEF Prompt!Resume
<1>3. /\ Len(typed) \in Nat /\ Len(lineQueue) \in Nat
      /\ got \in Prompt!Line
  BY <1>2, PromptTypes
<1>4. Prompt!Given = Prompt!Answered + 1
  BY <1>2 DEF Prompt!Given
\* Whether it came through the pipe or the terminal, it is the next line.
<1>5. typed[Prompt!Answered + 1] = got
  <2>1. CASE tty
    <3>1. ~listening
      BY <1>1, <1>2, <2>1 DEF Prompt!TtyInv, Prompt!Asking
    <3>2. Len(typed) = Prompt!Answered + 1 /\ got = typed[Len(typed)]
      BY <1>1, <1>2, <1>4, <2>1, <3>1
      DEF Prompt!TtyInv, Prompt!Asking, Prompt!LastTyped
    <3> QED
      BY <3>2
  <2>2. CASE ~tty
    BY <1>1, <1>2, <1>4, <2>2 DEF Prompt!PipeInv, Prompt!Asking
  <2> QED
    BY <2>1, <2>2
<1>6. CASE at = "new"
  <2>1. /\ at' = (IF Len(got) < MinLength THEN "failed" ELSE "confirm")
        /\ first' = got
    BY <1>6 DEF Prompt!Resume
  <2>2. Prompt!TypeOK'
    BY <1>1, <1>2, <1>3, <2>1 DEF Prompt!TypeOK, Prompt!Ended
  <2>3. Prompt!Answered = 0 /\ (at' = "confirm" => Prompt!Given' = Prompt!Given)
    BY <1>2, <1>4, <1>6 DEF Prompt!Given, Prompt!Answered
  <2>4. Prompt!PipeInv'
    <3>1. Prompt!Asking' => at' = "confirm"
      BY <2>1 DEF Prompt!Asking
    <3> QED
      BY <1>1, <1>2, <2>3, <3>1 DEF Prompt!PipeInv, Prompt!Asking
  <2>5. Prompt!TtyInv'
    <3>1. Prompt!Asking' => at' = "confirm"
      BY <2>1 DEF Prompt!Asking
    <3> QED
      BY <1>1, <1>2, <2>3, <3>1 DEF Prompt!TtyInv, Prompt!Asking
  <2>6. Prompt!FirstInv'
    <3>1. typed[1] = got
      BY <1>5, <2>3
    <3>2. Len(got) \in Nat /\ MinLength \in Nat
      BY <1>3, LineType, LenProperties, LengthAssumption
    <3> QED
      BY <1>2, <2>1, <3>1, <3>2 DEF Prompt!FirstInv
  <2>7. Prompt!PasswordIsTyped'
    BY <2>1 DEF Prompt!PasswordIsTyped
  <2> QED
    BY <2>2, <2>4, <2>5, <2>6, <2>7 DEF Prompt!PromptInv
<1>7. CASE at = "confirm"
  <2>1. at' = (IF got # first THEN "failed" ELSE "hash") /\ first' = first
    BY <1>7 DEF Prompt!Resume
  <2>2. Prompt!TypeOK'
    BY <1>1, <1>2, <2>1 DEF Prompt!TypeOK, Prompt!Ended
  <2>3. Prompt!PipeInv' /\ Prompt!TtyInv' /\ Prompt!FirstInv'
    BY <2>1 DEF Prompt!PipeInv, Prompt!TtyInv, Prompt!FirstInv, Prompt!Asking
  <2>4. Prompt!PasswordIsTyped'
    <3>1. typed[2] = got
      BY <1>5, <1>7 DEF Prompt!Answered
    <3> QED
      BY <1>1, <1>2, <1>7, <2>1, <3>1 DEF Prompt!PasswordIsTyped, Prompt!FirstInv
  <2> QED
    BY <2>2, <2>3, <2>4 DEF Prompt!PromptInv
<1> QED
  BY <1>2, <1>6, <1>7

\* A line comes in: it answers a question that waits, or goes to the queue.
LEMMA PipeLineInv ==
  ASSUME Prompt!PromptInv, NEW l \in Prompt!Line, Prompt!PipeLine(l)
  PROVE  Prompt!PromptInv'
<1>1. /\ Prompt!TypeOK /\ Prompt!PipeInv /\ Prompt!TtyInv
      /\ Prompt!FirstInv /\ Prompt!PasswordIsTyped
  BY PromptParts
<1>2. /\ ~tty /\ at \notin Prompt!Ended /\ Len(typed) < Prompt!MaxLines
      /\ typed' = Append(typed, l) /\ Prompt!OnLine(l)
      /\ UNCHANGED <<tty, at, listening, value, first>>
  BY DEF Prompt!PipeLine
<1>3. at \in {"new", "confirm"} /\ Prompt!Asking
  BY <1>1, <1>2 DEF Prompt!TypeOK, Prompt!Asking
<1>4. /\ typed \in Seq(Prompt!Line) /\ Len(typed) \in Nat
      /\ lineQueue \in Seq(Prompt!Line) /\ Len(lineQueue) \in Nat
      /\ DOMAIN lineQueue = 1 .. Len(lineQueue)
      /\ Prompt!Answered \in 0 .. 1 /\ Prompt!Given \in 0 .. 2
      /\ got # Prompt!Nothing => Prompt!Given \in 1 .. 2
  BY PromptTypes
<1>5. /\ typed' \in Seq(Prompt!Line) /\ Len(typed') = Len(typed) + 1
      /\ \A i \in 1 .. Len(typed) : typed'[i] = typed[i]
      /\ typed'[Len(typed) + 1] = l
  BY <1>2, <1>4, AppendProperties
<1>6. /\ Len(typed) = Prompt!Given + Len(lineQueue)
      /\ \A i \in DOMAIN lineQueue : typed[Prompt!Given + i] = lineQueue[i]
      /\ got # Prompt!Nothing => typed[Prompt!Given] = got
      /\ lineWaiter => lineQueue = <<>> /\ got = Prompt!Nothing
  BY <1>1, <1>2, <1>3 DEF Prompt!PipeInv
<1>7. Len(typed') <= Prompt!MaxLines
  BY <1>2, <1>4, <1>5 DEF Prompt!MaxLines
<1>8. Prompt!TtyInv' /\ Prompt!PasswordIsTyped'
  BY <1>2, <1>3 DEF Prompt!TtyInv, Prompt!PasswordIsTyped
<1>9. Prompt!FirstInv'
  <2>1. at = "confirm" => Prompt!Given >= 1
    BY <1>4 DEF Prompt!Given, Prompt!Answered
  <2>2. at = "confirm" => 1 \in 1 .. Len(typed)
    BY <1>4, <1>6, <2>1
  <2> QED
    BY <1>1, <1>2, <1>5, <2>2 DEF Prompt!FirstInv
<1>10. CASE lineWaiter
  <2>1. lineWaiter' = FALSE /\ got' = l /\ UNCHANGED lineQueue
    BY <1>2, <1>10 DEF Prompt!OnLine
  <2>2. got' # Prompt!Nothing
    BY <2>1, LineType
  <2>3. Prompt!Given' = Prompt!Given + 1
    BY <1>2, <1>6, <1>10, <2>2 DEF Prompt!Given, Prompt!Answered
  <2>4. Prompt!TypeOK'
    BY <1>1, <1>2, <1>5, <1>7, <2>1 DEF Prompt!TypeOK
  <2>5. lineQueue = <<>> /\ Len(lineQueue) = 0
    BY <1>6, <1>10
  <2>6. Prompt!PipeInv'
    BY <1>4, <1>5, <1>6, <2>1, <2>3, <2>5 DEF Prompt!PipeInv
  <2> QED
    BY <1>8, <1>9, <2>4, <2>6 DEF Prompt!PromptInv
<1>11. CASE ~lineWaiter
  <2>1. lineQueue' = Append(lineQueue, l) /\ UNCHANGED <<lineWaiter, got>>
    BY <1>2, <1>11 DEF Prompt!OnLine
  <2>2. /\ lineQueue' \in Seq(Prompt!Line) /\ Len(lineQueue') = Len(lineQueue) + 1
        /\ \A i \in 1 .. Len(lineQueue) : lineQueue'[i] = lineQueue[i]
        /\ lineQueue'[Len(lineQueue) + 1] = l
    BY <1>4, <2>1, AppendProperties
  <2>3. DOMAIN lineQueue' = 1 .. Len(lineQueue) + 1
    BY <2>2, LenProperties
  <2>4. Prompt!Given' = Prompt!Given
    BY <1>2, <2>1 DEF Prompt!Given, Prompt!Answered
  <2>5. Prompt!TypeOK'
    BY <1>1, <1>2, <1>5, <1>7, <2>1, <2>2 DEF Prompt!TypeOK
  <2>6. ASSUME NEW i \in DOMAIN lineQueue'
        PROVE  typed'[Prompt!Given' + i] = lineQueue'[i]
    <3>1. CASE i = Len(lineQueue) + 1
      BY <1>4, <1>5, <1>6, <2>2, <2>4, <3>1
    <3>2. CASE i # Len(lineQueue) + 1
      <4>1. i \in DOMAIN lineQueue /\ Prompt!Given + i \in 1 .. Len(typed)
        BY <1>4, <1>6, <2>3, <3>2
      <4> QED
        BY <1>4, <1>5, <1>6, <2>2, <2>4, <4>1
    <3> QED
      BY <3>1, <3>2
  <2>7. Len(typed') = Prompt!Given' + Len(lineQueue')
    BY <1>4, <1>5, <1>6, <2>2, <2>4
  <2>8. got' # Prompt!Nothing => typed'[Prompt!Given'] = got'
    BY <1>4, <1>5, <1>6, <2>1, <2>4
  <2>9. Prompt!PipeInv'
    BY <1>11, <2>1, <2>6, <2>7, <2>8 DEF Prompt!PipeInv
  <2> QED
    BY <1>8, <1>9, <2>5, <2>9 DEF Prompt!PromptInv
<1> QED
  BY <1>10, <1>11

\* Keys are typed: they go to the line that is being typed, which is read when
\* it ends.
LEMMA KeysInv ==
  ASSUME Prompt!PromptInv, NEW chunk \in Prompt!Line, NEW enter \in BOOLEAN,
         Prompt!Keys(chunk, enter)
  PROVE  Prompt!PromptInv'
<1>1. /\ Prompt!TypeOK /\ Prompt!PipeInv /\ Prompt!TtyInv
      /\ Prompt!FirstInv /\ Prompt!PasswordIsTyped
  BY PromptParts
<1>2. /\ tty /\ listening /\ at \notin Prompt!Ended
      /\ Len(Prompt!LastTyped) + Len(chunk) <= MaxKeys
      /\ typed' = [typed EXCEPT ![Len(typed)] = typed[Len(typed)] \o chunk]
      /\ Prompt!OnData(chunk, enter)
      /\ UNCHANGED <<tty, lineQueue, lineWaiter, first>>
  BY DEF Prompt!Keys
<1>3. at \in {"new", "confirm"} /\ Prompt!Asking
  BY <1>1, <1>2 DEF Prompt!TypeOK, Prompt!Asking
<1>4. /\ typed \in Seq(Prompt!Line) /\ Len(typed) \in Nat
      /\ Prompt!Answered \in 0 .. 1
  BY PromptTypes
<1>5. /\ got = Prompt!Nothing /\ value = Prompt!LastTyped
      /\ Len(typed) = Prompt!Given + 1
  BY <1>1, <1>2, <1>3 DEF Prompt!TtyInv
<1>6. Prompt!Given = Prompt!Answered
  BY <1>5 DEF Prompt!Given
<1>7. value \in Seq(Key) /\ chunk \in Seq(Key)
  BY <1>1, LineType DEF Prompt!TypeOK
<1>8. value \o chunk \in Prompt!Line
  <2>1. value \o chunk \in Seq(Key) /\ Len(value \o chunk) = Len(value) + Len(chunk)
    BY <1>7, ConcatProperties
  <2> QED
    BY <1>2, <1>5, <2>1, LineType
<1>9. /\ typed' \in Seq(Prompt!Line) /\ Len(typed') = Len(typed)
      /\ \A j \in 1 .. Len(typed) :
           typed'[j] = IF j = Len(typed) THEN value \o chunk ELSE typed[j]
  <2>1. Len(typed) \in 1 .. Len(typed)
    BY <1>4, <1>5, <1>6
  <2>2. typed' = [typed EXCEPT ![Len(typed)] = value \o chunk]
    BY <1>2, <1>5 DEF Prompt!LastTyped
  <2> QED
    BY <1>4, <1>8, <2>1, <2>2, ExceptSeq
<1>10. Prompt!PipeInv' /\ Prompt!PasswordIsTyped'
  BY <1>2, <1>3 DEF Prompt!PipeInv, Prompt!PasswordIsTyped, Prompt!OnData
<1>11. Prompt!FirstInv'
  <2>1. at' = "confirm" => at = "confirm"
    BY <1>2 DEF Prompt!OnData
  <2>2. at = "confirm" => 1 \in 1 .. Len(typed) /\ 1 # Len(typed)
    BY <1>4, <1>5, <1>6 DEF Prompt!Answered
  <2> QED
    BY <1>1, <1>2, <1>9, <2>1, <2>2 DEF Prompt!FirstInv
<1>12. CASE Prompt!Contains(chunk, "3")
  <2>1. at' = "interrupted" /\ UNCHANGED <<value, got, listening>>
    BY <1>2, <1>12 DEF Prompt!OnData
  <2>2. Prompt!TypeOK' /\ Prompt!TtyInv'
    BY <1>1, <1>2, <1>9, <2>1
    DEF Prompt!TypeOK, Prompt!Ended, Prompt!TtyInv, Prompt!Asking
  <2> QED
    BY <1>10, <1>11, <2>2 DEF Prompt!PromptInv
<1>13. CASE ~Prompt!Contains(chunk, "3")
  <2>1. /\ value' = (IF enter THEN <<>> ELSE value \o chunk)
        /\ got' = (IF enter THEN value \o chunk ELSE got)
        /\ listening' = ~enter /\ at' = at
    BY <1>2, <1>13 DEF Prompt!OnData
  <2>2. Prompt!TypeOK'
    BY <1>1, <1>2, <1>8, <1>9, <2>1, EmptyLine DEF Prompt!TypeOK
  <2>3. Prompt!Given' = (IF enter THEN Prompt!Given + 1 ELSE Prompt!Given)
    BY <1>5, <1>6, <1>8, <2>1, LineType DEF Prompt!Given, Prompt!Answered
  <2>4. Prompt!LastTyped' = value \o chunk
    BY <1>4, <1>5, <1>6, <1>9 DEF Prompt!LastTyped
  <2>5. Prompt!TtyInv'
    BY <1>2, <1>4, <1>5, <1>6, <1>8, <1>9, <2>1, <2>3, <2>4, LineType
    DEF Prompt!TtyInv
  <2> QED
    BY <1>10, <1>11, <2>2, <2>5 DEF Prompt!PromptInv
<1> QED
  BY <1>12, <1>13

LEMMA PipeEndsInv ==
  ASSUME Prompt!PromptInv, Prompt!PipeEnds
  PROVE  Prompt!PromptInv'
<1>1. /\ at' = "over"
      /\ UNCHANGED <<tty, listening, lineQueue, lineWaiter, value, got, first, typed>>
  BY DEF Prompt!PipeEnds
<1>2. Prompt!TypeOK'
  BY <1>1 DEF Prompt!PromptInv, Prompt!TypeOK, Prompt!Ended
<1>3. Prompt!PipeInv' /\ Prompt!TtyInv' /\ Prompt!FirstInv' /\ Prompt!PasswordIsTyped'
  BY <1>1 DEF Prompt!PipeInv, Prompt!TtyInv, Prompt!FirstInv,
              Prompt!PasswordIsTyped, Prompt!Asking
<1> QED
  BY <1>2, <1>3 DEF Prompt!PromptInv

LEMMA PromptStutter ==
  ASSUME Prompt!PromptInv, UNCHANGED promptVars
  PROVE  Prompt!PromptInv'
  BY DEF promptVars, Prompt!PromptInv, Prompt!TypeOK, Prompt!PipeInv, Prompt!TtyInv,
         Prompt!FirstInv, Prompt!PasswordIsTyped, Prompt!Asking, Prompt!Given,
         Prompt!Answered, Prompt!LastTyped

LEMMA PromptNext ==
  ASSUME Prompt!PromptInv, Prompt!Next
  PROVE  Prompt!PromptInv'
  BY PromptHiddenInv, ResumeInv, PipeEndsInv, PipeLineInv, KeysInv DEF Prompt!Next

(***************************************************************************)
(* The theorems.                                                           *)
(***************************************************************************)
\* The index, the table, the API and the import agree, and so do the lines
\* and the prompts, in every reachable state of either command.
THEOREM OcmAdminInvariant == AdminSpec => []AdminInv
<1>1. AdminInit => AdminInv
  BY ImportInit, PromptInit DEF AdminInit, AdminInv
<1>2. AdminInv /\ [AdminNext]_adminVars => AdminInv'
  <2> SUFFICES ASSUME AdminInv, [AdminNext]_adminVars
               PROVE  AdminInv'
    OBVIOUS
  <2>1. CASE Next /\ UNCHANGED promptVars
    BY <2>1, ImportNext, PromptStutter DEF AdminInv
  <2>2. CASE Prompt!Next /\ UNCHANGED vars
    BY <2>2, PromptNext, ImportStutter DEF AdminInv
  <2>3. CASE UNCHANGED adminVars
    BY <2>3, PromptStutter, ImportStutter DEF AdminInv, adminVars
  <2> QED
    BY <2>1, <2>2, <2>3 DEF AdminNext
<1> QED
  BY <1>1, <1>2, PTL DEF AdminSpec

\* readNewPassword: a password that is set was given twice, and neither of the
\* two was a line that came early, or late, or was meant for another prompt.
THEOREM PasswordGivenTwice == AdminSpec => []PasswordIsTyped
<1>1. AdminInv => PasswordIsTyped
  BY DEF AdminInv, Prompt!PromptInv, PasswordIsTyped
<1> QED
  BY <1>1, OcmAdminInvariant, PTL

\* importClients: when the import ends, every client that it found unlisted and
\* that still works is listed, as revoked only if it was issued again.
THEOREM EveryClientAdopted == AdminSpec => AdoptsEveryClient
<1>1. ASSUME AdminInv
      PROVE  Finish /\ ~dry => \A cn \in due :
               Known(cn) /\ (row[cn].revoked => IssuedAgain(cn))
  BY <1>1 DEF AdminInv, ImportInv, DueInv, Owed, Finish
<1>2. AdminInv /\ [AdminNext]_adminVars =>
        [Finish /\ ~dry => \A cn \in due :
           Known(cn) /\ (row[cn].revoked => IssuedAgain(cn))]_vars
  BY <1>1
<1> QED
  BY <1>2, OcmAdminInvariant, PTL DEF AdminSpec, AdoptsEveryClient

\* What importClients reports, and what its preview reports, is the number of
\* clients that were not listed, if nobody interfered.
THEOREM ReportsWhatItFound == AdminSpec => ReportIsHonest
<1>1. ASSUME AdminInv, Finish, calm, ~(dry /\ \E cn \in due : IssuedAgain(cn))
      PROVE  imported = Cardinality(due)
  <2> USE DEF AdminInv, ImportInv
  <2>1. tool = "look" /\ todo = <<>>
    BY <1>1 DEF Finish
  <2>2. IsFiniteSet(due)
    BY <1>1 DEF DueInv
  <2>3. CASE ~dry
    <3>1. Listed = due
      BY <1>1, <2>1, <2>3 DEF DueInv, Owed, Listed
    <3>2. imported = Cardinality(Listed) + 0
      BY <1>1, <2>1, <2>3 DEF CountInv
    <3> QED
      BY <2>2, <3>1, <3>2, FS_CardinalityType
  <2>4. CASE dry
    <3>1. Ahead = {}
      BY <2>1 DEF Ahead
    <3>2. imported + Cardinality(Ahead) = Cardinality(due)
      BY <1>1, <2>1, <2>4 DEF CountInv
    <3>3. imported \in Nat
      BY <1>1, BoundAssumption DEF TypeOK
    <3> QED
      BY <3>1, <3>2, <3>3, FS_EmptySet
  <2> QED
    BY <2>3, <2>4
<1>2. AdminInv /\ [AdminNext]_adminVars =>
        [Finish /\ calm /\ ~(dry /\ \E cn \in due : IssuedAgain(cn))
           => imported = Cardinality(due)]_vars
  BY <1>1
<1> QED
  BY <1>2, OcmAdminInvariant, PTL DEF AdminSpec, ReportIsHonest

\* importClients only inserts: a row that the API has stored, or marked as
\* revoked, is left as it is.
THEOREM ImportChangesNoRow == AdminSpec => ImportKeepsRows
<1>1. ASSUME AdminInv, Import, NEW cn \in CN, Known(cn)
      PROVE  row'[cn] = row[cn]
  <2>1. row \in [CN -> Row \union {NoRow}]
    BY <1>1 DEF AdminInv, ImportInv, TypeOK
  <2>2. CASE Insert
    BY <1>1, <2>1, <2>2 DEF Insert
  <2> QED
    BY <1>1, <2>2 DEF Import, Skip, Look, Finish
<1>2. AdminInv /\ [AdminNext]_adminVars =>
        [Import => \A cn \in CN : Known(cn) => row'[cn] = row[cn]]_vars
  BY <1>1
<1> QED
  BY <1>2, OcmAdminInvariant, PTL DEF AdminSpec, ImportKeepsRows
=============================================================================
