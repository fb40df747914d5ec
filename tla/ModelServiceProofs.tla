-------------------------- MODULE ModelServiceProofs --------------------------
(***************************************************************************)
(* Proofs about ModelService, for any number of clients, of calls at once, *)
(* of images in a call and of failures, and any supply of file names; and  *)
(* about ModelStore, from which a service starts, for any runs of the      *)
(* script.                                                                 *)
(***************************************************************************)
EXTENDS ModelService, ModelStore, FiniteSetTheorems, SequenceTheorems, TLAPS

Call ==
    [client : Clients \cup {Nobody}, stage : {"new", "upload", "infer", "thread", "reply"},
     todo : Nat, open : Names \cup {None}, files : SUBSET Names]

\* Types.
Typed ==
    /\ oneImage \in BOOLEAN /\ calls \in Seq(Call)
    /\ files \subseteq Names /\ IsFiniteSet(files)
    /\ faults \in Nat

\* The temporary files of a call.
Of(call) == call.files \cup ({call.open} \ {None})

\* A call has files from its first upload to its end, one of them being written
\* while an upload is read, and all of them when the model is called.
Orderly(call) ==
    /\ call.stage \in {"new", "thread", "reply"} => Of(call) = {}
    /\ call.stage \in {"thread", "reply"} => call.todo = 0
    /\ call.open # None => call.open \notin call.files /\ call.todo > 0 /\ call.stage = "upload"
    /\ call.stage \in {"upload", "infer"} => Of(call) # {}
    /\ call.stage = "infer" => call.open = None
    /\ oneImage => call.todo <= 1 /\ (call.todo = 1 => call.files = {})

\* The files of the calls exist, and no two calls have one in common.
Apart ==
    /\ \A n \in Index : Orderly(calls[n]) /\ Of(calls[n]) \subseteq files
    /\ \A m, n \in Index : m # n => Of(calls[m]) \cap Of(calls[n]) = {}

IInv == Typed /\ Apart /\ OneFileAFault

-----------------------------------------------------------------------------
(***************************************************************************)
(* Calls.                                                                  *)
(***************************************************************************)

\* The calls are numbered, and each has its parts.
LEMMA CallTypes ==
  ASSUME Typed
  PROVE  /\ Len(calls) \in Nat /\ Index = DOMAIN calls
         /\ \A n \in Index : calls[n] \in Call
  BY LenProperties, ElementOfSeq DEF Typed, Index

\* A call that goes on leaves the others as they are.
LEMMA Goes ==
  ASSUME Typed, NEW n \in Index, NEW call \in Call, Becomes(n, call)
  PROVE  /\ calls' \in Seq(Call) /\ Index' = Index
         /\ \A m \in Index : calls'[m] = IF m = n THEN call ELSE calls[m]
  <1>1. n \in 1..Len(calls) /\ calls \in Seq(Call)
    BY DEF Index, Typed
  <1>2. /\ calls' \in Seq(Call) /\ Len(calls') = Len(calls)
        /\ \A m \in 1..Len(calls) : calls'[m] = IF m = n THEN call ELSE calls[m]
    BY <1>1, ExceptSeq DEF Becomes
  <1> QED
    BY <1>2 DEF Index

\* Where the k-th call was before the n-th was answered.
Before(k, n) == IF k < n THEN k ELSE k + 1

\* An answer takes one call away and leaves the others.
LEMMA Leaves ==
  ASSUME Typed, NEW n \in Index, calls' = RemoveAt(calls, n)
  PROVE  /\ calls' \in Seq(Call)
         /\ \A k \in Index' : Before(k, n) \in Index \ {n} /\ calls'[k] = calls[Before(k, n)]
         /\ \A j, k \in Index' : j # k => Before(j, n) # Before(k, n)
         /\ \A m \in Index \ {n} : \E k \in Index' : Before(k, n) = m
  <1> DEFINE m == Len(calls)
             s == SubSeq(calls, 1, n - 1)
             t == SubSeq(calls, n + 1, m)
  <1>1. m \in Nat /\ n \in 1..m /\ calls \in Seq(Call) /\ Index = 1..m
    BY CallTypes DEF Index, Typed
  <1>2. s \in Seq(Call) /\ Len(s) = n - 1 /\ \A i \in 1..(n - 1) : s[i] = calls[i]
    BY <1>1, SubSeqProperties
  <1>3. t \in Seq(Call) /\ Len(t) = m - n /\ \A i \in 1..(m - n) : t[i] = calls[n + i]
    BY <1>1, SubSeqProperties
  <1> HIDE DEF s, t, m
  <1>4. /\ s \o t \in Seq(Call) /\ Len(s \o t) = m - 1
        /\ \A i \in 1..(m - 1) : (s \o t)[i] = IF i <= n - 1 THEN s[i] ELSE t[i - (n - 1)]
    <2>1. Len(s) + Len(t) = m - 1
      BY <1>1, <1>2, <1>3
    <2> QED
      BY <1>2, <1>3, <2>1, ConcatProperties
  <1>5. calls' = s \o t
    BY DEF RemoveAt, s, t, m
  <1>6. Index' = 1..(m - 1)
    BY <1>4, <1>5 DEF Index
  <1>7. ASSUME NEW k \in 1..(m - 1) PROVE calls'[k] = calls[Before(k, n)]
    BY <1>1, <1>2, <1>3, <1>4, <1>5, <1>7 DEF Before
  <1>8. \A k \in 1..(m - 1) : Before(k, n) \in Index \ {n}
    BY <1>1 DEF Before
  <1>9. \A j, k \in 1..(m - 1) : j # k => Before(j, n) # Before(k, n)
    BY <1>1 DEF Before
  <1>10. ASSUME NEW i \in Index \ {n} PROVE \E k \in 1..(m - 1) : Before(k, n) = i
    <2>1. CASE i < n
      BY <1>1, <2>1 DEF Before
    <2>2. CASE i > n
      <3>1. i - 1 \in 1..(m - 1) /\ Before(i - 1, n) = i
        BY <1>1, <2>2 DEF Before
      <3> QED
        BY <3>1
    <2> QED
      BY <1>1, <2>1, <2>2
  <1> QED
    BY <1>4, <1>5, <1>6, <1>7, <1>8, <1>9, <1>10

\* Owned has the files of all calls.
LEMMA OwnedFiles == \A x : x \in Owned <=> \E n \in Index : x \in Of(calls[n])
  BY DEF Owned, Of

\* A call that goes on with the files it has, and with those that are new, leaves
\* nothing behind.
LEMMA GoesApart ==
  ASSUME Typed, Apart, NEW n \in Index, NEW call \in Call, Becomes(n, call), oneImage' = oneImage,
         files \subseteq files', Orderly(call), Of(call) = Of(calls[n]) \cup (files' \ files)
  PROVE  Apart' /\ files' \ Owned' \subseteq files \ Owned
  <1>1. Index' = Index /\ \A m \in Index : calls'[m] = IF m = n THEN call ELSE calls[m]
    BY Goes
  <1>3. \A m \in Index : Orderly(calls'[m]) /\ Of(calls'[m]) \subseteq files'
    BY <1>1 DEF Apart
  <1>4. ASSUME NEW l \in Index, NEW m \in Index, l # m PROVE Of(calls'[l]) \cap Of(calls'[m]) = {}
    BY <1>1, <1>4 DEF Apart
  <1>5. Apart'
    <2>1. \A m \in Index' : Orderly(calls[m])' /\ Of(calls'[m]) \subseteq files'
      BY <1>1, <1>3 DEF Orderly
    <2> QED
      BY <1>1, <1>4, <2>1 DEF Apart, Orderly, Of
  <1>6. ASSUME NEW x \in files', x \notin Owned' PROVE x \in files \ Owned
    <2>1. \A m \in Index : x \notin Of(calls'[m])
      BY <1>1, <1>6, OwnedFiles DEF Owned, Of
    <2>2. x \notin Of(call)
      BY <1>1, <2>1
    <2>3. x \in files /\ \A m \in Index : x \notin Of(calls[m])
      BY <1>1, <2>1, <2>2
    <2> QED
      BY <2>3, OwnedFiles
  <1> QED
    BY <1>5, <1>6

\* A call that is answered takes no file of another one along, and leaves behind
\* what it does not remove of its own.
LEMMA LeavesApart ==
  ASSUME Typed, Apart, NEW n \in Index, calls' = RemoveAt(calls, n), oneImage' = oneImage,
         files' \subseteq files, files \ Of(calls[n]) \subseteq files'
  PROVE  Apart' /\ files' \ Owned' \subseteq (files \ Owned) \cup (Of(calls[n]) \cap files')
  <1>1. /\ \A k \in Index' : Before(k, n) \in Index \ {n} /\ calls'[k] = calls[Before(k, n)]
        /\ \A j, k \in Index' : j # k => Before(j, n) # Before(k, n)
        /\ \A m \in Index \ {n} : \E k \in Index' : Before(k, n) = m
    BY Leaves
  <1>3. ASSUME NEW k \in Index' PROVE Orderly(calls[k])' /\ Of(calls'[k]) \subseteq files'
    <2> DEFINE m == Before(k, n)
    <2>1. m \in Index /\ m # n /\ calls'[k] = calls[m]
      BY <1>1, <1>3
    <2>2. Orderly(calls[m]) /\ Of(calls[m]) \subseteq files /\ Of(calls[m]) \cap Of(calls[n]) = {}
      BY <2>1 DEF Apart
    <2>3. Orderly(calls'[k]) /\ Of(calls'[k]) \subseteq files'
      BY <2>1, <2>2
    <2> QED
      BY <2>3 DEF Orderly
  <1>4. ASSUME NEW j \in Index', NEW k \in Index', j # k PROVE Of(calls'[j]) \cap Of(calls'[k]) = {}
    <2>1. /\ Before(j, n) \in Index /\ Before(k, n) \in Index /\ Before(j, n) # Before(k, n)
          /\ calls'[j] = calls[Before(j, n)] /\ calls'[k] = calls[Before(k, n)]
      BY <1>1, <1>4
    <2> QED
      BY <2>1 DEF Apart
  <1>5. Apart'
    BY <1>3, <1>4 DEF Apart, Orderly, Of
  <1>6. ASSUME NEW x \in files', x \notin Owned', x \notin Of(calls[n]) PROVE x \in files \ Owned
    <2>1. ASSUME NEW m \in Index, x \in Of(calls[m]) PROVE FALSE
      <3>1. PICK k \in Index' : Before(k, n) = m
        BY <1>1, <1>6, <2>1
      <3>2. x \in Of(calls'[k])
        BY <1>1, <2>1, <3>1
      <3> QED
        BY <1>6, <3>2 DEF Owned, Of
    <2> QED
      BY <2>1, OwnedFiles
  <1> QED
    BY <1>5, <1>6

\* One more fault allows for one more file.
LEMMA Lost ==
  ASSUME Typed, OneFileAFault, files' \subseteq Names, IsFiniteSet(files')
  PROVE  /\ files' \ Owned' \subseteq files \ Owned /\ faults' = faults => OneFileAFault'
         /\ \A x : files' \ Owned' \subseteq (files \ Owned) \cup {x} /\ faults' = faults + 1 => OneFileAFault'
  <1> DEFINE L == files \ Owned
             M == files' \ Owned'
  <1>1. IsFiniteSet(L) /\ Cardinality(L) \in Nat /\ Cardinality(L) <= faults /\ faults \in Nat
    BY FS_Subset, FS_CardinalityType DEF Typed, OneFileAFault
  <1>2. IsFiniteSet(M) /\ Cardinality(M) \in Nat
    BY FS_Subset, FS_CardinalityType
  <1>3. M \subseteq L => Cardinality(M) <= faults
    <2> HIDE DEF L, M
    <2> QED
      BY <1>1, <1>2, FS_Subset
  <1>4. ASSUME NEW x, M \subseteq L \cup {x} PROVE Cardinality(M) <= faults + 1
    <2> HIDE DEF L, M
    <2>1. IsFiniteSet(L \cup {x}) /\ Cardinality(L \cup {x}) \in Nat
      BY <1>1, FS_AddElement, FS_CardinalityType
    <2>2. Cardinality(L \cup {x}) <= Cardinality(L) + 1
      <3>1. Cardinality(L \cup {x}) = IF x \in L THEN Cardinality(L) ELSE Cardinality(L) + 1
        BY <1>1, FS_AddElement, Zenon
      <3> QED
        BY <1>1, <3>1
    <2>3. Cardinality(M) <= Cardinality(L \cup {x})
      BY <1>4, <2>1, FS_Subset
    <2> QED
      BY <1>1, <1>2, <2>1, <2>2, <2>3
  <1> QED
    BY <1>3, <1>4 DEF OneFileAFault

-----------------------------------------------------------------------------
(***************************************************************************)
(* Steps.                                                                  *)
(***************************************************************************)

\* There are no calls.
LEMMA InitIInv == Init => IInv
  <1> SUFFICES ASSUME Init PROVE IInv
    OBVIOUS
  <1>1. Typed
    BY EmptySeq, FS_EmptySet DEF Init, Typed
  <1>2. Index = {}
    BY EmptySeq DEF Init, Index
  <1>3. Apart
    BY <1>2 DEF Apart
  <1>4. files \ Owned = {} /\ faults = 0
    BY DEF Init
  <1>5. OneFileAFault
    BY <1>4, FS_EmptySet DEF OneFileAFault
  <1> QED
    BY <1>1, <1>3, <1>5 DEF IInv

\* What a step does to the files, to leave the invariant.
LEMMA Keeps ==
  ASSUME IInv, UNCHANGED oneImage, calls' \in Seq(Call), Apart',
         files' \subseteq Names, IsFiniteSet(files'),
         \/ faults' = faults /\ files' \ Owned' \subseteq files \ Owned
         \/ faults' = faults + 1 /\ \E x : files' \ Owned' \subseteq (files \ Owned) \cup {x}
  PROVE  IInv'
  <1>1. OneFileAFault'
    BY Lost DEF IInv
  <1>2. Typed'
    BY DEF IInv, Typed
  <1> QED
    BY <1>1, <1>2 DEF IInv

\* A call that comes has no files yet.
LEMMA SendKeeps == ASSUME IInv, NEW c \in Clients, Send(c) PROVE IInv'
  <1> DEFINE m == Len(calls)
  <1>1. PICK images \in IF c \in Texters THEN {0} ELSE 1..(IF oneImage THEN 1 ELSE MaxBatch) :
           calls' = Append(calls, [client |-> c, stage |-> "new", todo |-> images, open |-> None, files |-> {}])
    BY DEF Send
  <1> DEFINE call == [client |-> c, stage |-> "new", todo |-> images, open |-> None, files |-> {}]
  <1>2. images \in Nat /\ (oneImage => images <= 1) /\ UNCHANGED <<oneImage, files, faults>>
    BY <1>1, ModelServiceAssumption DEF Send, IInv, Typed
  <1>3. call \in Call /\ Orderly(call) /\ Of(call) = {}
    BY <1>2 DEF Call, Orderly, Of
  <1> HIDE DEF call
  <1>4. /\ calls' \in Seq(Call) /\ Len(calls') = m + 1 /\ calls'[m + 1] = call
        /\ \A k \in 1..m : calls'[k] = calls[k]
    BY <1>1, <1>3, AppendProperties DEF IInv, Typed, call
  <1>5. m \in Nat /\ Index = 1..m /\ Index' = 1..(m + 1)
    BY <1>4, CallTypes DEF IInv, Index
  <1>6. \A k \in Index' : k \in Index \/ k = m + 1
    BY <1>5
  <1>7. \A k \in Index' : Orderly(calls'[k]) /\ Of(calls'[k]) \subseteq files'
    BY <1>2, <1>3, <1>4, <1>5, <1>6 DEF IInv, Apart
  <1>8. \A j, k \in Index' : j # k => Of(calls'[j]) \cap Of(calls'[k]) = {}
    <2>1. ASSUME NEW j \in Index', NEW k \in Index', j # k PROVE Of(calls'[j]) \cap Of(calls'[k]) = {}
      <3>1. CASE j = m + 1 \/ k = m + 1
        BY <1>3, <1>4, <3>1
      <3>2. CASE j \in Index /\ k \in Index
        BY <1>4, <1>5, <2>1, <3>2 DEF IInv, Apart
      <3> QED
        BY <1>6, <3>1, <3>2
    <2> QED
      BY <2>1
  <1>9. Apart'
    BY <1>2, <1>7, <1>8 DEF Apart, Orderly, Of
  <1>10. files' \ Owned' \subseteq files \ Owned
    <2>1. ASSUME NEW x \in Owned PROVE x \in Owned'
      <3>1. PICK k \in Index : x \in Of(calls[k])
        BY <2>1, OwnedFiles
      <3>2. k \in Index' /\ x \in Of(calls'[k])
        BY <1>4, <1>5, <3>1
      <3> QED
        BY <3>2 DEF Owned, Of
    <2> QED
      BY <1>2, <2>1
  <1> QED
    BY <1>2, <1>4, <1>9, <1>10, Keeps DEF IInv, Typed

\* A call without a client has what it had.
LEMMA GiveUpKeeps == ASSUME IInv, NEW c \in Clients, GiveUp(c) PROVE IInv'
  <1>1. /\ calls' = [n \in Index |-> IF calls[n].client = c THEN [calls[n] EXCEPT !.client = Nobody] ELSE calls[n]]
        /\ UNCHANGED <<oneImage, files, faults>>
    BY DEF GiveUp
  <1>2. Len(calls) \in Nat /\ Index = 1..Len(calls) /\ \A n \in Index : calls[n] \in Call
    BY CallTypes DEF IInv, Index
  <1>3. ASSUME NEW n \in Index
        PROVE  /\ calls'[n] \in Call /\ calls'[n].stage = calls[n].stage /\ calls'[n].todo = calls[n].todo
               /\ calls'[n].open = calls[n].open /\ calls'[n].files = calls[n].files
    <2>1. calls[n] \in Call /\ calls'[n] = IF calls[n].client = c THEN [calls[n] EXCEPT !.client = Nobody] ELSE calls[n]
      BY <1>1, <1>2
    <2> QED
      BY <2>1 DEF Call
  <1>4. calls' \in Seq(Call) /\ Index' = Index
    <2>1. calls' = [n \in 1..Len(calls) |-> calls'[n]]
      BY <1>1, <1>2
    <2>2. calls' \in [1..Len(calls) -> Call]
      BY <1>2, <1>3, <2>1
    <2> QED
      BY <1>2, <2>2 DEF Index
  <1>5. \A n \in Index : (Orderly(calls'[n]) <=> Orderly(calls[n])) /\ Of(calls'[n]) = Of(calls[n])
    BY <1>3 DEF Orderly, Of
  <1>6. Apart'
    <2>1. \A n \in Index' : Orderly(calls'[n]) /\ Of(calls'[n]) \subseteq files'
      BY <1>1, <1>4, <1>5 DEF IInv, Apart
    <2>2. \A m, n \in Index' : m # n => Of(calls'[m]) \cap Of(calls'[n]) = {}
      BY <1>4, <1>5 DEF IInv, Apart
    <2> QED
      BY <1>1, <2>1, <2>2 DEF Apart, Orderly, Of
  <1>7. Owned' = Owned
    BY <1>3, <1>4 DEF Owned
  <1> QED
    BY <1>1, <1>4, <1>6, <1>7, Keeps DEF IInv, Typed

\* The file that is opened is new, and that of one call.
LEMMA OpenKeeps == ASSUME IInv, NEW n \in Index, Open(n) PROVE IInv'
  <1> DEFINE f == CHOOSE g \in Names \ files : TRUE
             call == [calls[n] EXCEPT !.stage = "upload", !.open = f]
  <1>1. /\ f \in Names \ files /\ files' = files \cup {f} /\ Becomes(n, call)
        /\ calls[n].todo > 0 /\ calls[n].open = None /\ calls[n].stage # "infer"
        /\ UNCHANGED <<oneImage, faults>>
    BY DEF Open, LoopIsFree
  <1> HIDE DEF f
  <1>2. f # None
    BY <1>1, ModelServiceAssumption DEF None
  <1>3. calls[n] \in Call /\ Orderly(calls[n]) /\ Of(calls[n]) \subseteq files
    BY CallTypes DEF IInv, Apart
  <1>4. /\ call \in Call /\ call.stage = "upload" /\ call.open = f /\ call.todo = calls[n].todo
        /\ call.files = calls[n].files
    BY <1>1, <1>3 DEF Call
  <1> HIDE DEF call
  <1>5. Of(call) = Of(calls[n]) \cup {f} /\ files' \ files = {f}
    BY <1>1, <1>2, <1>4 DEF Of
  <1>6. Orderly(call)
    BY <1>1, <1>2, <1>3, <1>4, <1>5 DEF Orderly, Of
  <1>7. Apart' /\ files' \ Owned' \subseteq files \ Owned
    BY <1>1, <1>4, <1>5, <1>6, GoesApart DEF IInv
  <1>8. calls' \in Seq(Call)
    BY <1>1, <1>4, Goes DEF IInv
  <1>9. files' \subseteq Names /\ IsFiniteSet(files')
    BY <1>1, FS_AddElement DEF IInv, Typed
  <1> QED
    BY <1>1, <1>7, <1>8, <1>9, Keeps

\* A step of a call that has its files before and after it.
LEMMA SameFiles ==
  ASSUME IInv, NEW n \in Index, NEW call \in Call, Becomes(n, call), Orderly(call),
         Of(call) = Of(calls[n]), UNCHANGED <<oneImage, files, faults>>
  PROVE  IInv'
  <1>1. Apart' /\ files' \ Owned' \subseteq files \ Owned
    BY GoesApart DEF IInv
  <1>2. calls' \in Seq(Call)
    BY Goes DEF IInv
  <1> QED
    BY <1>1, <1>2, Keeps DEF IInv, Typed

\* The file that was read is put on the list.
LEMMA ReadKeeps == ASSUME IInv, NEW n \in Index, Read(n) PROVE IInv'
  <1> DEFINE call == [calls[n] EXCEPT !.open = None, !.todo = @ - 1, !.files = @ \cup {calls[n].open}]
  <1>1. Becomes(n, call) /\ calls[n].open # None /\ UNCHANGED <<oneImage, files, faults>>
    BY DEF Read
  <1>2. calls[n] \in Call /\ Orderly(calls[n])
    BY CallTypes DEF IInv, Apart
  <1>3. calls[n].todo > 0 /\ calls[n].stage = "upload" /\ calls[n].open \in Names
    BY <1>1, <1>2 DEF Orderly, Call
  <1>4. /\ call \in Call /\ call.stage = "upload" /\ call.open = None /\ call.todo = calls[n].todo - 1
        /\ call.files = calls[n].files \cup {calls[n].open}
    <2> DEFINE k == calls[n].todo - 1
               fs == calls[n].files \cup {calls[n].open}
    <2>1. k \in Nat /\ fs \in SUBSET Names /\ None \in Names \cup {None}
      BY <1>2, <1>3 DEF Call
    <2>2. call = [calls[n] EXCEPT !.open = None, !.todo = k, !.files = fs]
      OBVIOUS
    <2> HIDE DEF call, k, fs
    <2>3. call \in Call /\ call.stage = "upload" /\ call.open = None /\ call.todo = k /\ call.files = fs
      BY <1>2, <1>3, <2>1, <2>2 DEF Call
    <2> QED
      BY <2>3 DEF k, fs
  <1> HIDE DEF call
  <1>5. Of(call) = Of(calls[n]) /\ Of(call) # {}
    BY <1>1, <1>4, <1>3, ModelServiceAssumption DEF Of, None
  <1>6. Orderly(call)
    BY <1>2, <1>3, <1>4, <1>5 DEF Orderly, Call
  <1> QED
    BY <1>1, <1>4, <1>5, <1>6, SameFiles

\* The model is called with all files of the call.
LEMMA InferKeeps == ASSUME IInv, NEW n \in Index, Infer(n) PROVE IInv'
  <1> DEFINE call == [calls[n] EXCEPT !.stage = "infer"]
  <1>1. /\ Becomes(n, call) /\ calls[n].stage = "upload" /\ calls[n].todo = 0
        /\ UNCHANGED <<oneImage, files, faults>>
    BY DEF Infer
  <1>2. calls[n] \in Call /\ Orderly(calls[n])
    BY CallTypes DEF IInv, Apart
  <1>3. /\ call \in Call /\ call.stage = "infer" /\ call.open = calls[n].open /\ call.todo = calls[n].todo
        /\ call.files = calls[n].files
    BY <1>2 DEF Call
  <1> HIDE DEF call
  <1>4. Of(call) = Of(calls[n]) /\ Orderly(call)
    BY <1>1, <1>2, <1>3 DEF Orderly, Of
  <1> QED
    BY <1>1, <1>3, <1>4, SameFiles

\* An answer, whatever happened to the files of the call.
LEMMA AnswerKeeps ==
  ASSUME IInv, NEW n \in Index, calls' = RemoveAt(calls, n), oneImage' = oneImage,
         files' \subseteq files, files \ Of(calls[n]) \subseteq files',
         \/ faults' = faults /\ Of(calls[n]) \cap files' = {}
         \/ faults' = faults + 1 /\ \E x : Of(calls[n]) \cap files' \subseteq {x}
  PROVE  IInv'
  <1>1. Apart' /\ files' \ Owned' \subseteq (files \ Owned) \cup (Of(calls[n]) \cap files')
    BY LeavesApart DEF IInv
  <1>2. calls' \in Seq(Call)
    BY Leaves DEF IInv
  <1>3. files' \subseteq Names /\ IsFiniteSet(files')
    BY FS_Subset DEF IInv, Typed
  <1>4. CASE faults' = faults /\ Of(calls[n]) \cap files' = {}
    BY <1>1, <1>2, <1>3, <1>4, Keeps
  <1>5. CASE faults' = faults + 1 /\ \E x : Of(calls[n]) \cap files' \subseteq {x}
    <2>1. \E x : files' \ Owned' \subseteq (files \ Owned) \cup {x}
      BY <1>1, <1>5
    <2> QED
      BY <1>1, <1>2, <1>3, <1>5, <2>1, Keeps
  <1> QED
    BY <1>4, <1>5

\* A failed upload leaves the file that was open, an empty one leaves nothing,
\* and the end of an inference neither.
LEMMA EndKeeps == ASSUME IInv, NEW n \in Index, ReadFails(n) \/ RefuseEmpty(n) \/ Finish(n) PROVE IInv'
  <1>1. calls[n] \in Call /\ Orderly(calls[n]) /\ calls' = RemoveAt(calls, n) /\ oneImage' = oneImage
    BY CallTypes DEF IInv, Apart, ReadFails, RefuseEmpty, Finish, Answer
  <1>2. CASE ReadFails(n)
    <2>1. files' = files \ calls[n].files /\ faults' = faults + 1
      BY <1>2 DEF ReadFails, Fault
    <2>2. /\ files' \subseteq files /\ files \ Of(calls[n]) \subseteq files'
          /\ Of(calls[n]) \cap files' \subseteq {calls[n].open}
      BY <2>1 DEF Of
    <2> QED
      BY <1>1, <2>1, <2>2, AnswerKeeps
  <1>3. CASE RefuseEmpty(n)
    <2>1. files' = files \ {calls[n].open} /\ faults' = faults + 1 /\ oneImage /\ calls[n].open # None
      BY <1>3 DEF RefuseEmpty, Fault
    <2>2. calls[n].files = {}
      BY <1>1, <2>1 DEF Orderly, Call
    <2>3. files' \subseteq files /\ files \ Of(calls[n]) \subseteq files' /\ Of(calls[n]) \cap files' \subseteq {None}
      BY <2>1, <2>2 DEF Of
    <2> QED
      BY <1>1, <2>1, <2>3, AnswerKeeps
  <1>4. CASE Finish(n)
    <2>1. /\ files' = files \ calls[n].files /\ (faults' = faults \/ faults' = faults + 1)
          /\ calls[n].stage = "infer"
      BY <1>4 DEF Finish, Fault
    <2>2. Of(calls[n]) = calls[n].files
      BY <1>1, <2>1 DEF Orderly, Of
    <2>3. /\ files' \subseteq files /\ files \ Of(calls[n]) \subseteq files'
          /\ Of(calls[n]) \cap files' = {} /\ Of(calls[n]) \cap files' \subseteq {None}
      BY <2>1, <2>2
    <2> QED
      BY <1>1, <2>1, <2>3, AnswerKeeps
  <1> QED
    BY <1>2, <1>3, <1>4

\* A call for texts has no files.
LEMMA TextKeeps == ASSUME IInv, NEW n \in Index, Text(n) PROVE IInv'
  <1>1. calls[n] \in Call /\ Orderly(calls[n]) /\ UNCHANGED <<oneImage, files, faults>>
    BY CallTypes DEF IInv, Apart, Text
  <1>2. ASSUME NEW stage \in {"thread", "reply"}, Becomes(n, [calls[n] EXCEPT !.stage = stage]),
               Of(calls[n]) = {}, calls[n].todo = 0
        PROVE  IInv'
    <2> DEFINE call == [calls[n] EXCEPT !.stage = stage]
    <2>1. /\ call \in Call /\ call.stage = stage /\ call.open = calls[n].open /\ call.todo = calls[n].todo
          /\ call.files = calls[n].files
      BY <1>1 DEF Call
    <2> HIDE DEF call
    <2>2. Of(call) = Of(calls[n]) /\ Orderly(call)
      BY <1>1, <1>2, <2>1 DEF Orderly, Of
    <2> QED
      BY <1>1, <1>2, <2>1, <2>2, SameFiles DEF call
  <1>3. CASE calls[n].stage = "new" /\ calls[n].todo = 0 /\ Becomes(n, [calls[n] EXCEPT !.stage = "thread"])
    BY <1>1, <1>2, <1>3 DEF Orderly
  <1>4. CASE calls[n].stage = "thread" /\ Becomes(n, [calls[n] EXCEPT !.stage = "reply"])
    BY <1>1, <1>2, <1>4 DEF Orderly
  <1>5. CASE calls[n].stage = "reply" /\ Answer(n, TRUE)
    <2>1. Of(calls[n]) = {} /\ calls' = RemoveAt(calls, n)
      BY <1>1, <1>5 DEF Orderly, Answer
    <2> QED
      BY <1>1, <2>1, AnswerKeeps
  <1> QED
    BY <1>3, <1>4, <1>5 DEF Text

-----------------------------------------------------------------------------
(***************************************************************************)
(* The theorems.                                                           *)
(***************************************************************************)

\* Every step keeps the invariant.
LEMMA NextIInv == IInv /\ [Next]_vars => IInv'
  <1> SUFFICES ASSUME IInv, [Next]_vars PROVE IInv'
    OBVIOUS
  <1>1. ASSUME UNCHANGED <<oneImage, calls, files, faults>> PROVE IInv'
    BY <1>1 DEF IInv, Typed, Apart, Orderly, Of, Index, OneFileAFault, Owned
  <1>2. CASE Tick \/ UNCHANGED vars
    BY <1>1, <1>2 DEF Tick, vars
  <1>3. ASSUME NEW c \in Clients, Send(c) \/ GiveUp(c) PROVE IInv'
    BY <1>3, SendKeeps, GiveUpKeeps
  <1>4. ASSUME NEW n \in Index, Handle(n) \/ ReadFails(n) \/ RefuseEmpty(n) PROVE IInv'
    BY <1>4, OpenKeeps, ReadKeeps, InferKeeps, EndKeeps, TextKeeps DEF Handle
  <1> QED
    BY <1>2, <1>3, <1>4 DEF Next

\* The invariant holds of every run of a service.
THEOREM SpecIInv == Spec => []IInv
  BY InitIInv, NextIInv, PTL DEF Spec

\* A model that is called finds the files it was given, and nobody else has them.
THEOREM SpecInferenceHasItsFiles == Spec => []InferenceHasItsFiles
  <1>1. IInv => InferenceHasItsFiles
    <2> SUFFICES ASSUME IInv, NEW n \in Index, calls[n].stage = "infer"
                 PROVE  /\ calls[n].files # {} /\ calls[n].files \subseteq files
                        /\ \A m \in Index \ {n} : calls[m].files \cap calls[n].files = {}
      BY DEF InferenceHasItsFiles
    <2>1. calls[n].files # {} /\ calls[n].files \subseteq files
      BY DEF IInv, Apart, Orderly, Of
    <2>2. ASSUME NEW m \in Index, m # n PROVE calls[m].files \cap calls[n].files = {}
      <3>1. Of(calls[m]) \cap Of(calls[n]) = {}
        BY <2>2 DEF IInv, Apart
      <3> QED
        BY <3>1 DEF Of
    <2> QED
      BY <2>1, <2>2
  <1> QED
    BY <1>1, SpecIInv, PTL

\* A service loses a file for a failure at most, however many a call brings.
THEOREM SpecOneFileAFault == Spec => []OneFileAFault
  <1>1. IInv => OneFileAFault
    BY DEF IInv
  <1> QED
    BY <1>1, SpecIInv, PTL

-----------------------------------------------------------------------------
(***************************************************************************)
(* The store, and a service that starts from it.                           *)
(***************************************************************************)

\* The elements of a sequence.
Listed(s) == {s[n] : n \in DOMAIN s}

\* Types.
StoreTyped ==
    /\ DOMAIN content = Models
    /\ todo \in Seq(Models) /\ loading \in Seq(Models)
    /\ service \in DOMAIN Parts

\* A run without flags leaves complete what it is past, and the parts of a safe
\* service are complete.
Prepared ==
    /\ full => \A m \in Models : m \in Listed(todo) \/ Complete(m)
    /\ safe => Whole

\* A service has loaded its parts or has still to load them, on its device.
Progress ==
    /\ state = "starting" => loading # <<>>
    /\ state = "serving" => loading = <<>>
    /\ state \in {"starting", "serving"} =>
          {p.model : p \in runsOn} \cup Listed(loading) = Listed(Parts[service])
    /\ \A p \in runsOn : p.device = Device

\* A safe service goes for the format that the script made, and a device that is
\* not there is all that stops it.
Secure ==
    /\ safe /\ state = "starting" /\ route # "look" =>
          (route = "ort" <=> Head(loading) \in Listed(Exports))
    /\ safe /\ state = "failed" => LacksItsDevice

StoreInv == StoreTyped /\ Prepared /\ Progress /\ Secure

\* What a sequence lists is its head and what its tail lists.
LEMMA HeadAndTail ==
  ASSUME NEW S, NEW s \in Seq(S), s # <<>>
  PROVE  /\ Head(s) \in S /\ Tail(s) \in Seq(S)
         /\ Listed(s) = {Head(s)} \cup Listed(Tail(s))
  <1>1. /\ Len(s) \in Nat \ {0} /\ DOMAIN s = 1..Len(s)
        /\ Head(s) = s[1] /\ \A n \in 1..Len(s) : s[n] \in S
    BY LenProperties, ElementOfSeq, EmptySeq
  <1>2. /\ Tail(s) \in Seq(S) /\ Len(Tail(s)) = Len(s) - 1
        /\ \A n \in 1..Len(s) - 1 : Tail(s)[n] = s[n + 1]
    BY HeadTailProperties
  <1>3. DOMAIN Tail(s) = 1..Len(s) - 1
    BY <1>2, LenProperties
  <1>4. ASSUME NEW n \in DOMAIN s, n # 1 PROVE n - 1 \in DOMAIN Tail(s) /\ Tail(s)[n - 1] = s[n]
    BY <1>1, <1>2, <1>3, <1>4
  <1>5. ASSUME NEW n \in DOMAIN Tail(s) PROVE n + 1 \in DOMAIN s /\ Tail(s)[n] = s[n + 1]
    BY <1>1, <1>2, <1>3
  <1>6. 1 \in DOMAIN s
    BY <1>1
  <1>7. ASSUME NEW x \in Listed(s) PROVE x = Head(s) \/ x \in Listed(Tail(s))
    <2>1. PICK n \in DOMAIN s : x = s[n]
      BY DEF Listed
    <2> QED
      BY <1>1, <1>4, <2>1 DEF Listed
  <1>8. Head(s) \in Listed(s) /\ Listed(Tail(s)) \subseteq Listed(s)
    BY <1>1, <1>5, <1>6 DEF Listed
  <1> QED
    BY <1>1, <1>2, <1>7, <1>8

\* What the model lists are, element by element.
LEMMA Lists ==
  /\ Listed(<<>>) = {}
  /\ Listed(Exports) = {"splade", "cat"}
  /\ Listed(Parts["ocr"]) \cap Listed(Exports) = {}
  /\ Listed(Parts["dense"]) = {"siglip"} /\ Listed(Parts["sparse"]) = {"splade"}
  /\ Listed(Parts["ocr"]) = {"det", "layout", "vl"} /\ Listed(Parts["caption"]) = {"florence", "cat"}
  /\ DOMAIN Parts = {"dense", "sparse", "ocr", "caption"}
  /\ \A s \in DOMAIN Parts : Parts[s] \in Seq(Models) /\ Parts[s] # <<>>
  /\ Downloads \in Seq(Models) /\ Exports \in Seq(Models) /\ PADDLE_MODELS \in Seq(Models)
  /\ Models \subseteq Listed(Downloads) \cup Listed(Exports) \cup Listed(PADDLE_MODELS)
  <1>1. Listed(<<>>) = {}
    BY DEF Listed
  <1>2. Listed(Exports) = {"splade", "cat"}
    BY DEF Listed, Exports
  <1>3. Listed(PADDLE_MODELS) = {"det", "layout", "vl"}
    BY DEF Listed, PADDLE_MODELS
  <1>4. Listed(Downloads) = {"siglip", "florence"}
    BY DEF Listed, Downloads
  <1>5. Parts["ocr"] = PADDLE_MODELS
    BY DEF Parts
  <1>6. ASSUME NEW s \in DOMAIN Parts PROVE Parts[s] \in Seq(Models) /\ Parts[s] # <<>>
    <2>1. s \in {"dense", "sparse", "ocr", "caption"}
      BY DEF Parts
    <2>2. CASE s = "dense"
      BY <2>2 DEF Parts, Models
    <2>3. CASE s = "sparse"
      BY <2>3 DEF Parts, Models
    <2>4. CASE s = "ocr"
      BY <2>4 DEF Parts, Models, PADDLE_MODELS
    <2>5. CASE s = "caption"
      BY <2>5 DEF Parts, Models
    <2> QED
      BY <2>1, <2>2, <2>3, <2>4, <2>5
  <1>7. Downloads \in Seq(Models) /\ Exports \in Seq(Models) /\ PADDLE_MODELS \in Seq(Models)
    BY DEF Downloads, Exports, PADDLE_MODELS, Models
  <1>8. Listed(Parts["ocr"]) \cap Listed(Exports) = {}
    BY <1>2, <1>3, <1>5
  <1>9. Models \subseteq Listed(Downloads) \cup Listed(Exports) \cup Listed(PADDLE_MODELS)
    BY <1>2, <1>3, <1>4 DEF Models
  <1>10. DOMAIN Parts = {"dense", "sparse", "ocr", "caption"}
    BY DEF Parts
  <1>11. Listed(Parts["dense"]) = {"siglip"} /\ Listed(Parts["sparse"]) = {"splade"}
    BY DEF Listed, Parts
  <1>12. Listed(Parts["caption"]) = {"florence", "cat"}
    BY DEF Listed, Parts
  <1> QED
    BY <1>1, <1>2, <1>3, <1>5, <1>6, <1>7, <1>8, <1>9, <1>10, <1>11, <1>12

\* A safe service has the parts that it has to load.
LEMMA SafeParts ==
  ASSUME StoreTyped, Prepared, safe, NEW m \in Listed(Parts[service])
  PROVE  Complete(m)
  BY DEF Prepared, Whole, Listed

\* Two lists one after the other.
LEMMA BothListed ==
  ASSUME NEW s \in Seq(Models), NEW t \in Seq(Models)
  PROVE  s \o t \in Seq(Models) /\ Listed(s) \cup Listed(t) \subseteq Listed(s \o t)
  <1>1. /\ s \o t \in Seq(Models) /\ Len(s \o t) = Len(s) + Len(t)
        /\ \A n \in 1..Len(s) + Len(t) : (s \o t)[n] = IF n <= Len(s) THEN s[n] ELSE t[n - Len(s)]
    BY ConcatProperties
  <1>2. /\ Len(s) \in Nat /\ DOMAIN s = 1..Len(s) /\ Len(t) \in Nat /\ DOMAIN t = 1..Len(t)
        /\ DOMAIN (s \o t) = 1..Len(s) + Len(t)
    BY <1>1, LenProperties
  <1>3. ASSUME NEW n \in DOMAIN s PROVE n \in DOMAIN (s \o t) /\ (s \o t)[n] = s[n]
    BY <1>1, <1>2
  <1>4. ASSUME NEW n \in DOMAIN t PROVE Len(s) + n \in DOMAIN (s \o t) /\ (s \o t)[Len(s) + n] = t[n]
    BY <1>1, <1>2
  <1>5. Listed(s) \subseteq Listed(s \o t)
    BY <1>3 DEF Listed
  <1>6. Listed(t) \subseteq Listed(s \o t)
    BY <1>4 DEF Listed
  <1> QED
    BY <1>1, <1>5, <1>6

\* An empty store, and no service.
LEMMA InitStoreInv == StoreInit => StoreInv
  <1> SUFFICES ASSUME StoreInit PROVE StoreInv
    OBVIOUS
  <1>1. <<>> \in Seq(Models)
    OBVIOUS
  <1>2. StoreTyped /\ Prepared
    BY <1>1 DEF StoreInit, StoreTyped, Prepared
  <1>3. Progress /\ Secure
    BY DEF StoreInit, Progress, Secure
  <1> QED
    BY <1>2, <1>3 DEF StoreInv

\* The script touches no service, and is no reason for one to become safe.
LEMMA ScriptKeeps ==
  ASSUME StoreTyped', Prepared', Progress, Secure, UNCHANGED <<machine, process>>, safe' => safe
  PROVE  StoreInv'
  <1>1. Progress'
    BY DEF Progress, Device, machine, process
  <1>2. Secure'
    BY DEF Secure, LacksItsDevice, Device, machine, process
  <1> QED
    BY <1>1, <1>2 DEF StoreInv

\* The flags take parts of the list away.
LEMMA PrepareKeeps ==
  ASSUME StoreInv, NEW flags \in SUBSET Flags, Prepare(flags) PROVE StoreInv'
  <1>1. ASSUME NEW models \in Seq(Models), NEW flag PROVE Chosen(models, flag, flags) \in Seq(Models)
    BY DEF Chosen
  <1> DEFINE d == Chosen(Downloads, "skip_download", flags)
             e == Chosen(Exports, "skip_onnx", flags)
             p == Chosen(PADDLE_MODELS, "skip_paddle", flags)
  <1>2. d \in Seq(Models) /\ e \in Seq(Models) /\ p \in Seq(Models)
    BY <1>1, Lists
  <1>3. todo' = d \o e \o p
    BY DEF Prepare
  <1>4. ASSUME flags = {} PROVE d = Downloads /\ e = Exports /\ p = PADDLE_MODELS
    BY <1>4 DEF Chosen
  <1> HIDE DEF d, e, p
  <1>5. d \o e \in Seq(Models) /\ Listed(d) \cup Listed(e) \subseteq Listed(d \o e)
    BY <1>2, BothListed
  <1>6. todo' \in Seq(Models) /\ Listed(d \o e) \cup Listed(p) \subseteq Listed(todo')
    BY <1>2, <1>3, <1>5, BothListed
  <1>7. StoreTyped'
    BY <1>6 DEF StoreInv, StoreTyped, Prepare, machine, process
  <1>8. ASSUME flags = {} PROVE Models \subseteq Listed(todo')
    BY <1>4, <1>5, <1>6, <1>8, Lists
  <1>9. Prepared'
    BY <1>8 DEF StoreInv, Prepared, Prepare, Whole, Complete, machine
  <1> QED
    BY <1>7, <1>9, ScriptKeeps DEF StoreInv, Prepare

\* The script writes the directory of the first model of its list, and takes the
\* model off the list when it is complete.
LEMMA WriteKeeps ==
  ASSUME StoreInv, todo # <<>>, NEW h, h = Head(todo), NEW result,
         content' = content \/ Writes(result),
         GoOn \/ (Done /\ Complete(h)'),
         UNCHANGED <<full, machine, process>>, safe' = (safe /\ Whole')
  PROVE  StoreInv'
  <1>1. safe' => safe /\ Whole'
    OBVIOUS
  <1>2. /\ DOMAIN content = Models /\ todo \in Seq(Models) /\ loading \in Seq(Models)
        /\ service \in DOMAIN Parts
    BY DEF StoreInv, StoreTyped
  <1>3. /\ h \in Models /\ Tail(todo) \in Seq(Models)
        /\ Listed(todo) = {h} \cup Listed(Tail(todo))
    BY <1>2, HeadAndTail
  <1>4. StoreTyped'
    BY <1>2, <1>3 DEF StoreTyped, Writes, GoOn, Done, machine, process
  <1>5. ASSUME NEW m \in Models, m # h PROVE content'[m] = content[m]
    BY <1>2, <1>5 DEF Writes
  <1>6. ASSUME NEW m \in Models, full' PROVE m \in Listed(todo') \/ Complete(m)'
    <2>1. m \in Listed(todo) \/ Complete(m)
      BY <1>6 DEF StoreInv, Prepared
    <2>2. CASE m # h
      BY <1>3, <1>5, <2>1, <2>2 DEF Complete, GoOn, Done
    <2>3. CASE m = h
      BY <1>3, <2>3 DEF GoOn, Done
    <2> QED
      BY <2>2, <2>3
  <1>7. Prepared'
    BY <1>1, <1>6 DEF Prepared
  <1> QED
    BY <1>1, <1>4, <1>7, ScriptKeeps DEF StoreInv

\* Downloads and exports end with what Complete asks for.
LEMMA WorkKeeps == ASSUME StoreInv, Download \/ Export PROVE StoreInv'
  <1>0. PICK h : h = Head(todo)
    OBVIOUS
  <1>1. todo # <<>> /\ h \in Models /\ DOMAIN content = Models
    BY <1>0, HeadAndTail DEF StoreInv, StoreTyped, Download, Export, IsExport
  <1>2. IsExport <=> h \in {"splade", "cat"}
    BY <1>0, <1>1 DEF IsExport
  <1>3. CASE Download
    <2>1. Writes("weights") => content'[h] = "weights"
      BY <1>0, <1>1 DEF Writes
    <2>2. content' = content \/ Writes("part") \/ Writes("weights")
      BY <1>3 DEF Download
    <2>3. GoOn \/ (Done /\ Complete(h)')
      BY <1>2, <1>3, <2>1 DEF Download, Complete
    <2> QED
      BY <1>0, <1>1, <1>3, <2>2, <2>3, WriteKeeps DEF Download
  <1>4. CASE Export
    <2>1. Writes("onnx") => content'[h] = "onnx"
      BY <1>0, <1>1 DEF Writes
    <2>2. Writes("absent") \/ Writes("part") \/ Writes("onnx")
      BY <1>4 DEF Export
    <2>3. GoOn \/ (Done /\ Complete(h)')
      BY <1>2, <1>4, <2>1 DEF Export, Complete
    <2> QED
      BY <1>0, <1>1, <1>4, <2>2, <2>3, WriteKeeps DEF Export
  <1> QED
    BY <1>3, <1>4

\* A run that is interrupted is not a full one.
LEMMA InterruptKeeps == ASSUME StoreInv, Interrupt PROVE StoreInv'
  <1>1. <<>> \in Seq(Models)
    OBVIOUS
  <1>2. StoreTyped' /\ Prepared'
    BY <1>1 DEF StoreInv, StoreTyped, Prepared, Whole, Complete, Interrupt, machine, process
  <1> QED
    BY <1>2, ScriptKeeps DEF StoreInv, Interrupt

\* A service that starts has all its parts before it.
LEMMA StartKeeps == ASSUME StoreInv, Start PROVE StoreInv'
  <1>1. Parts[service] \in Seq(Models) /\ Parts[service] # <<>>
    BY Lists DEF StoreInv, StoreTyped
  <1>2. UNCHANGED <<content, todo, full, service>>
    BY DEF Start, store, machine
  <1>3. StoreTyped'
    BY <1>1, <1>2 DEF StoreInv, StoreTyped, Start
  <1>4. Prepared'
    BY <1>2 DEF StoreInv, Prepared, Complete, Whole, Start
  <1>5. Progress'
    BY <1>1, <1>2 DEF Progress, Start
  <1>6. Secure'
    BY DEF Secure, Start
  <1> QED
    BY <1>3, <1>4, <1>5, <1>6 DEF StoreInv

\* Steps of a service that leave the store and the machine as they are.
LEMMA StoreStands ==
  ASSUME StoreInv, UNCHANGED <<store, machine, safe>>, loading' \in Seq(Models)
  PROVE  StoreTyped' /\ Prepared' /\ Device' = Device /\ LacksItsDevice' = LacksItsDevice
  BY DEF StoreInv, StoreTyped, Prepared, Complete, Whole, Device, LacksItsDevice, store, machine

\* A safe service finds what it looks for.
LEMMA LookKeeps == ASSUME StoreInv, Look PROVE StoreInv'
  <1> DEFINE m == Head(loading)
  <1>1. /\ state = "starting" /\ UNCHANGED <<store, machine, safe>>
        /\ m \in {"siglip", "splade", "det", "florence", "cat"}
    BY DEF Look, LookForSiglip, LookForSplade, LookForPaddle, LookForFlorence, LookForCat, Looking
  <1>2. m \in Listed(Parts[service])
    BY <1>1, HeadAndTail DEF StoreInv, StoreTyped, Progress
  <1>3. safe => content[m] = (IF m \in {"splade", "cat"} THEN "onnx" ELSE "weights")
    BY <1>2, SafeParts DEF StoreInv, Complete
  <1>4. safe /\ m = "det" => \A d \in {"det", "layout", "vl"} : content[d] = "weights"
    <2> SUFFICES ASSUME safe, m = "det", NEW d \in {"det", "layout", "vl"} PROVE content[d] = "weights"
      OBVIOUS
    <2>1. d \in Listed(Parts[service])
      BY <1>2, Lists DEF StoreInv, StoreTyped
    <2> QED
      BY <2>1, SafeParts DEF StoreInv, Complete
  <1>5. CASE Raise /\ ~safe
    <2>1. loading' \in Seq(Models)
      BY <1>5 DEF Raise
    <2>2. StoreTyped' /\ Prepared' /\ Device' = Device /\ LacksItsDevice' = LacksItsDevice
      BY <1>1, <2>1, StoreStands
    <2>3. Progress' /\ Secure'
      BY <1>1, <1>5, <2>2 DEF StoreInv, Progress, Secure, Raise
    <2> QED
      BY <2>2, <2>3 DEF StoreInv
  <1>6. ASSUME NEW r, Take(r), safe => (r = "ort" <=> m \in Listed(Exports)) PROVE StoreInv'
    <2>1. loading' \in Seq(Models)
      BY <1>6 DEF Take, StoreInv, StoreTyped
    <2>2. StoreTyped' /\ Prepared' /\ Device' = Device /\ service' = service /\ LacksItsDevice' = LacksItsDevice
      BY <1>1, <2>1, StoreStands DEF machine
    <2>3. Progress'
      BY <1>6, <2>2 DEF StoreInv, Progress, Take
    <2>4. Secure'
      BY <1>1, <1>6 DEF Secure, Take
    <2> QED
      BY <2>2, <2>3, <2>4 DEF StoreInv
  <1>7. safe => ~Raise
    BY <1>1, <1>3, <1>4 DEF Models, Look, LookForSiglip, LookForSplade, LookForPaddle, LookForFlorence, LookForCat, Looking, Raise, Take
  <1>8. PICK r : Raise \/ (Take(r) /\ (safe => (r = "ort" <=> m \in {"splade", "cat"})))
    <2>1. CASE LookForSiglip \/ LookForPaddle \/ LookForFlorence
      BY <1>3, <2>1 DEF LookForSiglip, LookForPaddle, LookForFlorence, Looking, Models
    <2>2. CASE LookForSplade
      BY <1>3, <2>2 DEF LookForSplade, Looking, Models, HasOnnx
    <2>3. CASE LookForCat
      BY <1>3, <2>3 DEF LookForCat, Looking, Models, HasOnnx
    <2> QED
      BY <2>1, <2>2, <2>3 DEF Look
  <1> QED
    BY <1>5, <1>6, <1>7, <1>8, Lists

\* A safe service that loads a model finds it complete, and fails for the device.
LEMMA LoadKeeps == ASSUME StoreInv, Load PROVE StoreInv'
  <1> DEFINE m == Head(loading)
             runtime == IF service = "ocr" THEN "paddle" ELSE IF route = "ort" THEN "ort" ELSE "torch"
             new == {[model |-> m, runtime |-> runtime, device |-> d] : d \in DeviceOf(runtime)}
  <1>1. /\ state = "starting" /\ route # "look" /\ loading # <<>> /\ loading \in Seq(Models)
        /\ service \in DOMAIN Parts
        /\ UNCHANGED <<store, machine, safe>>
    BY DEF Load, StoreInv, StoreTyped, Progress
  <1>2. /\ m \in Models /\ Tail(loading) \in Seq(Models)
        /\ Listed(loading) = {m} \cup Listed(Tail(loading))
    BY <1>1, HeadAndTail
  <1>3. CASE Raise
    <2>1. loading' \in Seq(Models)
      BY <1>3 DEF Raise
    <2>2. StoreTyped' /\ Prepared' /\ Device' = Device /\ LacksItsDevice' = LacksItsDevice
      BY <1>1, <2>1, StoreStands
    <2>3. Progress'
      BY <1>3, <2>2 DEF StoreInv, Progress, Raise
    <2>4. ASSUME safe PROVE LacksItsDevice
      <3>1. m \in Listed(Parts[service]) /\ (route = "ort" <=> m \in {"splade", "cat"})
        BY <1>1, <1>2, <2>4, Lists DEF StoreInv, Progress, Secure
      <3>2. Complete(m)
        BY <2>4, <3>1, SafeParts DEF StoreInv
      <3>3. service = "ocr" => route # "ort"
        BY <3>1, Lists
      <3>4. DeviceOf(runtime) = {}
        BY <1>3, <3>1, <3>2, <3>3 DEF Load, Raise, Complete
      <3>5. Device = "cuda" /\ ~HasCuda(runtime)
        BY <3>4 DEF DeviceOf
      <3> QED
        BY <1>1, <3>1, <3>5, Lists DEF LacksItsDevice, HasCuda
    <2>5. Secure'
      BY <1>1, <1>3, <2>2, <2>4 DEF Secure, Raise, machine
    <2> QED
      BY <2>2, <2>3, <2>5 DEF StoreInv
  <1>4. CASE /\ DeviceOf(runtime) # {} /\ loading' = Tail(loading) /\ runsOn' = runsOn \cup new
             /\ state' = IF Tail(loading) = <<>> THEN "serving" ELSE "starting"
             /\ route' = IF service = "ocr" THEN route ELSE "look"
    <2>1. StoreTyped' /\ Prepared' /\ Device' = Device /\ service' = service /\ LacksItsDevice' = LacksItsDevice
      BY <1>1, <1>2, <1>4, StoreStands DEF machine
    <2>2. DeviceOf(runtime) = {Device}
      BY <1>4 DEF DeviceOf
    <2>3. {p.model : p \in new} = {m} /\ \A p \in new : p.device = Device
      <3>1. \A p : p \in new <=> p = [model |-> m, runtime |-> runtime, device |-> Device]
        BY <2>2
      <3> HIDE DEF new, m, runtime
      <3>2. \A p \in new : p.model = m /\ p.device = Device
        BY <3>1
      <3>3. new # {}
        BY <3>1
      <3> QED
        BY <3>2, <3>3
    <2> HIDE DEF new, m
    <2>4. {p.model : p \in runsOn'} \cup Listed(loading') = Listed(Parts[service])
      BY <1>1, <1>2, <1>4, <2>3 DEF StoreInv, Progress
    <2>5. Progress'
      BY <1>4, <2>1, <2>3, <2>4 DEF StoreInv, Progress
    <2>6. Secure'
      <3> SUFFICES ASSUME safe', state' = "starting", route' # "look"
                   PROVE  route' = "ort" <=> Head(loading') \in Listed(Exports)
        BY <1>4 DEF Secure
      <3>1. service = "ocr" /\ route' = route /\ safe /\ Tail(loading) # <<>>
        BY <1>1, <1>4
      <3>2. Listed(loading) \cap Listed(Exports) = {}
        BY <1>1, <3>1, Lists DEF StoreInv, Progress
      <3>3. Head(Tail(loading)) \in Listed(Tail(loading))
        BY <1>2, <3>1, HeadAndTail
      <3>4. m \notin Listed(Exports) /\ Head(loading') \notin Listed(Exports)
        BY <1>2, <1>4, <3>2, <3>3
      <3>5. route # "ort"
        BY <1>1, <3>1, <3>4 DEF StoreInv, Secure, m
      <3> QED
        BY <3>1, <3>4, <3>5
    <2> QED
      BY <2>1, <2>5, <2>6 DEF StoreInv
  <1> QED
    BY <1>3, <1>4 DEF Load

\* Every step keeps the invariant.
LEMMA NextStoreInv == StoreInv /\ [StoreNext]_storeVars => StoreInv'
  <1> SUFFICES ASSUME StoreInv, [StoreNext]_storeVars PROVE StoreInv'
    OBVIOUS
  <1>1. CASE UNCHANGED storeVars
    BY <1>1 DEF storeVars, store, machine, process, StoreInv, StoreTyped, Prepared, Complete,
                Whole, Progress, Secure, LacksItsDevice, Device
  <1> QED
    BY <1>1, PrepareKeeps, WorkKeeps, InterruptKeeps, StartKeeps, LookKeeps, LoadKeeps DEF StoreNext

\* An undisturbed run of the script with all parts leaves every model complete, a
\* service whose parts are and stay complete starts or lacks a device, and one
\* that serves has all its parts on its device.
THEOREM StoreStartsAsAsked == StoreSpec => []StartsAsAsked
  <1>1. StoreInv => StartsAsAsked
    <2> SUFFICES ASSUME StoreInv PROVE StartsAsAsked
      OBVIOUS
    <2>1. state = "failed" /\ safe => LacksItsDevice
      BY DEF StoreInv, Secure
    <2>2. FullyPrepared => \A m \in Models : Complete(m)
      BY Lists DEF StoreInv, Prepared, FullyPrepared
    <2>3. state = "serving" => {p.model : p \in runsOn} = {Parts[service][n] : n \in DOMAIN Parts[service]}
      <3> SUFFICES ASSUME state = "serving" PROVE {p.model : p \in runsOn} = Listed(Parts[service])
        BY DEF Listed
      <3>1. {p.model : p \in runsOn} \cup Listed(loading) = Listed(Parts[service]) /\ loading = <<>>
        BY DEF StoreInv, Progress
      <3> QED
        BY <3>1, Lists
    <2>4. \A p \in runsOn : device \in {"auto", p.device}
      BY DEF StoreInv, Progress, Device
    <2> QED
      BY <2>1, <2>2, <2>3, <2>4 DEF StartsAsAsked
  <1> QED
    BY <1>1, InitStoreInv, NextStoreInv, PTL DEF StoreSpec
===============================================================================
