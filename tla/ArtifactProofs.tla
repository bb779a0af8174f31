---------------------------- MODULE ArtifactProofs ----------------------------
(* The artifact store, for any number of stores over one directory, and any  *)
(* number of artifacts and crashes.                                          *)
EXTENDS ArtifactStore, WellFoundedInduction, TLAPS

(* Every record of a list names an artifact whose file is there.             *)
Filed(list) == \A i \in 1 .. Len(list) : list[i].id \in files

(* What a store is about to index is filed; so is what the memory of a store *)
(* and the temporary file hold, from which the index is made.                *)
FiledInv ==
  /\ TypeOK
  /\ Filed(index) /\ (tmp # None => Filed(tmp))
  /\ \A p \in Stores :
       /\ Filed(mem[p])
       /\ pc[p] = "register" => cur[p] # None /\ cur[p].id \in files

(* A list that is filed stays filed when one filed record is added.          *)
LEMMA AppendFiled ==
  ASSUME NEW list \in Seq(Artifacts), Filed(list),
         NEW artifact \in Artifacts, artifact.id \in files
  PROVE  Append(list, artifact) \in Seq(Artifacts)
         /\ Filed(Append(list, artifact))
<1>1. /\ Append(list, artifact) \in Seq(Artifacts)
      /\ Len(Append(list, artifact)) = Len(list) + 1
  OBVIOUS
<1>2. \A i \in 1 .. Len(list) + 1 :
        Append(list, artifact)[i] = IF i = Len(list) + 1 THEN artifact
                                    ELSE list[i]
  OBVIOUS
<1> QED
  BY <1>1, <1>2 DEF Filed

LEMMA EmptyFiled == <<>> \in Seq(Artifacts) /\ Filed(<<>>)
  BY DEF Filed

LEMMA FiledStarts == ASSUME Init PROVE FiledInv
  BY EmptyFiled DEF Init, FiledInv, TypeOK

(* The steps that write a file, a record or the index; the others only drop  *)
(* or load what is filed.                                                    *)
LEMMA FiledKept == ASSUME FiledInv, [Next]_vars PROVE FiledInv'
<1>1. CASE UNCHANGED vars \/ Tick
  BY <1>1, StoreAssumption DEF vars, Tick, FiledInv, TypeOK, Filed
<1>2. ASSUME NEW p \in Stores, Open(p) PROVE FiledInv'
  <2>1. PICK list \in {index, <<>>} :
          /\ mem' = [mem EXCEPT ![p] = list]
          /\ pc' = [pc EXCEPT ![p] = "idle"]
          /\ UNCHANGED <<files, index, tmp, cur, made, clock,
                       crashes>>
    BY <1>2 DEF Open, Step
  <2>2. list \in Seq(Artifacts) /\ Filed(list)
    BY EmptyFiled DEF FiledInv, TypeOK
  <2> QED
    BY <2>1, <2>2 DEF FiledInv, TypeOK, Filed
<1>3. ASSUME NEW p \in Stores, WriteFile(p) PROVE FiledInv'
  <2>1. PICK kind \in Kinds, task \in Tasks :
          cur' = [cur EXCEPT ![p] = [id |-> made', kind |-> kind,
                                     task |-> task, at |-> clock]]
    BY <1>3 DEF WriteFile
  <2>2. /\ made' = made + 1 /\ files' = files \union {made'}
        /\ pc' = [pc EXCEPT ![p] = "register"]
        /\ UNCHANGED <<index, tmp, mem, clock, crashes>>
    BY <1>3 DEF WriteFile, Step
  <2> DEFINE artifact == [id |-> made', kind |-> kind, task |-> task,
                          at |-> clock]
  <2>3. artifact \in Artifacts /\ artifact.id \in files'
    BY <2>2 DEF Artifacts, FiledInv, TypeOK
  <2>4. artifact # None
    BY <2>3, StoreAssumption
  <2>5. \A list : Filed(list) => Filed(list)'
    BY <2>2 DEF Filed
  <2> QED
    BY <2>1, <2>2, <2>3, <2>4 DEF FiledInv, TypeOK, Filed
<1>4. ASSUME NEW p \in Stores, Register(p) PROVE FiledInv'
  <2> DEFINE artifact == [cur[p] EXCEPT !.at = clock]
  <2>1. /\ mem' = [mem EXCEPT ![p] = Append(mem[p], artifact)]
        /\ tmp' = Append(mem[p], artifact)
        /\ pc' = [pc EXCEPT ![p] = "replace"] /\ pc[p] = "register"
        /\ UNCHANGED <<files, index, cur, clock, made, crashes>>
    BY <1>4 DEF Register, Step, FiledInv, TypeOK
  <2>2. cur[p] \in Artifacts /\ cur[p].id \in files
    BY <2>1 DEF FiledInv, TypeOK
  <2>3. artifact \in Artifacts /\ artifact.id \in files
    BY <2>2 DEF Artifacts, FiledInv, TypeOK
  <2>4. mem[p] \in Seq(Artifacts) /\ Filed(mem[p])
    BY DEF FiledInv, TypeOK
  <2>5. Append(mem[p], artifact) \in Seq(Artifacts)
          /\ Filed(Append(mem[p], artifact))
    BY <2>3, <2>4, AppendFiled
  <2> DEFINE list == Append(mem[p], artifact)
  <2>6. /\ mem' = [mem EXCEPT ![p] = list] /\ tmp' = list
        /\ list \in Seq(Artifacts)
        /\ \A i \in 1 .. Len(list) : list[i].id \in files
    BY <2>1, <2>5 DEF Filed
  <2> HIDE DEF list
  <2>7. /\ mem' \in [Stores -> Seq(Artifacts)]
        /\ \A q \in Stores : mem'[q] = IF q = p THEN list ELSE mem[q]
    BY <2>6 DEF FiledInv, TypeOK
  <2>8. tmp' # None => tmp' \in Seq(Artifacts) /\ Filed(tmp)'
    BY <2>1, <2>6 DEF Filed
  <2>9. \A q \in Stores : Filed(mem[q])'
    BY <2>1, <2>6, <2>7 DEF FiledInv, TypeOK, Filed
  <2>10. /\ pc' \in [Stores -> {"down", "idle", "register", "replace"}]
         /\ \A q \in Stores : pc'[q] = "register" => pc[q] = "register"
    BY <2>1 DEF FiledInv, TypeOK
  <2>11. Filed(index)'
    BY <2>1 DEF FiledInv, TypeOK, Filed
  <2> QED
    BY <2>1, <2>7, <2>8, <2>9, <2>10, <2>11 DEF FiledInv, TypeOK
<1>5. ASSUME NEW p \in Stores, Replace(p) PROVE FiledInv'
  <2>1. /\ tmp # None /\ index' = tmp /\ tmp' = None
        /\ pc' = [pc EXCEPT ![p] = "idle"]
        /\ cur' = [cur EXCEPT ![p] = None]
        /\ UNCHANGED <<files, mem, clock, made, crashes>>
    BY <1>5 DEF Replace, Step
  <2>2. index' \in Seq(Artifacts) /\ Filed(index)'
    BY <2>1 DEF FiledInv, TypeOK, Filed
  <2>3. \A q \in Stores :
          /\ Filed(mem[q])'
          /\ pc'[q] = "register" => cur'[q] # None /\ cur'[q].id \in files'
    BY <2>1 DEF FiledInv, TypeOK, Filed
  <2> QED
    BY <2>1, <2>2, <2>3 DEF FiledInv, TypeOK
<1>6. ASSUME NEW p \in Stores, ReplaceFails(p) \/ Crash(p) PROVE FiledInv'
  <2>1. /\ pc' = [pc EXCEPT ![p] = "down"]
        /\ mem' = [mem EXCEPT ![p] = <<>>]
        /\ cur' = [cur EXCEPT ![p] = None]
        /\ UNCHANGED <<files, index, tmp, clock, made>>
        /\ crashes' \in {crashes, crashes + 1}
    BY <1>6 DEF ReplaceFails, Crash, Step
  <2>2. mem' \in [Stores -> Seq(Artifacts)]
    BY <2>1, EmptyFiled DEF FiledInv, TypeOK
  <2>3. \A q \in Stores : Filed(mem[q])'
    BY <2>1, EmptyFiled DEF FiledInv, TypeOK, Filed
  <2>4. \A q \in Stores :
          pc'[q] = "register" => cur'[q] # None /\ cur'[q].id \in files'
    BY <2>1 DEF FiledInv, TypeOK
  <2>5. Filed(index)' /\ (tmp' # None => tmp' \in Seq(Artifacts) /\ Filed(tmp)')
    BY <2>1 DEF FiledInv, TypeOK, Filed
  <2> QED
    BY <2>1, <2>2, <2>3, <2>4, <2>5 DEF FiledInv, TypeOK
<1>7. ASSUME NEW p \in Stores, NEW task \in Tasks, Recover(p, task)
      PROVE  FiledInv'
  BY <1>7 DEF Recover, FiledInv, TypeOK, Filed
<1> QED
  BY <1>1, <1>2, <1>3, <1>4, <1>5, <1>6, <1>7 DEF Next, Store

(* The store's variables keep their types.                                   *)
THEOREM TypesKept == Spec => []TypeOK
<1>1. FiledInv => TypeOK
  BY DEF FiledInv
<1> QED
  BY FiledStarts, FiledKept, <1>1, PTL DEF Spec

(* Recovery finds the file of every artifact that the index names, however   *)
(* many stores write it and wherever they die.                               *)
THEOREM IndexedFilesExist == Spec => []IndexedHasFile
<1>1. FiledInv => IndexedHasFile
  BY DEF FiledInv, TypeOK, Filed, IndexedHasFile
<1> QED
  BY FiledStarts, FiledKept, <1>1, PTL DEF Spec

-----------------------------------------------------------------------------
(* One store at a time: the directory as a log of checkpoints.               *)
(* A record that may come behind those of the index: it is no older.         *)
MayFollow(artifact) ==
  /\ artifact \in Artifacts
  /\ artifact.id \in 1 .. MaxArtifacts
  /\ artifact.at <= clock
  /\ \A i \in DOMAIN index : index[i].at <= artifact.at

(* The index is in the order of time.  The one store that is open holds what *)
(* the index says, until it is about to replace it by one record more.       *)
SoleInv ==
  /\ \A i, j \in DOMAIN index : i < j => index[i].at <= index[j].at
  /\ \A i \in DOMAIN index : index[i].at <= clock
  /\ \A p, q \in Stores : pc[p] # "down" /\ pc[q] # "down" => p = q
  /\ \A p \in Stores :
       /\ pc[p] \in {"idle", "register"} => mem[p] = index
       /\ pc[p] = "register" => cur[p] # None /\ cur[p].id \in 1 .. MaxArtifacts
       /\ pc[p] = "replace" => \E artifact \in Artifacts :
                                 /\ MayFollow(artifact)
                                 /\ tmp = Append(index, artifact)
                                 /\ mem[p] = tmp

LogInv == made <= MaxArtifacts /\ (~shared => SoleInv)

(* Before any store is open there is nothing out of step.                    *)
LEMMA SoleStarts == ASSUME Init PROVE LogInv
  BY StoreAssumption DEF Init, LogInv, SoleInv

(* An artifact is registered under the time of its registration.             *)
LEMMA Restamped ==
  ASSUME NEW record \in Artifacts, NEW now \in Nat
  PROVE  /\ [record EXCEPT !.at = now] \in Artifacts
         /\ [record EXCEPT !.at = now].id = record.id
         /\ [record EXCEPT !.at = now].at = now
  BY DEF Artifacts

(* Each step of the only open store keeps its memory in step with the index. *)
LEMMA SoleKept ==
  ASSUME FiledInv, made <= MaxArtifacts, SoleInv, [Next]_vars, ~shared'
  PROVE  SoleInv'
<1>0. /\ index \in Seq(Artifacts) /\ clock \in Nat /\ made \in Nat
      /\ mem \in [Stores -> Seq(Artifacts)] /\ MaxArtifacts \in Nat
      /\ pc \in [Stores -> {"down", "idle", "register", "replace"}]
      /\ cur \in [Stores -> Artifacts \union {None}]
  BY StoreAssumption DEF FiledInv, TypeOK
<1>a. \A i \in DOMAIN index : index[i] \in Artifacts
  BY <1>0
<1>b. \A i \in DOMAIN index : index[i].at \in Nat
  BY <1>a DEF Artifacts
<1>1. CASE UNCHANGED vars
  BY <1>1 DEF vars, SoleInv, MayFollow
<1>2. CASE Tick
  <2>1. clock' = clock + 1 /\ UNCHANGED <<index, tmp, mem, pc, cur>>
    BY <1>2 DEF Tick
  <2>2. \A artifact : MayFollow(artifact) => MayFollow(artifact)'
    BY <1>0, <1>b, <2>1 DEF MayFollow, Artifacts
  <2>. QED  BY <1>0, <1>b, <2>1, <2>2 DEF SoleInv
<1>3. ASSUME NEW p \in Stores, Open(p) PROVE SoleInv'
  <2>1. /\ pc[p] = "down" /\ pc' = [pc EXCEPT ![p] = "idle"]
        /\ UNCHANGED <<index, tmp, cur, clock>>
        /\ mem'[p] = index /\ \A q \in Stores : pc[q] = "down"
        /\ \A q \in Stores \ {p} : mem'[q] = mem[q]
    BY <1>0, <1>3 DEF Open, Step
  <2>. QED  BY <1>0, <2>1 DEF SoleInv, MayFollow
<1>4. ASSUME NEW p \in Stores, WriteFile(p) PROVE SoleInv'
  <2>1. PICK kind \in Kinds, task \in Tasks :
          cur' = [cur EXCEPT ![p] = [id |-> made', kind |-> kind,
                                     task |-> task, at |-> clock]]
    BY <1>4 DEF WriteFile
  <2>2. /\ made' = made + 1 /\ made < MaxArtifacts
        /\ pc[p] = "idle" /\ pc' = [pc EXCEPT ![p] = "register"]
        /\ UNCHANGED <<index, tmp, mem, clock>>
    BY <1>4 DEF WriteFile, Step
  <2>3. cur'[p] \in Artifacts /\ cur'[p].id = made + 1 /\ cur'[p] # None
    BY <1>0, <2>1, <2>2, StoreAssumption DEF Artifacts
  <2>4. \A q \in Stores \ {p} : pc'[q] = "down"
    BY <1>0, <2>2 DEF SoleInv
  <2>. QED  BY <1>0, <2>2, <2>3, <2>4 DEF SoleInv, MayFollow
<1>5. ASSUME NEW p \in Stores, Register(p) PROVE SoleInv'
  <2>1. /\ mem' = [mem EXCEPT ![p] = Append(@, [cur[p] EXCEPT !.at = clock])]
        /\ tmp' = Append(mem[p], [cur[p] EXCEPT !.at = clock])
        /\ pc[p] = "register" /\ pc' = [pc EXCEPT ![p] = "replace"]
        /\ UNCHANGED <<index, cur, clock>>
    BY <1>5 DEF Register, Step
  <2>2. /\ cur[p] \in Artifacts /\ cur[p].id \in 1 .. MaxArtifacts
        /\ mem[p] = index
    BY <1>0, <2>1 DEF SoleInv
  <2>3. PICK artifact \in Artifacts :
          /\ artifact = [cur[p] EXCEPT !.at = clock]
          /\ artifact.id = cur[p].id /\ artifact.at = clock
    <3>1. clock \in Nat
      BY <1>0
    <3>. QED  BY <2>2, <3>1, Restamped
  <2>4. mem'[p] = Append(index, artifact) /\ tmp' = Append(index, artifact)
    BY <1>0, <2>1, <2>2, <2>3
  <2>5. MayFollow(artifact)'
    BY <1>0, <1>b, <2>1, <2>2, <2>3 DEF MayFollow, SoleInv
  <2>6. \A q \in Stores \ {p} : pc'[q] = "down"
    BY <1>0, <2>1 DEF SoleInv
  <2>7. /\ \A i, j \in DOMAIN index' : i < j => index'[i].at <= index'[j].at
        /\ \A i \in DOMAIN index' : index'[i].at <= clock'
    BY <2>1 DEF SoleInv
  <2>8. pc'[p] = "replace"
    BY <1>0, <2>1
  <2>9. \E a \in Artifacts : MayFollow(a)' /\ tmp' = Append(index', a)
                             /\ mem'[p] = tmp'
    BY <2>1, <2>3, <2>4, <2>5
  <2>. QED  BY <2>6, <2>7, <2>8, <2>9 DEF SoleInv
<1>6. ASSUME NEW p \in Stores, Replace(p) PROVE SoleInv'
  <2>1. /\ pc[p] = "replace" /\ pc' = [pc EXCEPT ![p] = "idle"]
        /\ index' = tmp /\ UNCHANGED <<mem, clock>>
    BY <1>6 DEF Replace, Step
  <2>2. PICK artifact \in Artifacts : /\ MayFollow(artifact)
                                      /\ tmp = Append(index, artifact)
                                      /\ mem[p] = tmp
    BY <2>1 DEF SoleInv
  <2>3. /\ DOMAIN index' = 1 .. Len(index) + 1
        /\ \A i \in DOMAIN index' :
             index'[i] = IF i = Len(index) + 1 THEN artifact ELSE index[i]
    BY <1>0, <2>1, <2>2
  <2>4. artifact.at \in Nat /\ artifact.at <= clock
    BY <2>2 DEF MayFollow, Artifacts
  <2>5. /\ \A i, j \in DOMAIN index' : i < j => index'[i].at <= index'[j].at
        /\ \A i \in DOMAIN index' : index'[i].at <= clock'
    BY <1>0, <1>b, <2>1, <2>2, <2>3, <2>4 DEF SoleInv, MayFollow
  <2>6. \A q \in Stores \ {p} : pc'[q] = "down"
    BY <1>0, <2>1 DEF SoleInv
  <2>. QED  BY <1>0, <2>1, <2>2, <2>5, <2>6 DEF SoleInv
<1>7. ASSUME NEW p \in Stores, ReplaceFails(p) \/ Crash(p) PROVE SoleInv'
  <2>1. /\ pc' = [pc EXCEPT ![p] = "down"] /\ pc[p] # "down"
        /\ UNCHANGED <<index, tmp, clock>>
    BY <1>7 DEF ReplaceFails, Crash, Step
  <2>2. \A q \in Stores : pc'[q] = "down"
    BY <1>0, <2>1 DEF SoleInv
  <2>. QED  BY <2>1, <2>2 DEF SoleInv
<1>8. ASSUME NEW p \in Stores, NEW task \in Tasks, Recover(p, task)
      PROVE  SoleInv'
  BY <1>8 DEF Recover, SoleInv, MayFollow
<1>. QED
  BY <1>1, <1>2, <1>3, <1>4, <1>5, <1>6, <1>7, <1>8 DEF Next, Store

(* Two stores that were open at once, or a misread index, stay on record.    *)
LEMMA SharedStays == ASSUME [Next]_vars, ~shared' PROVE ~shared
  BY DEF Next, vars, Tick, Store, Open

(* The artifacts are numbered up to the bound.                               *)
LEMMA NumbersKept ==
  ASSUME FiledInv, made <= MaxArtifacts, [Next]_vars
  PROVE  (made <= MaxArtifacts)'
<1>0. made \in Nat /\ MaxArtifacts \in Nat
  BY StoreAssumption DEF FiledInv, TypeOK
<1>1. CASE UNCHANGED made
  BY <1>1
<1>2. ASSUME NEW p \in Stores, WriteFile(p) PROVE made' <= MaxArtifacts
  BY <1>0, <1>2 DEF WriteFile
<1>3. (\E p \in Stores : WriteFile(p)) \/ UNCHANGED made
  BY DEF Next, vars, Tick, Store, Open, Register, Replace, ReplaceFails, Crash,
         Recover
<1>. QED  BY <1>1, <1>2, <1>3

(* So it is in every run, until two stores have been open at once.           *)
LEMMA LogInvHolds == Spec => [](FiledInv /\ LogInv)
<1>1. FiledInv /\ LogInv /\ [Next]_vars => (FiledInv /\ LogInv)'
  BY FiledKept, SoleKept, SharedStays, NumbersKept DEF LogInv
<1>. QED  BY <1>1, FiledStarts, SoleStarts, PTL DEF Spec

(* The last of some positions is one of them, because numbers are            *)
(* well-founded.                                                             *)
LEMMA LastIn ==
  ASSUME NEW n \in Nat, NEW positions \in SUBSET (1 .. n), positions # {}
  PROVE  /\ Max(positions) \in positions
         /\ \A i \in positions : i <= Max(positions)
<1>. DEFINE fromEnd == {k \in Nat : \E i \in positions : i + k = n}
<1>1. fromEnd \subseteq Nat /\ fromEnd # {}
  <2>1. PICK i \in positions : i \in 1 .. n
    OBVIOUS
  <2>2. n - i \in Nat /\ i + (n - i) = n
    BY <2>1
  <2>. QED  BY <2>2
<1>. HIDE DEF fromEnd
<1>2. PICK x \in fromEnd : \A y \in fromEnd : ~ (<<y, x>> \in OpToRel(<, Nat))
  BY <1>1, WFMin, NatLessThanWellFounded
<1>3. \A y \in fromEnd : x <= y
  <2>. SUFFICES ASSUME NEW y \in fromEnd PROVE x <= y
    OBVIOUS
  <2>1. x \in Nat /\ y \in Nat
    BY <1>1
  <2>2. ~ (<<y, x>> \in {ss \in Nat \X Nat : ss[1] < ss[2]})
    BY <1>2 DEF OpToRel
  <2>. QED  BY <2>1, <2>2
<1>4. PICK last \in positions : last + x = n
  BY <1>2 DEF fromEnd
<1>5. \A i \in positions : last >= i
  <2>. SUFFICES ASSUME NEW i \in positions PROVE last >= i
    OBVIOUS
  <2>1. i \in 1 .. n /\ last \in 1 .. n
    OBVIOUS
  <2>2. n - i \in Nat /\ i + (n - i) = n
    BY <2>1
  <2>3. n - i \in fromEnd
    BY <2>2 DEF fromEnd
  <2>4. x <= n - i /\ x \in Nat
    BY <1>1, <1>2, <1>3, <2>3
  <2>. QED  BY <1>4, <2>1, <2>4
<1>6. Max(positions) \in positions /\ \A i \in positions : Max(positions) >= i
  BY <1>4, <1>5 DEF Max
<1>. QED  BY <1>6

(* Because the index is in the order of time, the newest checkpoint of a     *)
(* task, and of those of one instant the last, is the last of the log.       *)
LEMMA NewestIsLast ==
  ASSUME FiledInv, SoleInv, NEW p \in Stores, pc[p] = "idle", NEW task,
         Checkpoints(p, task) # {}
  PROVE  Max(Newest(p, task)) = Max(Checkpoints(p, task))
<1>. DEFINE found == Checkpoints(p, task)
            newest == Newest(p, task)
<1>0. /\ index \in Seq(Artifacts) /\ mem[p] = index
      /\ \A i \in DOMAIN index : index[i].at \in Nat
  <2>1. index \in Seq(Artifacts)
    BY DEF FiledInv, TypeOK
  <2>2. mem[p] = index
    BY DEF SoleInv
  <2>3. \A i \in DOMAIN index : index[i] \in Artifacts
    BY <2>1
  <2>4. \A i \in DOMAIN index : index[i].at \in Nat
    BY <2>3 DEF Artifacts
  <2>. QED  BY <2>1, <2>2, <2>4
<1>1. found \in SUBSET (1 .. Len(index)) /\ Len(index) \in Nat
  BY <1>0 DEF Checkpoints
<1>2. Max(found) \in found /\ \A i \in found : i <= Max(found)
  BY <1>1, LastIn
<1>3. Max(found) \in newest
  <2>1. \A i \in found : index[i].at <= index[Max(found)].at
    BY <1>0, <1>1, <1>2 DEF SoleInv
  <2>. QED  BY <1>0, <1>2, <2>1 DEF Newest
<1>4. newest \subseteq found
  BY DEF Newest
<1>. HIDE DEF found, newest
<1>5. Max(newest) \in newest /\ \A i \in newest : i <= Max(newest)
  BY <1>1, <1>3, <1>4, LastIn
<1>6. Max(newest) <= Max(found) /\ Max(found) <= Max(newest)
  BY <1>2, <1>3, <1>4, <1>5
<1>7. Max(newest) \in Nat /\ Max(found) \in Nat
  <2>1. Max(newest) \in 1 .. Len(index) /\ Max(found) \in 1 .. Len(index)
    BY <1>1, <1>2, <1>4, <1>5
  <2>. QED  BY <1>1, <2>1
<1>8. Max(newest) = Max(found)
  BY <1>6, <1>7
<1>. QED  BY <1>8 DEF newest, found

(* A function on the first numbers is a sequence of that length.             *)
LEMMA IsSequence ==
  ASSUME NEW S, NEW n \in Nat, NEW f \in [1 .. n -> S]
  PROVE  f \in Seq(S) /\ Len(f) = n
  OBVIOUS

(* Replacing the index records one artifact.                                 *)
LEMMA ReplaceRecords ==
  ASSUME FiledInv, SoleInv, NEW p \in Stores, Replace(p)
  PROVE  Log!Next
<1>0. index \in Seq(Artifacts)
  BY DEF FiledInv, TypeOK
<1>1. pc[p] = "replace" /\ index' = tmp /\ UNCHANGED answer
  BY DEF Replace, Step
<1>2. PICK artifact \in Artifacts :
        MayFollow(artifact) /\ tmp = Append(index, artifact)
  BY <1>1 DEF SoleInv
<1>. DEFINE entry == [id |-> artifact.id, kind |-> artifact.kind,
                      task |-> artifact.task]
<1>3. entry \in [id : 1 .. MaxArtifacts, kind : Kinds, task : Tasks]
  BY <1>2 DEF MayFollow, Artifacts
<1>4. /\ DOMAIN index' = 1 .. Len(index) + 1 /\ DOMAIN index = 1 .. Len(index)
      /\ Len(index) \in Nat
      /\ \A i \in DOMAIN index' :
           index'[i] = IF i = Len(index) + 1 THEN artifact ELSE index[i]
  BY <1>0, <1>1, <1>2
<1>5. /\ Entries \in Seq([id : Nat, kind : Kinds, task : Tasks])
      /\ Len(Entries) = Len(index)
  <2>1. \A i \in DOMAIN index : index[i] \in Artifacts
    BY <1>0
  <2>2. \A i \in DOMAIN index :
          /\ index[i].id \in Nat /\ index[i].kind \in Kinds
          /\ index[i].task \in Tasks
    BY <2>1 DEF Artifacts
  <2>3. Entries \in [1 .. Len(index) -> [id : Nat, kind : Kinds, task : Tasks]]
    BY <1>4, <2>2 DEF Entries
  <2>. QED  BY <1>4, <2>3, IsSequence
<1>6. Entries' = Append(Entries, entry)
  <2>1. Entries' = [i \in 1 .. Len(index) + 1 |->
                      IF i = Len(index) + 1 THEN entry ELSE Entries[i]]
    BY <1>4 DEF Entries
  <2>2. Append(Entries, entry)
          = [i \in 1 .. Len(Entries) + 1 |->
               IF i = Len(Entries) + 1 THEN entry ELSE Entries[i]]
    BY <1>5
  <2>. QED  BY <1>5, <2>1, <2>2
<1>. HIDE DEF entry
<1>. QED  BY <1>1, <1>3, <1>6 DEF Log!Next, Log!Record

(* A recovery reads the last checkpoint of its task.                         *)
LEMMA RecoverReadsLast ==
  ASSUME FiledInv, SoleInv, NEW p \in Stores, NEW task \in Tasks,
         Recover(p, task)
  PROVE  Log!Next
<1>0. pc[p] = "idle" /\ mem[p] = index
  BY DEF Recover, SoleInv
<1>1. Log!CheckpointsOf(task) = Checkpoints(p, task)
  BY <1>0 DEF Log!CheckpointsOf, Checkpoints, Entries
<1>2. \A S : Log!Max(S) = Max(S)
  BY DEF Log!Max, Max
<1>3. UNCHANGED Entries
  BY DEF Recover, Entries
<1>4. answer' = IF Log!CheckpointsOf(task) = {} THEN None
                ELSE Entries[Log!Max(Log!CheckpointsOf(task))].id
  <2>1. CASE Checkpoints(p, task) = {}
    BY <1>1, <2>1 DEF Recover, LatestCheckpoint
  <2>2. CASE Checkpoints(p, task) # {}
    <3>. DEFINE last == Max(Checkpoints(p, task))
    <3>1. last \in DOMAIN index
      <4>1. /\ Checkpoints(p, task) \in SUBSET (1 .. Len(index))
            /\ Len(index) \in Nat
        BY <1>0 DEF Checkpoints, FiledInv, TypeOK
      <4>2. last \in Checkpoints(p, task)
        BY <2>2, <4>1, LastIn
      <4>. QED  BY <1>0, <4>2 DEF Checkpoints
    <3>2. answer' = index[last].id
      BY <1>0, <2>2, NewestIsLast DEF Recover, LatestCheckpoint
    <3>3. Entries[last].id = index[last].id
      BY <3>1 DEF Entries
    <3>. QED  BY <1>1, <1>2, <2>2, <3>2, <3>3
  <2>. QED  BY <2>1, <2>2
<1>. QED  BY <1>3, <1>4 DEF Log!Next, Log!Recover

(* As long as one store at a time writes the directory and reads its index,  *)
(* it implements a log of checkpoints.                                       *)
THEOREM LogImplemented == Spec => ImplementsLog
<1>1. Init => Log!Init
  BY DEF Init, Log!Init, Entries
<1>2. FiledInv /\ LogInv /\ [Next]_vars
        => [~shared' => Log!Next]_(Log!vars)
  <2>. SUFFICES ASSUME FiledInv, LogInv, [Next]_vars, ~shared'
                PROVE  Log!Next \/ UNCHANGED Log!vars
    OBVIOUS
  <2>0. SoleInv
    BY SharedStays DEF LogInv
  <2>1. CASE UNCHANGED <<index, answer>>
    BY <2>1 DEF Log!vars, Entries
  <2>2. ASSUME NEW p \in Stores, Open(p) PROVE Log!Next
    BY <2>2 DEF Open, Log!Next, Log!Forget, Entries
  <2>3. ASSUME NEW p \in Stores, Replace(p) PROVE Log!Next
    BY <2>0, <2>3, ReplaceRecords
  <2>4. ASSUME NEW p \in Stores, NEW task \in Tasks, Recover(p, task)
        PROVE  Log!Next
    BY <2>0, <2>4, RecoverReadsLast
  <2>5. \/ UNCHANGED <<index, answer>>
        \/ \E p \in Stores : Open(p) \/ Replace(p)
                               \/ \E task \in Tasks : Recover(p, task)
    BY DEF Next, vars, Tick, Store, WriteFile, Register, ReplaceFails, Crash
  <2>. QED  BY <2>1, <2>2, <2>3, <2>4, <2>5
<1>. QED  BY <1>1, <1>2, LogInvHolds, PTL DEF Spec, ImplementsLog
=============================================================================
