----------------------------- MODULE ArtifactStore -----------------------------
(* The artifact store: files and an index that names them, read back as the  *)
(* checkpoints of a task.                                                    *)
(*                                                                           *)
(* A store keeps the index in memory, loads it once, and writes all of it    *)
(* after each artifact: to a temporary file, which then replaces the index.  *)
(* It dies between any two of these steps.  An artifact is [id, kind, task,  *)
(* at]; what is in it is left out.                                           *)
EXTENDS Naturals, Sequences, FiniteSetsExt

CONSTANTS
  Stores,        \* processes with a store over the same directory
  Tasks, None,
  MayMisread,    \* may the index be unreadable when a store opens
  MaxArtifacts,  \* bound on the artifacts added
  MaxCrashes,    \* bound on the processes that die
  MaxTime        \* bound on the clock

Kinds == {"workflow_checkpoint", "evidence"}
Artifacts == [id : Nat, kind : Kinds, task : Tasks, at : Nat]

ASSUME StoreAssumption ==
  /\ None \notin Nat /\ None \notin Artifacts /\ None \notin Seq(Artifacts)
  /\ MayMisread \in BOOLEAN
  /\ MaxArtifacts \in Nat /\ MaxCrashes \in Nat /\ MaxTime \in Nat

VARIABLES
  files,     \* ids of the artifact files in the directory
  index,     \* content of index.json; <<>> when there is none
  tmp,       \* content of index.json.tmp, or None
  mem,       \* index in the memory of each store
  pc,        \* step of each store
  cur,       \* artifact each store is adding
  clock, crashes, made,
  stored,    \* ids of the artifacts whose addition has returned
  answer,    \* checkpoint the last recovery chose
  shared     \* have two stores been open at once, or an index been misread;
             \* history, read by properties only

vars == <<files, index, tmp, mem, pc, cur, clock, crashes, made, stored, answer,
          shared>>

Init ==
  /\ files = {} /\ index = <<>> /\ tmp = None
  /\ mem = [p \in Stores |-> <<>>]
  /\ pc = [p \in Stores |-> "down"]
  /\ cur = [p \in Stores |-> None]
  /\ clock = 0 /\ crashes = 0 /\ made = 0
  /\ stored = {} /\ answer = None /\ shared = FALSE

Step(p, from, to) == pc[p] = from /\ pc' = [pc EXCEPT ![p] = to]

(* Loading the index.  When it cannot be read the store starts empty.        *)
Open(p) ==
  /\ Step(p, "down", "idle")
  /\ \/ mem' = [mem EXCEPT ![p] = index]
     \/ MayMisread /\ mem' = [mem EXCEPT ![p] = <<>>]
  /\ shared' = (shared \/ mem'[p] # index \/ \E q \in Stores : pc[q] # "down")
  /\ answer' = None
  /\ UNCHANGED <<files, index, tmp, cur, clock, crashes, made, stored>>

Tick ==
  /\ clock < MaxTime /\ clock' = clock + 1
  /\ UNCHANGED <<files, index, tmp, mem, pc, cur, crashes, made, stored, answer,
                 shared>>

(* Adding an artifact: its file, then its record with the time, then the     *)
(* index.                                                                    *)
(* Faulty: the file is written when the index names it already.              *)
WriteFileLate(p) ==
  /\ made < MaxArtifacts
  /\ Step(p, "idle", "register")
  /\ made' = made + 1
  /\ \E kind \in Kinds, task \in Tasks :
       cur' = [cur EXCEPT ![p] =
                 [id |-> made', kind |-> kind, task |-> task, at |-> clock]]
  /\ UNCHANGED <<files, index, tmp, mem, clock, crashes, stored, answer>>

WriteFile(p) ==
  /\ made < MaxArtifacts
  /\ Step(p, "idle", "register")
  /\ made' = made + 1 /\ files' = files \cup {made'}
  /\ \E kind \in Kinds, task \in Tasks :
       cur' = [cur EXCEPT ![p] =
                 [id |-> made', kind |-> kind, task |-> task, at |-> clock]]
  /\ UNCHANGED <<index, tmp, mem, clock, crashes, stored, answer>>

Register(p) ==
  /\ Step(p, "register", "replace")
  /\ LET artifact == [cur[p] EXCEPT !.at = clock] IN
       /\ mem' = [mem EXCEPT ![p] = Append(@, artifact)]
       /\ tmp' = Append(mem[p], artifact)
  /\ UNCHANGED <<files, index, cur, clock, crashes, made, stored, answer>>

Replace(p) ==
  /\ tmp # None
  /\ Step(p, "replace", "idle")
  /\ index' = tmp /\ tmp' = None
  /\ stored' = stored \cup {cur[p].id}
  /\ cur' = [cur EXCEPT ![p] = None]
  /\ UNCHANGED <<files, mem, clock, crashes, made, answer>>

(* Another store has already taken the temporary file: the addition raises,  *)
(* and its process with it.                                                  *)
ReplaceFails(p) ==
  /\ tmp = None
  /\ Step(p, "replace", "down")
  /\ mem' = [mem EXCEPT ![p] = <<>>] /\ cur' = [cur EXCEPT ![p] = None]
  /\ UNCHANGED <<files, index, tmp, clock, crashes, made, stored, answer>>

Crash(p) ==
  /\ crashes < MaxCrashes /\ pc[p] # "down"
  /\ crashes' = crashes + 1
  /\ pc' = [pc EXCEPT ![p] = "down"]
  /\ mem' = [mem EXCEPT ![p] = <<>>] /\ cur' = [cur EXCEPT ![p] = None]
  /\ UNCHANGED <<files, index, tmp, clock, made, stored, answer>>

(* Recovery: the checkpoints of a task, sorted by time, and of those that    *)
(* were made at the same time in the order of the index; the last one.       *)
Checkpoints(p, task) ==
  {i \in DOMAIN mem[p] : /\ mem[p][i].kind = "workflow_checkpoint"
                         /\ mem[p][i].task = task}

Newest(p, task) ==
  {i \in Checkpoints(p, task) :
     \A j \in Checkpoints(p, task) : mem[p][j].at <= mem[p][i].at}

(* Faulty: of the checkpoints of the same time the first is taken.           *)
LatestUnstable(p, task) ==
  IF Checkpoints(p, task) = {} THEN None ELSE mem[p][Min(Newest(p, task))].id

LatestCheckpoint(p, task) ==
  IF Checkpoints(p, task) = {} THEN None ELSE mem[p][Max(Newest(p, task))].id

Recover(p, task) ==
  /\ pc[p] = "idle"
  /\ answer' = LatestCheckpoint(p, task)
  /\ UNCHANGED <<files, index, tmp, mem, pc, cur, clock, crashes, made, stored>>

Store(p) ==
  \/ Open(p)
  \/ /\ \/ WriteFile(p) \/ Register(p) \/ Replace(p) \/ ReplaceFails(p) \/ Crash(p)
        \/ \E task \in Tasks : Recover(p, task)
     /\ UNCHANGED shared

Next == Tick \/ \E p \in Stores : Store(p)

Spec == Init /\ [][Next]_vars

-----------------------------------------------------------------------------
(* The types of the variables.                                               *)
TypeOK ==
  /\ index \in Seq(Artifacts) /\ (tmp # None => tmp \in Seq(Artifacts))
  /\ mem \in [Stores -> Seq(Artifacts)]
  /\ pc \in [Stores -> {"down", "idle", "register", "replace"}]
  /\ cur \in [Stores -> Artifacts \union {None}]
  /\ made \in Nat /\ clock \in Nat /\ crashes \in Nat

(* The index never names a file that is not there, wherever a process dies   *)
(* and whoever else writes: list_checkpoints reads every file that is named  *)
(* and recovery fails altogether if one is missing.                          *)
IndexedHasFile == \A i \in 1..Len(index) : index[i].id \in files

(* As long as the stores over the directory come one after the other and     *)
(* read the index there is, they implement a log of checkpoints: recording   *)
(* is atomic, a crash loses no checkpoint whose addition returned, and       *)
(* recovery reads the newest one, even of those with the same time.          *)
Entries ==
  [i \in DOMAIN index |->
     [id |-> index[i].id, kind |-> index[i].kind, task |-> index[i].task]]
Log == INSTANCE CheckpointLog WITH log <- Entries, Ids <- 1..MaxArtifacts
ImplementsLog == Log!Init /\ [][~shared' => Log!Next]_(Log!vars)

(* artifacts/__init__.py: "each runtime fact is persisted as a file plus an  *)
(* index record" - what was stored stays in the index.                       *)
StoredIsIndexed == stored \subseteq {index[i].id : i \in 1..Len(index)}
=============================================================================
