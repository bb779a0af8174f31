---------------------------- MODULE CockpitProofs -----------------------------
(* The cockpit, for any conversations and any bounds on the runs, the        *)
(* workers in flight, the messages not handled yet and the artifacts.        *)
EXTENDS Cockpit, SequenceTheorems, TLAPS

Results == {"finished", "failed"}
Chats == {"load", "send"}

(* Workers and messages are entries of a sequence, told apart by their kind. *)
Has(s, K) == \E i \in 1 .. Len(s) : s[i].kind \in K
Once(s, K) == \A i, j \in 1 .. Len(s) :
                s[i].kind \in K /\ s[j].kind \in K => i = j

Rest == {"transport", "error", "list", "load", "send"}
Workers == [kind : {"run", "list", "load", "send"}, conv : Convs \cup {None}]

(* An event names a file, any other message a run or nothing.                *)
Messages ==
  [kind : Results \cup Rest, conv : Convs \cup {None}, about : Nat] \cup
  [kind : {"event"}, conv : {None}, about : Nat \X Nat]

-----------------------------------------------------------------------------
(* What the operations on such a sequence do to the kinds it holds.          *)

LEMMA AppendKinds ==
  ASSUME NEW S, NEW s \in Seq(S), NEW e \in S, NEW K
  PROVE  /\ Has(Append(s, e), K) <=> Has(s, K) \/ e.kind \in K
         /\ Once(s, K) /\ ~(Has(s, K) /\ e.kind \in K) => Once(Append(s, e), K)
<1> DEFINE t == Append(s, e)
<1>1. /\ Len(s) \in Nat /\ Len(t) = Len(s) + 1
      /\ \A i \in 1 .. Len(s) : t[i] = s[i]
      /\ t[Len(s) + 1] = e
  BY AppendProperties, LenProperties
<1> HIDE DEF t
<1>2. /\ \A i \in 1 .. Len(s) : i \in 1 .. Len(t) /\ t[i] = s[i]
      /\ Len(s) + 1 \in 1 .. Len(t)
      /\ \A i \in 1 .. Len(t) : i \in 1 .. Len(s) \/ i = Len(s) + 1
  BY <1>1
<1>3. Has(t, K) <=> Has(s, K) \/ e.kind \in K
  BY <1>1, <1>2 DEF Has
<1>4. Once(s, K) /\ ~(Has(s, K) /\ e.kind \in K) => Once(t, K)
  BY <1>1, <1>2 DEF Has, Once
<1> QED BY <1>3, <1>4 DEF t

LEMMA TailKinds ==
  ASSUME NEW S, NEW s \in Seq(S), s # <<>>, NEW K
  PROVE  /\ Has(s, K) <=> Head(s).kind \in K \/ Has(Tail(s), K)
         /\ Once(s, K) => /\ Once(Tail(s), K)
                          /\ ~(Head(s).kind \in K /\ Has(Tail(s), K))
<1> DEFINE t == Tail(s)
<1>1. /\ Len(s) \in Nat \ {0} /\ Len(t) = Len(s) - 1
      /\ \A i \in 1 .. Len(t) : t[i] = s[i + 1]
      /\ Head(s) = s[1]
  BY HeadTailProperties, LenProperties, EmptySeq
<1> HIDE DEF t
<1>2. /\ \A i \in 1 .. Len(t) : i + 1 \in 1 .. Len(s) /\ i + 1 # 1
      /\ 1 \in 1 .. Len(s)
      /\ \A i \in 1 .. Len(s) :
           i = 1 \/ (i - 1 \in 1 .. Len(t) /\ s[i] = t[i - 1])
  BY <1>1
<1>3. Has(s, K) <=> Head(s).kind \in K \/ Has(t, K)
  BY <1>1, <1>2 DEF Has
<1>4. Once(s, K) => Once(t, K)
  BY <1>1, <1>2 DEF Once
<1>5. Once(s, K) => ~(Head(s).kind \in K /\ Has(t, K))
  BY <1>1, <1>2 DEF Has, Once
<1> QED BY <1>3, <1>4, <1>5 DEF t

LEMMA RemoveAtEntries ==
  ASSUME NEW S, NEW s \in Seq(S), NEW i \in 1 .. Len(s)
  PROVE  /\ RemoveAt(s, i) \in Seq(S)
         /\ Len(RemoveAt(s, i)) = Len(s) - 1
         /\ \A j \in 1 .. Len(s) - 1 :
              RemoveAt(s, i)[j] = IF j < i THEN s[j] ELSE s[j + 1]
<1> DEFINE p == SubSeq(s, 1, i - 1)
           q == SubSeq(s, i + 1, Len(s))
<1>1. Len(s) \in Nat /\ \A j \in 1 .. Len(s) : s[j] \in S
  BY LenProperties, ElementOfSeq
<1>2. /\ p \in Seq(S) /\ Len(p) = i - 1
      /\ \A j \in 1 .. i - 1 : p[j] = s[j]
  <2>1. 1 \in Int /\ i - 1 \in Int /\ \A j \in 1 .. i - 1 : s[j] \in S
    BY <1>1
  <2>2. /\ p \in Seq(S) /\ Len(p) = IF 1 <= i - 1 THEN (i - 1) - 1 + 1 ELSE 0
        /\ \A j \in 1 .. (i - 1) - 1 + 1 : p[j] = s[1 + j - 1]
    BY <2>1, SubSeqProperties
  <2> HIDE DEF p
  <2> QED BY <1>1, <2>2
<1>3. /\ q \in Seq(S) /\ Len(q) = Len(s) - i
      /\ \A j \in 1 .. Len(s) - i : q[j] = s[i + j]
  <2>1. i + 1 \in Int /\ Len(s) \in Int /\ \A j \in i + 1 .. Len(s) : s[j] \in S
    BY <1>1
  <2>2. /\ q \in Seq(S)
        /\ Len(q) = IF i + 1 <= Len(s) THEN Len(s) - (i + 1) + 1 ELSE 0
        /\ \A j \in 1 .. Len(s) - (i + 1) + 1 : q[j] = s[(i + 1) + j - 1]
    BY <2>1, SubSeqProperties
  <2> HIDE DEF q
  <2> QED BY <1>1, <2>2
<1> HIDE DEF p, q
<1>4. /\ p \o q \in Seq(S) /\ Len(p \o q) = Len(p) + Len(q)
      /\ \A j \in 1 .. Len(p) + Len(q) :
           (p \o q)[j] = IF j <= Len(p) THEN p[j] ELSE q[j - Len(p)]
  BY <1>2, <1>3, ConcatProperties
<1>5. RemoveAt(s, i) = p \o q
  BY DEF RemoveAt, p, q
<1> DEFINE r == p \o q
<1> HIDE DEF r
<1>6. Len(r) = Len(s) - 1
  BY <1>1, <1>2, <1>3, <1>4 DEF r
<1>7. ASSUME NEW j \in 1 .. Len(s) - 1
      PROVE  r[j] = IF j < i THEN s[j] ELSE s[j + 1]
  <2>1. CASE j < i
    BY <2>1, <1>1, <1>2, <1>3, <1>4 DEF r
  <2>2. CASE ~(j < i)
    <3>1. j - Len(p) \in 1 .. Len(s) - i /\ i + (j - Len(p)) = j + 1
      BY <2>2, <1>1, <1>2
    <3>2. r[j] = q[j - Len(p)]
      BY <2>2, <1>1, <1>2, <1>3, <1>4 DEF r
    <3> QED BY <2>2, <3>1, <3>2, <1>3
  <2> QED BY <2>1, <2>2
<1> QED BY <1>4, <1>5, <1>6, <1>7 DEF r

LEMMA RemoveAtKinds ==
  ASSUME NEW S, NEW s \in Seq(S), NEW i \in 1 .. Len(s), NEW K
  PROVE  /\ Has(s, K) <=> s[i].kind \in K \/ Has(RemoveAt(s, i), K)
         /\ Once(s, K) => /\ Once(RemoveAt(s, i), K)
                          /\ ~(s[i].kind \in K /\ Has(RemoveAt(s, i), K))
<1> DEFINE r == RemoveAt(s, i)
           Old(j) == IF j < i THEN j ELSE j + 1
           New(j) == IF j < i THEN j ELSE j - 1
<1>1. /\ Len(s) \in Nat /\ Len(r) = Len(s) - 1
      /\ \A j \in 1 .. Len(s) - 1 : r[j] = IF j < i THEN s[j] ELSE s[j + 1]
  BY RemoveAtEntries, LenProperties
<1> HIDE DEF r
<1>2. \A j \in 1 .. Len(r) :
        Old(j) \in 1 .. Len(s) /\ Old(j) # i /\ r[j] = s[Old(j)]
  BY <1>1
<1>3. \A j \in 1 .. Len(s) :
        j = i \/ (New(j) \in 1 .. Len(r) /\ r[New(j)] = s[j])
  BY <1>1
<1>4. \A j, k \in 1 .. Len(r) : Old(j) = Old(k) => j = k
  BY <1>1
<1> HIDE DEF Old, New
<1>5. Has(s, K) <=> s[i].kind \in K \/ Has(r, K)
  BY <1>2, <1>3 DEF Has
<1>6. Once(s, K) => Once(r, K)
  BY <1>2, <1>4 DEF Once
<1>7. Once(s, K) => ~(s[i].kind \in K /\ Has(r, K))
  BY <1>2 DEF Has, Once
<1> QED BY <1>5, <1>6, <1>7 DEF r

-----------------------------------------------------------------------------
(* What the operations of the cockpit do to its workers and its queue.       *)

Typed ==
  /\ running \in BOOLEAN /\ report \in Nat /\ runs \in Nat
  /\ selected \in Convs \cup {None} /\ current \in Convs \cup {None}
  /\ browser \subseteq Convs /\ files \subseteq Nat \X Nat
  /\ workers \in Seq(Workers) /\ queue \in Seq(Messages)

LEMMA StartsKinds ==
  ASSUME Typed, NEW w \in Workers, Starts(w), NEW K
  PROVE  /\ workers' \in Seq(Workers)
         /\ Has(workers', K) <=> Has(workers, K) \/ w.kind \in K
         /\ Once(workers, K) /\ ~(Has(workers, K) /\ w.kind \in K)
              => Once(workers', K)
BY AppendKinds, AppendProperties DEF Typed, Starts

LEMMA PostsKinds ==
  ASSUME Typed, NEW m \in Messages, Posts(m), NEW K
  PROVE  /\ queue' \in Seq(Messages)
         /\ Has(queue', K) <=> Has(queue, K) \/ m.kind \in K
         /\ Once(queue, K) /\ ~(Has(queue, K) /\ m.kind \in K)
              => Once(queue', K)
BY AppendKinds, AppendProperties DEF Typed, Posts

LEMMA EndsKinds ==
  ASSUME Typed, NEW i \in 1 .. Len(workers), Ends(i), NEW K
  PROVE  /\ workers' \in Seq(Workers) /\ workers[i] \in Workers
         /\ Has(workers, K) <=> workers[i].kind \in K \/ Has(workers', K)
         /\ Once(workers, K)
              => /\ Once(workers', K)
                 /\ ~(workers[i].kind \in K /\ Has(workers', K))
<1>1. workers \in Seq(Workers) /\ workers' = RemoveAt(workers, i)
  BY DEF Typed, Ends
<1>2. workers' \in Seq(Workers) /\ workers[i] \in Workers
  BY <1>1, RemoveAtEntries, ElementOfSeq
<1> QED BY <1>1, <1>2, RemoveAtKinds

LEMMA HandlesKinds ==
  ASSUME Typed, NEW k, Handles(k), NEW K
  PROVE  /\ queue' \in Seq(Messages)
         /\ Head(queue) \in Messages /\ Head(queue).kind = k
         /\ Has(queue, K) <=> k \in K \/ Has(queue', K)
         /\ Once(queue, K) => Once(queue', K) /\ ~(k \in K /\ Has(queue', K))
BY TailKinds, HeadTailProperties DEF Typed, Handles

(* A worker or a message built by its constructor is one of the set.         *)
LEMMA WorkerTyped ==
  ASSUME NEW kind \in {"run", "list", "load", "send"}, NEW conv \in Convs \cup {None}
  PROVE  Worker(kind, conv) \in Workers /\ Worker(kind, conv).kind = kind
BY DEF Worker, Workers

LEMMA MessageTyped ==
  ASSUME NEW kind \in Results \cup Rest, NEW conv \in Convs \cup {None},
         NEW about \in Nat
  PROVE  /\ Message(kind, conv, about) \in Messages
         /\ Message(kind, conv, about).kind = kind
         /\ Message(kind, conv, about).about = about
BY DEF Message, Messages

LEMMA ErrorTyped ==
  Message("error", None, 0) \in Messages /\ Message("error", None, 0).kind = "error"
BY DEF Message, Messages, Rest

LEMMA TransportTyped ==
  ASSUME NEW conv \in Convs \cup {None}, NEW n \in Nat
  PROVE  /\ Message("transport", conv, n) \in Messages
         /\ Message("transport", conv, n).kind = "transport"
BY DEF Message, Messages, Rest

LEMMA ResultTyped ==
  ASSUME NEW how \in Results, NEW n \in Nat
  PROVE  /\ Message(how, None, n) \in Messages
         /\ Message(how, None, n).kind = how
         /\ Message(how, None, n).about = n
BY DEF Message, Messages

LEMMA EventTyped ==
  ASSUME NEW f \in Nat \X Nat
  PROVE  /\ Message("event", None, f) \in Messages
         /\ Message("event", None, f).kind = "event"
         /\ Message("event", None, f).about = f
BY DEF Message, Messages

(* The worker in the place i of the list is one of the list.                 *)
LEMMA WorkerAt ==
  ASSUME Typed, NEW i \in DOMAIN workers
  PROVE  /\ i \in 1 .. Len(workers) /\ workers[i] \in Workers
         /\ workers[i].kind \in {"run", "list", "load", "send"}
         /\ workers[i].conv \in Convs \cup {None}
<1>1. i \in 1 .. Len(workers) /\ workers[i] \in Workers
  BY ElementOfSeq, LenProperties DEF Typed
<1> QED BY <1>1 DEF Workers

(* The list of a run that just started holds its worker and nothing else.    *)
LEMMA AloneKinds ==
  /\ <<Worker("run", None)>> \in Seq(Workers)
  /\ Has(<<Worker("run", None)>>, {"run"})
  /\ ~Has(<<Worker("run", None)>>, Chats)
  /\ Once(<<Worker("run", None)>>, {"run"})
<1>1. Worker("run", None) \in Workers /\ Worker("run", None).kind = "run"
  BY WorkerTyped
<1> QED BY <1>1 DEF Has, Once, Chats

-----------------------------------------------------------------------------
LEMMA TypedInit == Init => Typed
<1> SUFFICES ASSUME Init PROVE Typed
  OBVIOUS
<1>1. Worker("list", None) \in Workers
  BY WorkerTyped
<1>2. workers \in Seq(Workers) /\ queue \in Seq(Messages)
  BY <1>1 DEF Init
<1> QED BY <1>2 DEF Init, Typed

LEMMA TypedStep == Typed /\ [Next]_vars => Typed'
<1> SUFFICES ASSUME Typed, [Next]_vars PROVE Typed'
  OBVIOUS
<1> USE DEF run, panes, evidence, place
<1>1. CASE UNCHANGED vars
  BY <1>1 DEF vars, Typed
<1>2. CASE User
  <2>1. CASE PressRun
    <3>1. workers' \in Seq(Workers)
      BY <2>1, AloneKinds DEF PressRun
    <3> QED BY <2>1, <3>1 DEF PressRun, Typed
  <2>2. CASE PressReset
    <3>1. Worker("list", None) \in Workers
      BY WorkerTyped
    <3>2. workers' \in Seq(Workers)
      BY <2>2, <3>1, StartsKinds DEF PressReset
    <3> QED BY <2>2, <3>2 DEF PressReset, Forget, Typed
  <2>3. CASE PressRefresh
    <3>1. Worker("list", None) \in Workers
      BY WorkerTyped
    <3>2. workers' \in Seq(Workers)
      BY <2>3, <3>1, StartsKinds DEF PressRefresh
    <3> QED BY <2>3, <3>2 DEF PressRefresh, Typed
  <2>4. CASE PressLoad
    <3>1. Worker("load", selected) \in Workers
      BY WorkerTyped DEF Typed
    <3>2. workers' \in Seq(Workers)
      BY <2>4, <3>1, StartsKinds DEF PressLoad
    <3> QED BY <2>4, <3>2 DEF PressLoad, Typed
  <2>5. CASE UseCurrent
    <3>1. Worker("load", current) \in Workers
      BY WorkerTyped DEF Typed
    <3>2. workers' \in Seq(Workers)
      BY <2>5, <3>1, StartsKinds DEF UseCurrent
    <3> QED BY <2>5, <3>2 DEF UseCurrent, Typed
  <2>6. CASE Type
    BY <2>6 DEF Type, Typed
  <2>7. CASE PressSend
    <3>1. Worker("send", selected) \in Workers
      BY WorkerTyped DEF Typed
    <3>2. workers' \in Seq(Workers)
      BY <2>7, <3>1, StartsKinds DEF PressSend
    <3> QED BY <2>7, <3>2 DEF PressSend, Typed
  <2>8. ASSUME NEW conv \in Convs, Select(conv) PROVE Typed'
    <3>1. Worker("load", conv) \in Workers
      BY WorkerTyped
    <3>2. workers' \in Seq(Workers)
      BY <2>8, <3>1, StartsKinds DEF Select
    <3> QED BY <2>8, <3>2 DEF Select, Typed
  <2>9. ASSUME NEW entered \in Dirs, EditDir(entered) PROVE Typed'
    BY <2>9 DEF EditDir, Typed
  <2> QED BY <1>2, <2>1, <2>2, <2>3, <2>4, <2>5, <2>6, <2>7, <2>8, <2>9 DEF User
<1>3. CASE Work
  <2>1. CASE RunBreaks
    BY <2>1 DEF RunBreaks, Typed
  <2>2. CASE RunWrites
    <3>1. PICK i \in DOMAIN workers, n \in 1 .. MaxFiles : RunWrites!(i, n)
      BY <2>2 DEF RunWrites
    <3>2. <<runs, n>> \in Nat \X Nat
      BY DEF Typed
    <3>3. Message("event", None, <<runs, n>>) \in Messages
      BY <3>2, EventTyped
    <3>4. queue' \in Seq(Messages)
      BY <3>1, <3>3, PostsKinds
    <3> QED BY <3>1, <3>2, <3>4 DEF Typed
  <2>3. CASE RunTalks
    <3>1. PICK i \in DOMAIN workers, conv \in Convs : RunTalks!(i, conv)
      BY <2>3 DEF RunTalks
    <3>2. Message("transport", conv, runs) \in Messages
      BY TransportTyped DEF Typed
    <3>3. queue' \in Seq(Messages)
      BY <3>1, <3>2, PostsKinds
    <3> QED BY <3>1, <3>3 DEF Typed
  <2>4. CASE RunEnds
    <3>1. PICK i \in DOMAIN workers, how \in Results : RunEnds!(i, how)
      BY <2>4 DEF RunEnds, Results
    <3>2. Message(how, None, runs) \in Messages
      BY ResultTyped DEF Typed
    <3>3. queue' \in Seq(Messages) /\ workers' \in Seq(Workers)
      BY <3>1, <3>2, PostsKinds, EndsKinds, WorkerAt
    <3> QED BY <3>1, <3>3 DEF Typed
  <2>5. CASE WorkerAnswers
    <3>1. PICK i \in DOMAIN workers : WorkerAnswers!(i)
      BY <2>5 DEF WorkerAnswers
    <3>2. workers[i].kind \in Rest
      BY <3>1 DEF Answered, ChatWork, Rest
    <3>3. Message(workers[i].kind, workers[i].conv, 0) \in Messages
      BY <3>2, WorkerAt, MessageTyped
    <3>4. queue' \in Seq(Messages) /\ workers' \in Seq(Workers)
      BY <3>1, <3>3, PostsKinds, EndsKinds, WorkerAt
    <3> QED BY <3>1, <3>4 DEF Typed
  <2>6. CASE WorkerFails
    <3>1. PICK i \in DOMAIN workers : WorkerFails!(i)
      BY <2>6 DEF WorkerFails
    <3>2. Message("error", None, 0) \in Messages
      BY ErrorTyped
    <3>3. queue' \in Seq(Messages) /\ workers' \in Seq(Workers)
      BY <3>1, <3>2, PostsKinds, EndsKinds, WorkerAt
    <3> QED BY <3>1, <3>3 DEF Typed
  <2>7. CASE SendTalks
    <3>1. PICK i \in DOMAIN workers : SendTalks!(i)
      BY <2>7 DEF SendTalks
    <3>2. Message("transport", workers[i].conv, 0) \in Messages
      BY WorkerAt, TransportTyped
    <3>3. queue' \in Seq(Messages)
      BY <3>1, <3>2, PostsKinds
    <3> QED BY <3>1, <3>3 DEF Typed
  <2> QED BY <1>3, <2>1, <2>2, <2>3, <2>4, <2>5, <2>6, <2>7 DEF Work
<1>4. CASE Handle
  <2>1. CASE OnEvent
    BY <2>1, HandlesKinds DEF OnEvent, Typed
  <2>2. CASE OnTransport
    <3>1. queue' \in Seq(Messages) /\ Head(queue) \in Messages
      BY <2>2, HandlesKinds DEF OnTransport
    <3>2. Head(queue).conv \in Convs \cup {None}
      BY <3>1 DEF Messages
    <3> QED BY <2>2, <3>1, <3>2 DEF OnTransport, Typed
  <2>3. CASE OnFinished
    <3>1. /\ queue' \in Seq(Messages) /\ Head(queue) \in Messages
          /\ Head(queue).kind = "finished"
      BY <2>3, HandlesKinds DEF OnFinished
    <3>2. Head(queue).about \in Nat
      BY <3>1 DEF Messages, Results
    <3> QED BY <2>3, <3>1, <3>2 DEF OnFinished, Typed
  <2>4. CASE OnFailed
    BY <2>4, HandlesKinds DEF OnFailed, Typed
  <2>5. CASE OnError
    BY <2>5, HandlesKinds DEF OnError, Typed
  <2>6. CASE OnList
    BY <2>6, HandlesKinds DEF OnList, Typed
  <2>7. CASE OnLoaded
    <3>1. queue' \in Seq(Messages) /\ Head(queue) \in Messages
      BY <2>7, HandlesKinds DEF OnLoaded
    <3>2. Head(queue).conv \in Convs \cup {None}
      BY <3>1 DEF Messages
    <3> QED BY <2>7, <3>1, <3>2 DEF OnLoaded, Typed
  <2>8. CASE OnSent
    <3>1. queue' \in Seq(Messages) /\ Head(queue) \in Messages
      BY <2>8, HandlesKinds DEF OnSent
    <3>2. Head(queue).conv \in Convs \cup {None}
      BY <3>1 DEF Messages
    <3> QED BY <2>8, <3>1, <3>2 DEF OnSent, Typed
  <2> QED BY <1>4, <2>1, <2>2, <2>3, <2>4, <2>5, <2>6, <2>7, <2>8 DEF Handle
<1> QED BY <1>1, <1>2, <1>3, <1>4 DEF Next

-----------------------------------------------------------------------------
(* One run at a time.                                                        *)

InFlight == Has(workers, {"run"})
Ready == Has(queue, Results)

(* A run is running while its worker is in flight or its result waits, not   *)
(* both, and there is one worker and one result of it.                       *)
OneRun ==
  /\ running <=> InFlight \/ Ready
  /\ ~(InFlight /\ Ready)
  /\ Once(workers, {"run"}) /\ Once(queue, Results)

LEMMA OneRunInit == Init => OneRun
<1> SUFFICES ASSUME Init PROVE OneRun
  OBVIOUS
<1>1. Worker("list", None).kind = "list"
  BY WorkerTyped
<1>2. ~InFlight /\ ~Ready /\ Once(workers, {"run"}) /\ Once(queue, Results)
  BY <1>1 DEF Init, InFlight, Ready, Has, Once
<1> QED BY <1>2 DEF Init, OneRun

(* A worker of another kind that starts leaves the run as it is.             *)
LEMMA StartsBeside ==
  ASSUME Typed, OneRun, NEW w \in Workers, Starts(w), w.kind # "run",
         UNCHANGED <<running, queue>>
  PROVE  OneRun'
<1>1. /\ InFlight' <=> InFlight
      /\ Once(workers', {"run"})
  BY StartsKinds DEF InFlight, OneRun
<1> QED BY <1>1 DEF OneRun, Ready

(* So does a message that is no result.                                      *)
LEMMA PostsBeside ==
  ASSUME Typed, OneRun, NEW m \in Messages, Posts(m), m.kind \notin Results,
         UNCHANGED <<running, workers>>
  PROVE  OneRun'
<1>1. /\ Ready' <=> Ready
      /\ Once(queue', Results)
  BY PostsKinds DEF Ready, OneRun
<1> QED BY <1>1 DEF OneRun, InFlight

(* So does handling one.                                                     *)
LEMMA HandlesBeside ==
  ASSUME Typed, OneRun, NEW k, Handles(k), k \notin Results,
         UNCHANGED <<running, workers>>
  PROVE  OneRun'
<1>1. /\ Ready' <=> Ready
      /\ Once(queue', Results)
  BY HandlesKinds DEF Ready, OneRun
<1> QED BY <1>1 DEF OneRun, InFlight

(* So does a worker of another kind that ends with such a message.           *)
LEMMA EndsBeside ==
  ASSUME Typed, OneRun, NEW i \in DOMAIN workers, Answered(i), Ends(i),
         NEW m \in Messages, Posts(m), m.kind \notin Results,
         UNCHANGED running
  PROVE  OneRun'
<1>1. /\ Ready' <=> Ready
      /\ Once(queue', Results)
  BY PostsKinds DEF Ready, OneRun
<1>2. i \in 1 .. Len(workers) /\ workers[i].kind # "run"
  BY WorkerAt DEF Answered, ChatWork
<1>3. /\ InFlight' <=> InFlight
      /\ Once(workers', {"run"})
  BY <1>2, EndsKinds DEF InFlight, OneRun
<1> QED BY <1>1, <1>3 DEF OneRun

(* When a result is handled the run is over.                                 *)
LEMMA HandlesResult ==
  ASSUME Typed, OneRun, NEW k \in Results, Handles(k)
  PROVE  Ready /\ ~InFlight /\ ~Ready' /\ Once(queue', Results)
BY HandlesKinds DEF Ready, OneRun

LEMMA OneRunStep == Typed /\ OneRun /\ [Next]_vars => OneRun'
<1> SUFFICES ASSUME Typed, OneRun, [Next]_vars PROVE OneRun'
  OBVIOUS
<1> USE DEF run, panes, evidence, place
<1>1. CASE UNCHANGED <<running, workers, queue>>
  BY <1>1 DEF OneRun, InFlight, Ready
<1>2. CASE User
  <2>1. CASE PressRun
    <3>1. ~Ready' /\ Once(queue', Results)
      BY <2>1 DEF PressRun, OneRun, Ready
    <3>2. InFlight' /\ Once(workers', {"run"})
      BY <2>1, AloneKinds DEF PressRun, InFlight
    <3> QED BY <2>1, <3>1, <3>2 DEF PressRun, OneRun
  <2>2. CASE PressReset
    BY <2>2, WorkerTyped, StartsBeside DEF PressReset
  <2>3. CASE PressRefresh
    BY <2>3, WorkerTyped, StartsBeside DEF PressRefresh
  <2>4. CASE PressLoad
    BY <2>4, WorkerTyped, StartsBeside DEF PressLoad, Typed
  <2>5. CASE UseCurrent
    BY <2>5, WorkerTyped, StartsBeside DEF UseCurrent, Typed
  <2>6. CASE Type
    BY <2>6, <1>1 DEF Type
  <2>7. CASE PressSend
    BY <2>7, WorkerTyped, StartsBeside DEF PressSend, Typed
  <2>8. ASSUME NEW conv \in Convs, Select(conv) PROVE OneRun'
    BY <2>8, WorkerTyped, StartsBeside DEF Select
  <2>9. ASSUME NEW entered \in Dirs, EditDir(entered) PROVE OneRun'
    BY <2>9, <1>1 DEF EditDir
  <2> QED BY <1>2, <2>1, <2>2, <2>3, <2>4, <2>5, <2>6, <2>7, <2>8, <2>9 DEF User
<1>3. CASE Work
  <2>1. CASE RunBreaks
    BY <2>1, <1>1 DEF RunBreaks
  <2>2. CASE RunWrites
    <3>1. PICK i \in DOMAIN workers, n \in 1 .. MaxFiles : RunWrites!(i, n)
      BY <2>2 DEF RunWrites
    <3>2. <<runs, n>> \in Nat \X Nat
      BY DEF Typed
    <3> QED BY <3>1, <3>2, EventTyped, PostsBeside DEF Results
  <2>3. CASE RunTalks
    <3>1. PICK i \in DOMAIN workers, conv \in Convs : RunTalks!(i, conv)
      BY <2>3 DEF RunTalks
    <3>2. /\ Message("transport", conv, runs) \in Messages
          /\ Message("transport", conv, runs).kind = "transport"
      BY TransportTyped DEF Typed
    <3> QED BY <3>1, <3>2, PostsBeside DEF Results
  <2>4. CASE RunEnds
    <3>1. PICK i \in DOMAIN workers, how \in Results : RunEnds!(i, how)
      BY <2>4 DEF RunEnds, Results
    <3>2. /\ Message(how, None, runs) \in Messages
          /\ Message(how, None, runs).kind = how
      BY ResultTyped DEF Typed
    <3>3. i \in 1 .. Len(workers) /\ workers[i].kind \in {"run"}
      BY <3>1, WorkerAt DEF Runs
    <3>4. InFlight /\ ~InFlight' /\ Once(workers', {"run"})
      BY <3>1, <3>3, EndsKinds DEF InFlight, OneRun
    <3>5. ~Ready
      BY <3>4 DEF OneRun
    <3>6. Ready' /\ Once(queue', Results)
      BY <3>1, <3>2, <3>5, PostsKinds DEF Ready, OneRun
    <3> QED BY <3>1, <3>4, <3>6 DEF OneRun
  <2>5. CASE WorkerAnswers
    <3>1. PICK i \in DOMAIN workers : WorkerAnswers!(i)
      BY <2>5 DEF WorkerAnswers
    <3>2. /\ workers[i].kind \in Rest \ Results
          /\ workers[i].conv \in Convs \cup {None}
      BY <3>1, WorkerAt DEF Answered, ChatWork, Rest, Results
    <3>3. /\ Message(workers[i].kind, workers[i].conv, 0) \in Messages
          /\ Message(workers[i].kind, workers[i].conv, 0).kind = workers[i].kind
      BY <3>2, MessageTyped
    <3> QED BY <3>1, <3>2, <3>3, EndsBeside
  <2>6. CASE WorkerFails
    <3>1. PICK i \in DOMAIN workers : WorkerFails!(i)
      BY <2>6 DEF WorkerFails
    <3>2. /\ Message("error", None, 0) \in Messages
          /\ Message("error", None, 0).kind = "error"
      BY ErrorTyped
    <3> QED BY <3>1, <3>2, EndsBeside DEF Results
  <2>7. CASE SendTalks
    <3>1. PICK i \in DOMAIN workers : SendTalks!(i)
      BY <2>7 DEF SendTalks
    <3>2. workers[i].conv \in Convs \cup {None}
      BY WorkerAt
    <3>3. /\ Message("transport", workers[i].conv, 0) \in Messages
          /\ Message("transport", workers[i].conv, 0).kind = "transport"
      BY <3>2, TransportTyped
    <3> QED BY <3>1, <3>3, PostsBeside DEF Results
  <2> QED BY <1>3, <2>1, <2>2, <2>3, <2>4, <2>5, <2>6, <2>7 DEF Work
<1>4. CASE Handle
  <2>1. CASE OnFinished
    <3>1. ~InFlight /\ ~Ready' /\ Once(queue', Results)
      BY <2>1, HandlesResult DEF OnFinished, Results
    <3> QED BY <2>1, <3>1 DEF OnFinished, OneRun, InFlight
  <2>2. CASE OnFailed
    <3>1. ~InFlight /\ ~Ready' /\ Once(queue', Results)
      BY <2>2, HandlesResult DEF OnFailed, Results
    <3> QED BY <2>2, <3>1 DEF OnFailed, OneRun, InFlight
  <2>3. CASE OnEvent
    BY <2>3, HandlesBeside DEF OnEvent, Results
  <2>4. CASE OnTransport
    BY <2>4, HandlesBeside DEF OnTransport, Results
  <2>5. CASE OnError
    BY <2>5, HandlesBeside DEF OnError, Results
  <2>6. CASE OnList
    BY <2>6, HandlesBeside DEF OnList, Results
  <2>7. CASE OnLoaded
    BY <2>7, HandlesBeside DEF OnLoaded, Results
  <2>8. CASE OnSent
    BY <2>8, HandlesBeside DEF OnSent, Results
  <2> QED BY <1>4, <2>1, <2>2, <2>3, <2>4, <2>5, <2>6, <2>7, <2>8 DEF Handle
<1> QED BY <1>1, <1>2, <1>3, <1>4 DEF Next, vars

(* The sequence operators of the model and those of the lemmas agree.        *)
LEMMA OneRunIsTrue == Typed /\ OneRun => RunningIsTrue
<1> SUFFICES ASSUME Typed, OneRun PROVE RunningIsTrue
  OBVIOUS
<1>1. /\ DOMAIN workers = 1 .. Len(workers)
      /\ DOMAIN queue = 1 .. Len(queue)
  BY LenProperties DEF Typed
<1>2. InFlight <=> RunInFlight
  BY <1>1 DEF InFlight, RunInFlight, Has
<1>3. Ready <=> ResultQueued
  BY <1>1 DEF Ready, ResultQueued, Has, Results
<1>4. \A i, j \in DOMAIN workers :
        workers[i].kind = "run" /\ workers[j].kind = "run" => i = j
  BY <1>1 DEF OneRun, Once
<1> QED BY <1>2, <1>3, <1>4 DEF OneRun, RunningIsTrue

(* The cockpit is busy exactly while its one run is in flight or the run's   *)
(* result waits to be handled: _start_run looks at the flag alone, and that  *)
(* is enough, whatever is reset, answered or handled in between.             *)
THEOREM BusyIsTrue == Spec => []RunningIsTrue
<1>1. Init => Typed /\ OneRun
  BY TypedInit, OneRunInit
<1>2. Typed /\ OneRun /\ [Next]_vars => (Typed /\ OneRun)'
  BY TypedStep, OneRunStep
<1> QED BY <1>1, <1>2, OneRunIsTrue, PTL DEF Spec

-----------------------------------------------------------------------------
(* The evidence of the run that is on the screen.                            *)

(* Every result that waits is one of run n.                                  *)
ResultsOf(q, n) ==
  \A i \in 1 .. Len(q) : q[i].kind \in Results => q[i].about = n

LEMMA PostsResults ==
  ASSUME Typed, ResultsOf(queue, runs), NEW m \in Messages, Posts(m),
         m.kind \in Results => m.about = runs
  PROVE  ResultsOf(queue', runs)
<1> DEFINE t == Append(queue, m)
<1>1. /\ Len(queue) \in Nat /\ Len(t) = Len(queue) + 1
      /\ \A i \in 1 .. Len(queue) : t[i] = queue[i]
      /\ t[Len(queue) + 1] = m
  BY AppendProperties, LenProperties DEF Typed
<1> HIDE DEF t
<1>2. ResultsOf(t, runs)
  BY <1>1 DEF ResultsOf
<1> QED BY <1>2 DEF Posts, t

LEMMA HandlesResults ==
  ASSUME Typed, ResultsOf(queue, runs), NEW k, Handles(k)
  PROVE  /\ ResultsOf(queue', runs)
         /\ k \in Results => Head(queue).about = runs
<1> DEFINE t == Tail(queue)
<1>1. /\ Len(queue) \in Nat \ {0} /\ Len(t) = Len(queue) - 1
      /\ \A i \in 1 .. Len(t) : t[i] = queue[i + 1]
      /\ Head(queue) = queue[1]
  BY HeadTailProperties, LenProperties, EmptySeq DEF Typed, Handles
<1> HIDE DEF t
<1>2. ResultsOf(t, runs)
  BY <1>1 DEF ResultsOf
<1>3. k \in Results => Head(queue).about = runs
  BY <1>1 DEF ResultsOf, Handles
<1> QED BY <1>2, <1>3 DEF Handles, t

(* An artifact is named by an event that waits to be handled, and the result *)
(* of the run comes after all of its events.                                 *)
NamedBy(q, f) == \E i \in 1 .. Len(q) : q[i].kind = "event" /\ q[i].about = f
ResultLast ==
  \A i, j \in 1 .. Len(queue) :
    queue[i].kind \in Results /\ i < j => queue[j].kind # "event"

LEMMA PostsOrder ==
  ASSUME Typed, ResultLast, NEW m \in Messages, Posts(m),
         m.kind = "event" => ~Ready
  PROVE  /\ ResultLast'
         /\ \A f : NamedBy(queue, f) => NamedBy(queue', f)
         /\ m.kind = "event" => NamedBy(queue', m.about)
<1>1. /\ Len(queue) \in Nat /\ Len(queue') = Len(queue) + 1
      /\ \A i \in 1 .. Len(queue) : queue'[i] = queue[i]
      /\ queue'[Len(queue) + 1] = m
  BY AppendProperties, LenProperties DEF Typed, Posts
<1>2. ResultLast'
  <2> SUFFICES ASSUME NEW i \in 1 .. Len(queue'), NEW j \in 1 .. Len(queue'),
                      queue'[i].kind \in Results, i < j
               PROVE  queue'[j].kind # "event"
    BY DEF ResultLast
  <2>1. i \in 1 .. Len(queue) /\ queue[i].kind \in Results
    BY <1>1
  <2>2. CASE j \in 1 .. Len(queue)
    BY <1>1, <2>1, <2>2 DEF ResultLast
  <2>3. CASE j = Len(queue) + 1
    BY <1>1, <2>1, <2>3 DEF Ready, Has
  <2> QED BY <1>1, <2>2, <2>3
<1> QED BY <1>1, <1>2 DEF NamedBy

LEMMA HandlesOrder ==
  ASSUME Typed, ResultLast, NEW k, Handles(k)
  PROVE  /\ ResultLast'
         /\ \A f : NamedBy(queue, f) =>
              NamedBy(queue', f) \/ (k = "event" /\ Head(queue).about = f)
         /\ k \in Results => \A f : ~NamedBy(queue, f)
<1>1. /\ Len(queue) \in Nat \ {0} /\ Len(queue') = Len(queue) - 1
      /\ \A i \in 1 .. Len(queue') : queue'[i] = queue[i + 1]
      /\ Head(queue) = queue[1] /\ queue[1].kind = k
  BY HeadTailProperties, LenProperties, EmptySeq DEF Typed, Handles
<1>2. ResultLast'
  <2> SUFFICES ASSUME NEW i \in 1 .. Len(queue'), NEW j \in 1 .. Len(queue'),
                      queue'[i].kind \in Results, i < j
               PROVE  queue'[j].kind # "event"
    BY DEF ResultLast
  <2>1. /\ i + 1 \in 1 .. Len(queue) /\ j + 1 \in 1 .. Len(queue)
        /\ i + 1 < j + 1
        /\ queue'[i] = queue[i + 1] /\ queue'[j] = queue[j + 1]
    BY <1>1
  <2> QED BY <2>1 DEF ResultLast
<1>3. ASSUME NEW f, NamedBy(queue, f)
      PROVE  NamedBy(queue', f) \/ (k = "event" /\ Head(queue).about = f)
  <2>1. PICK i \in 1 .. Len(queue) : queue[i].kind = "event" /\ queue[i].about = f
    BY <1>3 DEF NamedBy
  <2>2. CASE i = 1
    BY <1>1, <2>1, <2>2
  <2>3. CASE i # 1
    <3>1. PICK j \in 1 .. Len(queue') : queue'[j] = queue[i]
      <4>1. i - 1 \in 1 .. Len(queue') /\ queue'[i - 1] = queue[i]
        BY <1>1, <2>3
      <4> QED BY <4>1
    <3> QED BY <2>1, <3>1 DEF NamedBy
  <2> QED BY <2>2, <2>3
<1>4. k \in Results => \A f : ~NamedBy(queue, f)
  BY <1>1 DEF ResultLast, NamedBy, Results
<1> QED BY <1>2, <1>3, <1>4

(* A report is of a run that was started, never of the one in flight; the    *)
(* result that waits is of the last run, and the files are of runs started.  *)
Reported ==
  /\ report <= runs
  /\ InFlight => report < runs
  /\ ResultsOf(queue, runs)
  /\ \A f \in files : f[1] <= runs
  /\ EvidenceIsListed

LEMMA ReportedInit == Init => Reported
<1> SUFFICES ASSUME Init PROVE Reported
  OBVIOUS
<1>1. Worker("list", None).kind = "list"
  BY WorkerTyped
<1>2. ~InFlight /\ ResultsOf(queue, runs)
  BY <1>1 DEF Init, InFlight, Has, ResultsOf
<1> QED BY <1>2 DEF Init, Reported, EvidenceIsListed

(* While no run starts, writes or ends and no row is lost, what is reported  *)
(* stays so.                                                                 *)
LEMMA ReportedKept ==
  ASSUME Typed, Reported, InFlight' => InFlight, ResultsOf(queue', runs),
         UNCHANGED <<report, runs, files, strayed>>, rows \subseteq rows'
  PROVE  Reported'
BY DEF Reported, EvidenceIsListed, Typed

(* A worker of another kind that starts is no run.                           *)
LEMMA StartsNoRun ==
  ASSUME Typed, Reported, NEW w \in Workers, Starts(w), w.kind # "run",
         UNCHANGED <<report, runs, rows, files, queue, strayed>>
  PROVE  Reported'
<1>1. InFlight' => InFlight
  BY StartsKinds DEF InFlight
<1>2. ResultsOf(queue', runs)
  BY DEF Reported
<1> QED BY <1>1, <1>2, ReportedKept

(* While a run is on and no reset has cleared the list, each artifact of it  *)
(* is listed already or its event waits.                                     *)
Announced ==
  running /\ ~wiped =>
    \A f \in files : f[1] = runs => \/ \E r \in rows : r.file = f
                                    \/ NamedBy(queue, f)

Told == ResultLast /\ Announced

LEMMA ToldInit == Init => Told
<1> SUFFICES ASSUME Init PROVE Told
  OBVIOUS
<1>1. Len(queue) = 0
  BY DEF Init
<1> QED BY <1>1 DEF Init, Told, ResultLast, Announced

(* A message that comes, or none, while nothing is written or cleared.       *)
LEMMA ToldKept ==
  ASSUME Told, ResultLast', \A f : NamedBy(queue, f) => NamedBy(queue', f),
         UNCHANGED <<runs, files, wiped, rows>>, running' => running
  PROVE  Told'
BY DEF Told, Announced

LEMMA ToldStep == Typed /\ OneRun /\ Reported /\ Told /\ [Next]_vars => Told'
<1> SUFFICES ASSUME Typed, OneRun, Reported, Told, [Next]_vars PROVE Told'
  OBVIOUS
<1> USE DEF run, panes, evidence, place
<1>0. ResultLast
  BY DEF Told
<1>1. CASE UNCHANGED <<running, runs, rows, files, queue, wiped>>
  BY <1>1 DEF Told, ResultLast, Announced
<1>2. CASE User
  <2>1. CASE PressRun
    <3>1. ResultLast'
      BY <1>0, <2>1 DEF PressRun, ResultLast
    <3>2. \A f \in files' : f[1] # runs'
      BY <2>1 DEF PressRun, Reported, Typed
    <3> QED BY <3>1, <3>2 DEF Told, Announced
  <2>2. CASE PressReset
    BY <1>0, <2>2 DEF PressReset, Forget, Told, ResultLast, Announced
  <2>3. CASE ~PressRun /\ ~PressReset
    BY <1>1, <1>2, <2>3
    DEF User, PressRefresh, PressLoad, UseCurrent, Type, PressSend, Select, EditDir
  <2> QED BY <2>1, <2>2, <2>3
<1>3. CASE Work
  <2>1. CASE RunBreaks
    BY <2>1, <1>1 DEF RunBreaks
  <2>2. CASE RunWrites
    <3>1. PICK i \in DOMAIN workers, n \in 1 .. MaxFiles : RunWrites!(i, n)
      BY <2>2 DEF RunWrites
    <3>. DEFINE m == Message("event", None, <<runs, n>>)
    <3>2. m \in Messages /\ m.kind = "event" /\ m.about = <<runs, n>>
      BY EventTyped DEF Typed
    <3>3. i \in 1 .. Len(workers) /\ workers[i].kind \in {"run"}
      BY <3>1, WorkerAt DEF Runs
    <3>4. ~Ready
      BY <3>3 DEF OneRun, InFlight, Has
    <3>5. Posts(m)
      BY <3>1
    <3>. HIDE DEF m
    <3>6. /\ ResultLast'
          /\ \A f : NamedBy(queue, f) => NamedBy(queue', f)
          /\ NamedBy(queue', <<runs, n>>)
      BY <1>0, <3>2, <3>4, <3>5, PostsOrder
    <3>7. files' = files \cup {<<runs, n>>}
          /\ UNCHANGED <<running, runs, wiped, rows>>
      BY <3>1
    <3> QED BY <3>6, <3>7 DEF Told, Announced
  <2>3. CASE RunTalks \/ RunEnds \/ WorkerAnswers \/ WorkerFails \/ SendTalks
    <3>1. PICK m \in Messages : Posts(m) /\ m.kind # "event"
      <4>1. CASE RunTalks
        <5>1. PICK i \in DOMAIN workers, conv \in Convs : RunTalks!(i, conv)
          BY <4>1 DEF RunTalks
        <5> QED BY <5>1, TransportTyped DEF Typed
      <4>2. CASE RunEnds
        <5>1. PICK i \in DOMAIN workers, how \in Results : RunEnds!(i, how)
          BY <4>2 DEF RunEnds, Results
        <5>2. how # "event"
          BY DEF Results
        <5> QED BY <5>1, <5>2, ResultTyped DEF Typed
      <4>3. CASE WorkerAnswers
        <5>1. PICK i \in DOMAIN workers : WorkerAnswers!(i)
          BY <4>3 DEF WorkerAnswers
        <5>2. /\ workers[i].kind \in Rest \ {"event"}
              /\ workers[i].conv \in Convs \cup {None}
          BY <5>1, WorkerAt DEF Answered, ChatWork, Rest
        <5> QED BY <5>1, <5>2, MessageTyped
      <4>4. CASE WorkerFails
        BY <4>4, ErrorTyped DEF WorkerFails
      <4>5. CASE SendTalks
        <5>1. PICK i \in DOMAIN workers : SendTalks!(i)
          BY <4>5 DEF SendTalks
        <5>2. workers[i].conv \in Convs \cup {None}
          BY WorkerAt
        <5> QED BY <5>1, <5>2, TransportTyped
      <4> QED BY <2>3, <4>1, <4>2, <4>3, <4>4, <4>5
    <3>2. UNCHANGED <<running, runs, wiped, rows, files>>
      BY <2>3 DEF RunTalks, RunEnds, WorkerAnswers, WorkerFails, SendTalks
    <3> QED BY <1>0, <3>1, <3>2, PostsOrder, ToldKept
  <2> QED BY <1>3, <2>1, <2>2, <2>3 DEF Work
<1>4. CASE Handle
  <2>1. CASE OnEvent
    <3>. DEFINE f == Head(queue).about
    <3>1. /\ ResultLast'
          /\ \A g : NamedBy(queue, g) => NamedBy(queue', g) \/ f = g
      BY <1>0, <2>1, HandlesOrder DEF OnEvent
    <3>2. rows \subseteq rows' /\ \E r \in rows' : r.file = f
      <4>. DEFINE r == [via |-> "id", file |-> f]
      <4>1. rows \subseteq rows' /\ r \in rows' /\ r.file = f
        BY <2>1 DEF OnEvent
      <4> QED BY <4>1
    <3>3. UNCHANGED <<running, runs, wiped, files>>
      BY <2>1 DEF OnEvent
    <3>. HIDE DEF f
    <3> QED BY <3>1, <3>2, <3>3 DEF Told, Announced
  <2>2. CASE OnFinished \/ OnFailed
    <3>1. ResultLast' /\ ~running'
      BY <1>0, <2>2, HandlesOrder DEF OnFinished, OnFailed
    <3> QED BY <3>1 DEF Told, Announced
  <2>3. CASE OnTransport \/ OnError \/ OnList \/ OnLoaded \/ OnSent
    <3>1. PICK k : Handles(k) /\ k # "event"
      BY <2>3 DEF OnTransport, OnError, OnList, OnLoaded, OnSent
    <3>2. UNCHANGED <<running, runs, wiped, rows, files>>
      BY <2>3 DEF OnTransport, OnError, OnList, OnLoaded, OnSent
    <3> QED BY <1>0, <3>1, <3>2, HandlesOrder, ToldKept
  <2> QED BY <1>4, <2>1, <2>2, <2>3 DEF Handle
<1> QED BY <1>1, <1>2, <1>3, <1>4 DEF Next, vars

LEMMA ReportedStep ==
  Typed /\ OneRun /\ Told /\ Reported /\ [Next]_vars => Reported'
<1> SUFFICES ASSUME Typed, OneRun, Told, Reported, [Next]_vars PROVE Reported'
  OBVIOUS
<1> USE DEF run, panes, evidence, place
<1>1. CASE UNCHANGED <<report, runs, rows, files, workers, queue, strayed>>
  BY <1>1 DEF Reported, EvidenceIsListed, InFlight
<1>2. CASE User
  <2>1. CASE PressRun
    <3>1. ~Ready
      BY <2>1 DEF PressRun, OneRun
    <3>2. ResultsOf(queue', runs')
      BY <2>1, <3>1 DEF PressRun, Ready, Has, ResultsOf
    <3>3. report' < runs' /\ report' <= runs'
      BY <2>1 DEF PressRun, Reported, Typed
    <3>4. \A f \in files' : f[1] <= runs'
      BY <2>1 DEF PressRun, Reported, Typed
    <3>5. EvidenceIsListed'
      BY <2>1 DEF PressRun, Reported, EvidenceIsListed
    <3> QED BY <3>2, <3>3, <3>4, <3>5 DEF Reported
  <2>2. CASE PressReset
    <3>1. InFlight' => InFlight
      BY <2>2, WorkerTyped, StartsKinds DEF PressReset, InFlight
    <3>2. InFlight' => report' < runs'
      BY <2>2, <3>1 DEF PressReset, Forget, Reported, Typed
    <3> QED BY <2>2, <3>2
        DEF PressReset, Forget, Reported, EvidenceIsListed, Typed
  <2>3. CASE PressRefresh
    BY <2>3, WorkerTyped, StartsNoRun DEF PressRefresh
  <2>4. CASE PressLoad
    BY <2>4, WorkerTyped, StartsNoRun DEF PressLoad, Typed
  <2>5. CASE UseCurrent
    BY <2>5, WorkerTyped, StartsNoRun DEF UseCurrent, Typed
  <2>6. CASE Type
    BY <2>6, <1>1 DEF Type
  <2>7. CASE PressSend
    BY <2>7, WorkerTyped, StartsNoRun DEF PressSend, Typed
  <2>8. ASSUME NEW conv \in Convs, Select(conv) PROVE Reported'
    BY <2>8, WorkerTyped, StartsNoRun DEF Select
  <2>9. ASSUME NEW entered \in Dirs, EditDir(entered) PROVE Reported'
    BY <2>9, <1>1 DEF EditDir
  <2> QED BY <1>2, <2>1, <2>2, <2>3, <2>4, <2>5, <2>6, <2>7, <2>8, <2>9 DEF User
<1>3. CASE Work
  <2>1. CASE RunBreaks
    BY <2>1, <1>1 DEF RunBreaks
  <2>2. CASE RunWrites
    <3>1. PICK i \in DOMAIN workers, n \in 1 .. MaxFiles : RunWrites!(i, n)
      BY <2>2 DEF RunWrites
    <3>2. <<runs, n>> \in Nat \X Nat
      BY DEF Typed
    <3>3. ResultsOf(queue', runs)
      BY <3>1, <3>2, EventTyped, PostsResults DEF Results, Reported
    <3>4. i \in 1 .. Len(workers) /\ workers[i].kind \in {"run"}
      BY <3>1, WorkerAt DEF Runs
    <3>5. InFlight /\ report < runs
      BY <3>4 DEF InFlight, Has, Reported
    <3>6. \A f \in files' : f[1] <= runs /\ (f[1] = report => f \in files)
      BY <3>1, <3>5 DEF Reported, Typed
    <3> QED BY <3>1, <3>3, <3>5, <3>6 DEF Reported, EvidenceIsListed, InFlight
  <2>3. CASE RunTalks
    <3>1. PICK i \in DOMAIN workers, conv \in Convs : RunTalks!(i, conv)
      BY <2>3 DEF RunTalks
    <3>2. /\ Message("transport", conv, runs) \in Messages
          /\ Message("transport", conv, runs).kind = "transport"
      BY TransportTyped DEF Typed
    <3>3. ResultsOf(queue', runs)
      BY <3>1, <3>2, PostsResults DEF Results, Reported
    <3> QED BY <3>1, <3>3, ReportedKept DEF InFlight
  <2>4. CASE RunEnds
    <3>1. PICK i \in DOMAIN workers, how \in Results : RunEnds!(i, how)
      BY <2>4 DEF RunEnds, Results
    <3>2. /\ Message(how, None, runs) \in Messages
          /\ Message(how, None, runs).about = runs
      BY ResultTyped DEF Typed
    <3>3. ResultsOf(queue', runs)
      BY <3>1, <3>2, PostsResults DEF Reported
    <3>4. InFlight' => InFlight
      BY <3>1, WorkerAt, EndsKinds DEF InFlight
    <3> QED BY <3>1, <3>3, <3>4, ReportedKept
  <2>5. CASE WorkerAnswers
    <3>1. PICK i \in DOMAIN workers : WorkerAnswers!(i)
      BY <2>5 DEF WorkerAnswers
    <3>2. /\ workers[i].kind \in Rest \ Results
          /\ workers[i].conv \in Convs \cup {None}
      BY <3>1, WorkerAt DEF Answered, ChatWork, Rest, Results
    <3>3. /\ Message(workers[i].kind, workers[i].conv, 0) \in Messages
          /\ Message(workers[i].kind, workers[i].conv, 0).kind = workers[i].kind
      BY <3>2, MessageTyped
    <3>4. ResultsOf(queue', runs)
      BY <3>1, <3>2, <3>3, PostsResults DEF Reported
    <3>5. InFlight' => InFlight
      BY <3>1, WorkerAt, EndsKinds DEF InFlight
    <3> QED BY <3>1, <3>4, <3>5, ReportedKept
  <2>6. CASE WorkerFails
    <3>1. PICK i \in DOMAIN workers : WorkerFails!(i)
      BY <2>6 DEF WorkerFails
    <3>2. /\ Message("error", None, 0) \in Messages
          /\ Message("error", None, 0).kind = "error"
      BY ErrorTyped
    <3>3. ResultsOf(queue', runs)
      BY <3>1, <3>2, PostsResults DEF Reported, Results
    <3>4. InFlight' => InFlight
      BY <3>1, WorkerAt, EndsKinds DEF InFlight
    <3> QED BY <3>1, <3>3, <3>4, ReportedKept
  <2>7. CASE SendTalks
    <3>1. PICK i \in DOMAIN workers : SendTalks!(i)
      BY <2>7 DEF SendTalks
    <3>2. workers[i].conv \in Convs \cup {None}
      BY WorkerAt
    <3>3. /\ Message("transport", workers[i].conv, 0) \in Messages
          /\ Message("transport", workers[i].conv, 0).kind = "transport"
      BY <3>2, TransportTyped
    <3>4. ResultsOf(queue', runs)
      BY <3>1, <3>3, PostsResults DEF Results, Reported
    <3> QED BY <3>1, <3>4, ReportedKept DEF InFlight
  <2> QED BY <1>3, <2>1, <2>2, <2>3, <2>4, <2>5, <2>6, <2>7 DEF Work
<1>4. CASE Handle
  <2>1. PICK k : Handles(k)
    BY <1>4 DEF Handle, OnEvent, OnTransport, OnFinished, OnFailed, OnError,
                OnList, OnLoaded, OnSent
  <2>2. ResultsOf(queue', runs)
    BY <2>1, HandlesResults DEF Reported
  <2>3. CASE OnFinished
    <3>1. Head(queue).about = runs
      BY <2>3, HandlesResults DEF OnFinished, Reported, Results
    <3>2. ~InFlight
      BY <2>3, HandlesResult DEF OnFinished, Results
    <3>3. report' = runs' /\ runs' \in Nat
      BY <2>3, <3>1 DEF OnFinished, Typed
    <3>4. EvidenceIsListed'
      <4> SUFFICES ASSUME ~strayed', NEW f \in files, f[1] = runs
                   PROVE  \E r \in rows' : r.file = f
        BY <2>3, <3>3 DEF OnFinished, EvidenceIsListed
      <4>1. ~wiped \/ homes[runs] = dir
        BY <2>3, <3>1 DEF OnFinished
      <4>2. CASE ~wiped
        <5>1. ~NamedBy(queue, f)
          BY <2>3, HandlesOrder DEF OnFinished, Told, Results
        <5>2. running
          BY <2>3, HandlesResult DEF OnFinished, OneRun, Results
        <5>3. PICK r \in rows : r.file = f
          BY <4>2, <5>1, <5>2 DEF Told, Announced
        <5> QED BY <2>3, <5>3 DEF OnFinished, Listed
      <4>3. CASE homes[runs] = dir
        <5> DEFINE r == [via |-> "stem", file |-> f]
        <5>1. r \in rows' /\ r.file = f
          BY <2>3, <4>3 DEF OnFinished, Listed, FilesHere
        <5> QED BY <5>1
      <4> QED BY <4>1, <4>2, <4>3
    <3> QED BY <2>2, <2>3, <3>2, <3>3, <3>4 DEF OnFinished, Reported, InFlight
  <2>4. CASE OnEvent
    <3>1. rows \subseteq rows'
      BY <2>4 DEF OnEvent
    <3> QED BY <2>2, <2>4, <3>1, ReportedKept DEF OnEvent, InFlight
  <2>5. CASE ~OnFinished /\ ~OnEvent
    BY <1>4, <2>2, <2>5, ReportedKept
    DEF Handle, OnTransport, OnFailed, OnError, OnList, OnLoaded, OnSent, InFlight
  <2> QED BY <2>3, <2>4, <2>5
<1> QED BY <1>1, <1>2, <1>3, <1>4 DEF Next, vars

(* Whenever a report is on the screen, every artifact its run wrote is in    *)
(* the evidence list: its event came before the report, or else the list is  *)
(* completed from the directory when the report comes                        *)
(* (_sync_artifacts_from_report).  Only a reset while the run is on and an   *)
(* edited directory at its end together defeat both.  No other run writes    *)
(* under the run of a report, and a reset clears the report with the list.   *)
THEOREM ReportsListEvidence == Spec => []EvidenceIsListed
<1>. DEFINE Inv == Typed /\ OneRun /\ Told /\ Reported
<1>1. Init => Inv
  BY TypedInit, OneRunInit, ToldInit, ReportedInit
<1>2. Inv /\ [Next]_vars => Inv'
  BY TypedStep, OneRunStep, ToldStep, ReportedStep
<1>3. Inv => EvidenceIsListed
  BY DEF Reported
<1> QED BY <1>1, <1>2, <1>3, PTL DEF Spec

-----------------------------------------------------------------------------
(* The transcript and the selected conversation.                             *)

Pending == Has(workers, Chats) \/ Has(queue, Chats)

(* The property, over the entries of the lists.                              *)
Settled == Pending \/ broken \/ shown = selected

LEMMA SettledIs == ASSUME Typed PROVE Settled <=> TranscriptIsOfSelection
<1>1. /\ DOMAIN workers = 1 .. Len(workers)
      /\ DOMAIN queue = 1 .. Len(queue)
  BY LenProperties DEF Typed
<1>2. Pending <=> ChatPending
  BY <1>1 DEF Pending, ChatPending, Has, Chats
<1> QED BY <1>2 DEF Settled, TranscriptIsOfSelection

(* A worker that starts keeps what is pending, and a load or a send is       *)
(* pending from then on.                                                     *)
LEMMA StartsPending ==
  ASSUME Typed, NEW w \in Workers, Starts(w), UNCHANGED queue
  PROVE  Pending \/ w.kind \in Chats => Pending'
BY StartsKinds DEF Pending

(* A message that comes keeps what is pending.                               *)
LEMMA PostsPending ==
  ASSUME Typed, NEW m \in Messages, Posts(m), UNCHANGED workers
  PROVE  Pending => Pending'
BY PostsKinds DEF Pending

(* The answer of a load or of a send is pending in its place; a worker of    *)
(* another kind takes nothing with it.                                       *)
LEMMA EndsPending ==
  ASSUME Typed, NEW i \in DOMAIN workers, Ends(i),
         NEW m \in Messages, Posts(m),
         workers[i].kind \in Chats => m.kind \in Chats
  PROVE  Pending => Pending'
<1>1. i \in 1 .. Len(workers)
  BY WorkerAt
<1>2. Has(workers, Chats) => workers[i].kind \in Chats \/ Has(workers', Chats)
  BY <1>1, EndsKinds
<1>3. Has(queue', Chats) <=> Has(queue, Chats) \/ m.kind \in Chats
  BY PostsKinds
<1> QED BY <1>2, <1>3 DEF Pending

(* Only the answer of a load or of a send is pending no more when it has     *)
(* been handled.                                                             *)
LEMMA HandlesPending ==
  ASSUME Typed, NEW k, Handles(k), k \notin Chats, UNCHANGED workers
  PROVE  Pending => Pending'
BY HandlesKinds DEF Pending

LEMMA SettledInit == Init => Settled
BY DEF Init, Settled

LEMMA SettledStep == Typed /\ Settled /\ [Next]_vars => Settled'
<1> SUFFICES ASSUME Typed, Settled, [Next]_vars PROVE Settled'
  OBVIOUS
<1> USE DEF run, panes, evidence, place
<1>1. CASE UNCHANGED <<selected, shown, broken, workers, queue>>
  BY <1>1 DEF Settled, Pending
<1>2. CASE User
  <2>1. CASE PressRun
    <3>1. Has(workers, Chats) => broken'
      BY <2>1, LenProperties DEF PressRun, Typed, Has, Chats
    <3>2. Has(queue, Chats) => Pending'
      BY <2>1 DEF PressRun, Pending
    <3>3. broken => broken'
      BY <2>1 DEF PressRun
    <3> QED BY <2>1, <3>1, <3>2, <3>3 DEF PressRun, Settled, Pending
  <2>2. CASE PressReset
    BY <2>2 DEF PressReset, Forget, Settled
  <2>3. CASE PressRefresh
    <3>1. Pending => Pending'
      BY <2>3, WorkerTyped, StartsPending DEF PressRefresh
    <3> QED BY <2>3, <3>1 DEF PressRefresh, Settled
  <2>4. CASE PressLoad
    <3>1. Pending'
      BY <2>4, WorkerTyped, StartsPending DEF PressLoad, Typed, Chats
    <3> QED BY <3>1 DEF Settled
  <2>5. CASE UseCurrent
    <3>1. Pending'
      BY <2>5, WorkerTyped, StartsPending DEF UseCurrent, Typed, Chats
    <3> QED BY <3>1 DEF Settled
  <2>6. CASE Type
    BY <2>6, <1>1 DEF Type
  <2>7. CASE PressSend
    <3>1. Pending'
      BY <2>7, WorkerTyped, StartsPending DEF PressSend, Typed, Chats
    <3> QED BY <3>1 DEF Settled
  <2>8. ASSUME NEW conv \in Convs, Select(conv) PROVE Settled'
    <3>1. Pending'
      BY <2>8, WorkerTyped, StartsPending DEF Select, Chats
    <3> QED BY <3>1 DEF Settled
  <2>9. ASSUME NEW entered \in Dirs, EditDir(entered) PROVE Settled'
    BY <2>9, <1>1 DEF EditDir
  <2> QED BY <1>2, <2>1, <2>2, <2>3, <2>4, <2>5, <2>6, <2>7, <2>8, <2>9 DEF User
<1>3. CASE Work
  <2>1. CASE RunBreaks
    BY <2>1, <1>1 DEF RunBreaks
  <2>2. CASE RunWrites
    <3>1. PICK i \in DOMAIN workers, n \in 1 .. MaxFiles : RunWrites!(i, n)
      BY <2>2 DEF RunWrites
    <3>2. <<runs, n>> \in Nat \X Nat
      BY DEF Typed
    <3>3. Pending => Pending'
      BY <3>1, <3>2, EventTyped, PostsPending
    <3> QED BY <3>1, <3>3 DEF Settled
  <2>3. CASE RunTalks
    <3>1. PICK i \in DOMAIN workers, conv \in Convs : RunTalks!(i, conv)
      BY <2>3 DEF RunTalks
    <3>2. Pending => Pending'
      BY <3>1, TransportTyped, PostsPending DEF Typed
    <3> QED BY <3>1, <3>2 DEF Settled
  <2>4. CASE RunEnds
    <3>1. PICK i \in DOMAIN workers, how \in Results : RunEnds!(i, how)
      BY <2>4 DEF RunEnds, Results
    <3>2. Message(how, None, runs) \in Messages /\ workers[i].kind \notin Chats
      BY <3>1, ResultTyped DEF Typed, Runs, Chats
    <3>3. Pending => Pending'
      BY <3>1, <3>2, EndsPending
    <3> QED BY <3>1, <3>3 DEF Settled
  <2>5. CASE WorkerAnswers
    <3>1. PICK i \in DOMAIN workers : WorkerAnswers!(i)
      BY <2>5 DEF WorkerAnswers
    <3>2. workers[i].kind \in Rest /\ workers[i].conv \in Convs \cup {None}
      BY <3>1, WorkerAt DEF Answered, ChatWork, Rest
    <3>3. /\ Message(workers[i].kind, workers[i].conv, 0) \in Messages
          /\ Message(workers[i].kind, workers[i].conv, 0).kind = workers[i].kind
      BY <3>2, MessageTyped
    <3>4. Pending => Pending'
      BY <3>1, <3>3, EndsPending
    <3> QED BY <3>1, <3>4 DEF Settled
  <2>6. CASE WorkerFails
    <3>1. PICK i \in DOMAIN workers : WorkerFails!(i)
      BY <2>6 DEF WorkerFails
    <3>2. CASE workers[i].kind \in Chats
      BY <3>1, <3>2 DEF Chats, Settled
    <3>3. CASE workers[i].kind \notin Chats
      <4>1. Pending => Pending'
        BY <3>1, <3>3, ErrorTyped, EndsPending
      <4> QED BY <3>1, <4>1 DEF Settled
    <3> QED BY <3>2, <3>3
  <2>7. CASE SendTalks
    <3>1. PICK i \in DOMAIN workers : SendTalks!(i)
      BY <2>7 DEF SendTalks
    <3>2. workers[i].conv \in Convs \cup {None}
      BY WorkerAt
    <3>3. Pending => Pending'
      BY <3>1, <3>2, TransportTyped, PostsPending
    <3> QED BY <3>1, <3>3 DEF Settled
  <2> QED BY <1>3, <2>1, <2>2, <2>3, <2>4, <2>5, <2>6, <2>7 DEF Work
<1>4. CASE Handle
  <2>1. CASE OnEvent
    BY <2>1, HandlesPending DEF OnEvent, Settled, Chats
  <2>2. CASE OnTransport
    BY <2>2, HandlesPending DEF OnTransport, Settled, Chats
  <2>3. CASE OnFinished
    BY <2>3, HandlesPending DEF OnFinished, Settled, Chats
  <2>4. CASE OnFailed
    BY <2>4, HandlesPending DEF OnFailed, Settled, Chats
  <2>5. CASE OnError
    BY <2>5, HandlesPending DEF OnError, Settled, Chats
  <2>6. CASE OnList
    BY <2>6, HandlesPending DEF OnList, Settled, Chats
  <2>7. CASE OnLoaded
    BY <2>7 DEF OnLoaded, Settled
  <2>8. CASE OnSent
    BY <2>8 DEF OnSent, Settled
  <2> QED BY <1>4, <2>1, <2>2, <2>3, <2>4, <2>5, <2>6, <2>7, <2>8 DEF Handle
<1> QED BY <1>1, <1>2, <1>3, <1>4 DEF Next, vars

(* Once nothing is in flight the transcript on the screen is the one of the  *)
(* selected conversation, unless a load or a send was lost since the choice: *)
(* an answer that comes late selects what it shows, so that text never goes  *)
(* to another conversation than the one displayed.                           *)
THEOREM SelectionIsShown == Spec => []TranscriptIsOfSelection
<1>1. Init => Typed /\ Settled
  BY TypedInit, SettledInit
<1>2. Typed /\ Settled /\ [Next]_vars => (Typed /\ Settled)'
  BY TypedStep, SettledStep
<1>3. Typed /\ Settled => TranscriptIsOfSelection
  BY SettledIs
<1> QED BY <1>1, <1>2, <1>3, PTL DEF Spec

=============================================================================
