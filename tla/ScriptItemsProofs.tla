------------------------- MODULE ScriptItemsProofs -------------------------
(***************************************************************************)
(* Proofs about ScriptItems, for every set of scripts, definitions and     *)
(* topics, every number of loads and queued callbacks and every nesting of *)
(* script code.                                                            *)
(***************************************************************************)
EXTENDS ScriptItems, FiniteSetTheorems, TLAPS

-----------------------------------------------------------------------------
(* The inductive invariant *)

\* A cleanup is filed once; only a device's may be filed with another script.
Filed ==
  /\ \A f, g \in Files : f # g => cleanups[f] \cap cleanups[g] = {}
  /\ \A f \in Files : \A i \in cleanups[f] \ Devices : File(i) = f

\* Items are made by loads that have been.
Made ==
  /\ \A f \in Files : gen[f] <= loads
  /\ \A i \in items : i[2] <= loads

\* A tracker that a callback is queued or about to be queued for is still there, or
\* its script has been loaded or removed since.
Queued ==
  \A i \in Trackers :
    i \in todo \/ (\E k \in DOMAIN thunks : thunks[k] = i)
    => i[2] <= loads /\ (HasContext(i) => i \in items)

\* Outside of loads the id that a cron rule has is that of an entry of its own.
EntriesKnown ==
  ~ Loading => \A i \in items \cap CronRules :
                 entryId[i] # 0 => entryId[i] \in DOMAIN cron /\ cron[entryId[i]] = i

IInv ==
  /\ TypeOK /\ Filed /\ Made /\ Queued
  /\ CalledItemsAreLive /\ NothingOutlivesItsScript
  /\ CronKnowsItsRules /\ EntriesKnown /\ SubscribedWhileTracked

-----------------------------------------------------------------------------
(* The operators the model is built from *)

\* An item is of one kind and of one script.
LEMMA Kinds ==
  ASSUME NEW i \in Items
  PROVE  /\ i[1] \in Defs /\ i[2] \in Gens /\ i[2] \in Nat /\ i[2] # 0
         /\ File(i) \in Files /\ TopicOf[i[1]] \in Topics
         /\ i \in Rules => i \notin Trackers /\ i \notin Devices
         /\ i \in Trackers => i \notin Devices
BY ItemsAssumption DEF Items, Gens, Rules, Trackers, Devices, File

\* There are only finitely many items, so that SetupCron can number its rules.
LEMMA FiniteItems ==
  ASSUME NEW R, R \subseteq CronRules
  PROVE  IsFiniteSet(R) /\ Cardinality(R) \in Nat
<1>1. IsFiniteSet(Gens)
  BY ItemsAssumption, FS_Interval DEF Gens
<1>2. IsFiniteSet(Items)
  BY <1>1, ItemsAssumption, FS_Product DEF Items
<1>3. R \subseteq Items
  BY DEF CronRules
<1> QED BY <1>2, <1>3, FS_Subset, FS_CardinalityType

\* The code that begins to run is the innermost code.
LEMMA PushFacts ==
  ASSUME TypeOK, NEW f \in Frame, PushFrame(f)
  PROVE  /\ frames' \in Seq(Frame) /\ scopes' \in Seq(Files)
         /\ DOMAIN frames' = DOMAIN frames \cup {Len(frames) + 1}
         /\ \A k \in DOMAIN frames : frames'[k] = frames[k]
         /\ frames'[Len(frames) + 1] = f
         /\ frames' # <<>>
<1>1. frames \in Seq(Frame) /\ scopes \in Seq(Files) /\ f.file \in Files
  BY DEF TypeOK, ScriptsType, Frame
<1>2. frames' = Append(frames, f)
  BY DEF PushFrame
<1>3. scopes' \in Seq(Files)
  BY <1>1 DEF PushFrame
<1> QED BY <1>1, <1>2, <1>3

\* A new Cron has one entry for every cron rule, and the rule knows it.
LEMMA SetupCronFacts ==
  ASSUME NEW R, R \subseteq CronRules, SetupCron(R)
  PROVE  /\ nextEntry' \in Nat \ {0}
         /\ DOMAIN cron' \subseteq 1 .. (nextEntry' - 1)
         /\ \A x \in DOMAIN cron' : cron'[x] \in R /\ entryId'[cron'[x]] = x
         /\ entryId' \in [CronRules -> Nat]
         /\ \A i \in R : entryId'[i] \in DOMAIN cron' /\ cron'[entryId'[i]] = i
<1> DEFINE n == Cardinality(R)
<1>1. n \in Nat
  BY FiniteItems
<1>2. PICK s \in Bijection(1 .. n, R) :
        /\ cron' = s /\ nextEntry' = n + 1
        /\ entryId' = [i \in CronRules |->
                         IF i \in R THEN CHOOSE k \in DOMAIN s : s[k] = i ELSE 0]
  BY DEF SetupCron
<1>3. /\ s \in [1 .. n -> R] /\ DOMAIN s = 1 .. n
      /\ \A x, y \in 1 .. n : s[x] = s[y] => x = y
      /\ \A i \in R : \E x \in 1 .. n : s[x] = i
  BY DEF Bijection, Injection, Surjection, IsInjective
<1>4. \A i \in R : entryId'[i] \in 1 .. n /\ s[entryId'[i]] = i
  <2> TAKE i \in R
  <2>1. entryId'[i] = CHOOSE k \in DOMAIN s : s[k] = i
    BY <1>2
  <2>2. \E k \in DOMAIN s : s[k] = i
    BY <1>3
  <2> QED BY <1>3, <2>1, <2>2
<1>5. \A x \in 1 .. n : entryId'[s[x]] = x
  BY <1>3, <1>4
<1>6. entryId' \in [CronRules -> Nat]
  <2> SUFFICES ASSUME NEW i \in CronRules
               PROVE  (IF i \in R THEN CHOOSE k \in DOMAIN s : s[k] = i ELSE 0) \in Nat
    BY <1>2
  <2>1. i \in R => (CHOOSE k \in DOMAIN s : s[k] = i) \in DOMAIN s
    BY <1>3
  <2> QED BY <1>1, <1>3, <2>1
<1> QED BY <1>1, <1>2, <1>3, <1>4, <1>5, <1>6

\* A rule's new entry leaves the others as they are.
LEMMA AddToCronFacts ==
  ASSUME TypeOK, NEW i \in CronRules, AddToCron(i)
  PROVE  /\ nextEntry' \in Nat \ {0}
         /\ DOMAIN cron' \subseteq 1 .. (nextEntry' - 1)
         /\ DOMAIN cron' = DOMAIN cron \cup {nextEntry} /\ nextEntry \notin DOMAIN cron
         /\ \A x \in DOMAIN cron : cron'[x] = cron[x]
         /\ cron'[nextEntry] = i
         /\ entryId' \in [CronRules -> Nat]
         /\ entryId'[i] = nextEntry
         /\ \A j \in CronRules \ {i} : entryId'[j] = entryId[j]
<1>1. /\ nextEntry \in Nat \ {0} /\ DOMAIN cron \subseteq 1 .. (nextEntry - 1)
      /\ entryId \in [CronRules -> Nat]
  BY DEF TypeOK, CronType
<1>2. nextEntry' = nextEntry + 1 /\ entryId' = [entryId EXCEPT ![i] = nextEntry]
  BY DEF AddToCron
<1>3. nextEntry \notin DOMAIN cron
  BY <1>1
<1>4. /\ DOMAIN cron' = DOMAIN cron \cup {nextEntry} /\ cron'[nextEntry] = i
      /\ \A x \in DOMAIN cron : cron'[x] = cron[x]
  BY <1>3 DEF AddToCron
<1>5. DOMAIN cron' \subseteq 1 .. (nextEntry' - 1)
  BY <1>1, <1>2, <1>4
<1> QED BY <1>1, <1>2, <1>3, <1>4, <1>5

\* The cleanups of a file take away what it has filed and nothing else.
LEMMA CleanupsFacts ==
  ASSUME IInv, NEW f \in Files, Cleanups(f)
  PROVE  /\ items' \subseteq items /\ strays' \subseteq strays /\ disabled' \subseteq disabled
         /\ subscribed' \subseteq subscribed
         /\ cleanups' \in [Files -> SUBSET Items]
         /\ cleanups'[f] = {} /\ \A g \in Files \ {f} : cleanups'[g] = cleanups[g]
         /\ \A i \in items \ items' : i \notin Devices => File(i) = f
         /\ \A i \in items' \ strays' : File(i) # f /\ i \in cleanups[File(i)]
         /\ \A g \in Files : cleanups'[g] \subseteq items'
         /\ SubscribedWhileTracked' /\ Filed'
<1>1. /\ items' = items \ cleanups[f] /\ strays' = strays \ cleanups[f]
      /\ disabled' = disabled \ cleanups[f]
      /\ cleanups' = [cleanups EXCEPT ![f] = {}]
      /\ subscribed' = {t \in subscribed : \E i \in items' \cap Trackers : TopicOf[i[1]] = t}
  BY DEF Cleanups
<1>2. cleanups \in [Files -> SUBSET Items] /\ items \subseteq Items
  BY DEF IInv, TypeOK, ItemsType
<1>3. /\ cleanups' \in [Files -> SUBSET Items]
      /\ cleanups'[f] = {} /\ \A g \in Files \ {f} : cleanups'[g] = cleanups[g]
  BY <1>1, <1>2
<1>4. \A i \in items \ items' : i \notin Devices => File(i) = f
  BY <1>1 DEF IInv, Filed
<1>5. \A i \in items' \ strays' : File(i) # f /\ i \in cleanups[File(i)]
  BY <1>1 DEF IInv, NothingOutlivesItsScript
<1>6. \A g \in Files : cleanups'[g] \subseteq items'
  BY <1>1, <1>3 DEF IInv, NothingOutlivesItsScript, Filed
<1>7. SubscribedWhileTracked'
  <2>1. subscribed = {TopicOf[i[1]] : i \in items \cap Trackers}
    BY DEF IInv, SubscribedWhileTracked
  <2> QED BY <1>1, <2>1 DEF SubscribedWhileTracked
<1>8. Filed'
  BY <1>3 DEF IInv, Filed
<1> QED BY <1>1, <1>3, <1>4, <1>5, <1>6, <1>7, <1>8

\* The code running on the sync loop is of scripts that have a context.
LEMMA TopFacts ==
  ASSUME IInv, InScript
  PROVE  /\ Len(frames) \in DOMAIN frames /\ 1 \in DOMAIN frames
         /\ Top \in Frame /\ Top.file \in Files /\ gen[Top.file] \in Gens
<1>1. frames \in Seq(Frame) /\ frames # <<>>
  BY DEF IInv, TypeOK, ScriptsType, InScript
<1>2. Len(frames) \in DOMAIN frames /\ 1 \in DOMAIN frames
  BY <1>1
<1>3. Top \in Frame /\ Top.file \in Files
  <2>1. Top \in Frame
    BY <1>1, <1>2 DEF Top
  <2> QED BY <2>1 DEF Frame
<1>4. gen[Top.file] # 0
  BY <1>2 DEF IInv, CalledItemsAreLive, Top
<1>5. gen[Top.file] \in 0 .. MaxLoads /\ MaxLoads \in Nat
  BY <1>3, ItemsAssumption DEF IInv, TypeOK, ScriptsType
<1> QED BY <1>2, <1>3, <1>4, <1>5 DEF Gens

\* What the running code defines is an item of the current context, and a new one.
LEMMA NewFacts ==
  ASSUME IInv, NEW d \in Defs, MayDefine(d)
  PROVE  /\ New(d) \in Items /\ New(d) \notin items /\ HasContext(New(d))
         /\ New(d)[1] = d /\ File(New(d)) = FileOf[d] /\ FileOf[d] \in Files
         /\ New(d)[2] <= loads
         /\ \A f \in Files : New(d) \notin cleanups[f]
<1>1. InScript /\ Top.file = FileOf[d] /\ New(d) \notin items
  BY DEF MayDefine
<1>2. FileOf[d] \in Files /\ gen[FileOf[d]] \in Gens
  BY <1>1, TopFacts
<1>3. New(d) \in Items /\ New(d)[1] = d /\ New(d)[2] = gen[FileOf[d]]
  BY <1>2 DEF New, Items
<1>4. New(d)[2] <= loads
  BY <1>2, <1>3 DEF IInv, Made
<1>5. \A f \in Files : New(d) \notin cleanups[f]
  BY <1>1 DEF IInv, NothingOutlivesItsScript
<1> QED BY <1>1, <1>2, <1>3, <1>4, <1>5 DEF File, HasContext

-----------------------------------------------------------------------------
(* Every step preserves the invariant *)

\* Before the first load there is nothing at all.
LEMMA InitInv == Init => IInv
<1> SUFFICES ASSUME Init PROVE IInv
  OBVIOUS
<1>1. ScriptsType
  BY ItemsAssumption DEF Init, ScriptsType
<1>2. ItemsType
  BY DEF Init, ItemsType
<1>3. CronType
  BY DEF Init, CronType
<1>4. QueuesType
  BY DEF Init, QueuesType
<1>5. Filed /\ Made /\ Queued
  BY ItemsAssumption DEF Init, Filed, Made, Queued
<1>6. CalledItemsAreLive /\ NothingOutlivesItsScript
  BY DEF Init, CalledItemsAreLive, NothingOutlivesItsScript
<1>7. CronKnowsItsRules /\ EntriesKnown /\ SubscribedWhileTracked
  BY DEF Init, CronKnowsItsRules, EntriesKnown, SubscribedWhileTracked
<1> QED BY <1>1, <1>2, <1>3, <1>4, <1>5, <1>6, <1>7 DEF IInv, TypeOK

\* A file is cleaned up and gets a new context or none.
LEMMA CleanupsInv ==
  ASSUME IInv, NEW f \in Files, Cleanups(f),
         NEW n \in 0 .. MaxLoads, gen' = [gen EXCEPT ![f] = n],
         n = 0 \/ n > loads, n <= loads', loads' \in Nat, loads <= loads',
         UNCHANGED <<message, todo, thunks>>
  PROVE  /\ gen' \in [Files -> 0 .. MaxLoads] /\ gen'[f] = n
         /\ \A g \in Files \ {f} : gen'[g] = gen[g]
         /\ ItemsType' /\ QueuesType' /\ Filed' /\ Made' /\ Queued'
         /\ NothingOutlivesItsScript' /\ SubscribedWhileTracked'
<1>1. /\ loads \in Nat /\ gen' \in [Files -> 0 .. MaxLoads] /\ gen'[f] = n
      /\ \A g \in Files : gen[g] \in Nat
      /\ \A g \in Files \ {f} : gen'[g] = gen[g]
  BY ItemsAssumption DEF IInv, TypeOK, ScriptsType
<1>2. ItemsType'
  BY CleanupsFacts DEF IInv, TypeOK, ItemsType
<1>3. QueuesType'
  BY CleanupsFacts DEF IInv, TypeOK, QueuesType
<1>4. Made'
  <2>1. \A g \in Files : gen'[g] <= loads'
    BY <1>1 DEF IInv, Made
  <2>2. \A i \in items' : i \in Items /\ i[2] \in Nat /\ i[2] <= loads
    BY CleanupsFacts, Kinds DEF IInv, Made, TypeOK, ItemsType
  <2> QED BY <1>1, <2>1, <2>2 DEF Made
<1>5. Queued'
  <2> SUFFICES ASSUME NEW i \in Trackers, i \in todo \/ \E k \in DOMAIN thunks : thunks[k] = i
               PROVE  i[2] <= loads' /\ (HasContext(i)' => i \in items')
    BY DEF Queued
  <2>1. i[2] <= loads /\ (HasContext(i) => i \in items)
    BY DEF IInv, Queued
  <2>2. i \in Items /\ i[2] \in Nat /\ i[2] # 0 /\ File(i) \in Files /\ i \notin Devices
    BY Kinds DEF Trackers
  <2>3. i[2] <= loads' /\ i[2] # n
    BY <1>1, <2>1, <2>2
  <2>4. HasContext(i)' => HasContext(i) /\ File(i) # f
    BY <1>1, <2>2, <2>3 DEF HasContext
  <2>5. i \in items \ items' => File(i) = f
    BY <2>2, CleanupsFacts
  <2> QED BY <2>1, <2>3, <2>4, <2>5
<1>6. NothingOutlivesItsScript'
  <2> SUFFICES ASSUME NEW i \in items' \ strays'
               PROVE  HasContext(i)' /\ i \in cleanups'[File(i)]
    BY CleanupsFacts DEF NothingOutlivesItsScript
  <2>1. i \in items /\ File(i) # f /\ i \in cleanups[File(i)] /\ File(i) \in Files
    BY CleanupsFacts, Kinds DEF IInv, TypeOK, ItemsType
  <2>2. i \notin strays
    BY <2>1 DEF Cleanups, IInv, Filed
  <2>3. HasContext(i)
    BY <2>1, <2>2 DEF IInv, NothingOutlivesItsScript
  <2> QED BY <1>1, <2>1, <2>3, CleanupsFacts DEF HasContext
<1> QED BY <1>1, <1>2, <1>3, <1>4, <1>5, <1>6, CleanupsFacts

\* loadScript: the old version's items go, the new context begins to run.
LEMMA BeginLoadInv ==
  ASSUME IInv, NEW f \in Files, BeginLoad(f)
  PROVE  IInv'
<1> DEFINE fr == [file |-> f, item |-> NoItem, scoped |-> TRUE, load |-> TRUE]
<1>1. /\ Cleanups(f) /\ PushFrame(fr) /\ frames = <<>>
      /\ loads < MaxLoads /\ loads' = loads + 1 /\ gen' = [gen EXCEPT ![f] = loads']
      /\ UNCHANGED <<cron, nextEntry, message, todo, thunks>>
  BY DEF BeginLoad, InScript
<1>2. /\ loads' \in 1 .. MaxLoads /\ loads' \in 0 .. MaxLoads /\ loads' \in Nat
      /\ loads' > loads /\ loads' <= loads' /\ loads <= loads'
  BY <1>1, ItemsAssumption DEF IInv, TypeOK, ScriptsType
<1>3. /\ gen' \in [Files -> 0 .. MaxLoads] /\ gen'[f] = loads'
      /\ ItemsType' /\ QueuesType' /\ Filed' /\ Made' /\ Queued'
      /\ NothingOutlivesItsScript' /\ SubscribedWhileTracked'
  <2>1. UNCHANGED <<message, todo, thunks>>
    BY <1>1
  <2> QED BY <1>1, <1>2, <2>1, CleanupsInv, Zenon
<1>4. fr \in Frame
  BY DEF Frame
<1>5. /\ frames' \in Seq(Frame) /\ scopes' \in Seq(Files)
      /\ DOMAIN frames' = {1} /\ frames'[1] = fr /\ frames' # <<>>
  BY <1>1, <1>4, PushFacts DEF IInv
<1>6. ScriptsType'
  BY <1>2, <1>3, <1>5 DEF ScriptsType
<1>7. CronType'
  <2>1. entryId' = [i \in CronRules |-> IF i \in items' THEN entryId[i] ELSE 0]
    BY DEF BeginLoad
  <2> QED BY <1>1, <2>1 DEF IInv, TypeOK, CronType
<1>8. CalledItemsAreLive'
  BY <1>2, <1>3, <1>5 DEF CalledItemsAreLive
<1>9. CronKnowsItsRules' /\ EntriesKnown'
  BY <1>5 DEF CronKnowsItsRules, EntriesKnown, Loading, InScript
<1> QED BY <1>3, <1>6, <1>7, <1>8, <1>9 DEF IInv, TypeOK

\* LiveRemoveFile: a file's items go with its context, and a new Cron follows.
LEMMA RemoveFileInv ==
  ASSUME IInv, NEW f \in Files, RemoveFile(f)
  PROVE  IInv'
<1>1. /\ Cleanups(f) /\ frames = <<>> /\ gen' = [gen EXCEPT ![f] = 0]
      /\ SetupCron(items' \cap CronRules)
      /\ UNCHANGED <<loads, scopes, frames, message, todo, thunks>>
  BY DEF RemoveFile, InScript
<1>2. /\ loads' \in Nat /\ 0 \in 0 .. MaxLoads
      /\ 0 <= loads' /\ loads <= loads'
  BY <1>1, ItemsAssumption DEF IInv, TypeOK, ScriptsType
<1>3. /\ gen' \in [Files -> 0 .. MaxLoads]
      /\ ItemsType' /\ QueuesType' /\ Filed' /\ Made' /\ Queued'
      /\ NothingOutlivesItsScript' /\ SubscribedWhileTracked'
  <2>1. UNCHANGED <<message, todo, thunks>>
    BY <1>1
  <2> QED BY <1>1, <1>2, <2>1, CleanupsInv, Zenon
<1>4. ScriptsType'
  BY <1>1, <1>3 DEF IInv, TypeOK, ScriptsType
<1>5. CronType'
  BY <1>1, SetupCronFacts DEF CronType
<1>6. CalledItemsAreLive'
  BY <1>1 DEF CalledItemsAreLive
<1>7. CronKnowsItsRules' /\ EntriesKnown'
  BY <1>1, SetupCronFacts DEF CronKnowsItsRules, EntriesKnown
<1> QED BY <1>3, <1>4, <1>5, <1>6, <1>7 DEF IInv, TypeOK

\* Refresh after a load: the new Cron agrees with the rules.
LEMMA EndLoadInv ==
  ASSUME IInv, EndLoad
  PROVE  IInv'
<1>1. /\ frames' = <<>> /\ scopes' = <<>> /\ SetupCron(items \cap CronRules)
      /\ UNCHANGED <<loads, gen, items, disabled, cleanups, subscribed, message, todo,
                     thunks, strays>>
  BY DEF EndLoad, mqtt
<1>2. ScriptsType'
  BY <1>1 DEF IInv, TypeOK, ScriptsType
<1>3. ItemsType' /\ QueuesType'
  BY <1>1 DEF IInv, TypeOK, ItemsType, QueuesType
<1>4. CronType'
  BY <1>1, SetupCronFacts DEF CronType
<1>5. CronKnowsItsRules' /\ EntriesKnown'
  BY <1>1, SetupCronFacts DEF CronKnowsItsRules, EntriesKnown
<1>6. Filed' /\ Made' /\ NothingOutlivesItsScript' /\ SubscribedWhileTracked'
  BY <1>1 DEF IInv, Filed, Made, NothingOutlivesItsScript, SubscribedWhileTracked, HasContext
<1>7. Queued'
  BY <1>1 DEF IInv, Queued, HasContext
<1>8. CalledItemsAreLive'
  BY <1>1 DEF CalledItemsAreLive
<1> QED BY <1>2, <1>3, <1>4, <1>5, <1>6, <1>7, <1>8 DEF IInv, TypeOK

\* A definition adds an item that the running code's context makes.
LEMMA DefineInv ==
  ASSUME IInv, NEW d \in Defs, MayDefine(d), items' = items \cup {New(d)},
         UNCHANGED <<gen, loads, frames, scopes, disabled, message, todo, thunks>>
  PROVE  /\ ScriptsType' /\ Made' /\ Queued' /\ CalledItemsAreLive'
         /\ items' \subseteq Items /\ New(d) \in Items
<1>1. New(d) \in Items /\ New(d) \notin items /\ New(d)[2] <= loads
  BY NewFacts
<1>2. ScriptsType'
  BY DEF IInv, TypeOK, ScriptsType
<1>3. Made'
  BY <1>1 DEF IInv, Made
<1>4. Queued'
  BY DEF IInv, Queued, HasContext
<1>5. CalledItemsAreLive'
  BY DEF IInv, CalledItemsAreLive, HasContext
<1>6. items' \subseteq Items
  BY <1>1 DEF IInv, TypeOK, ItemsType
<1> QED BY <1>1, <1>2, <1>3, <1>4, <1>5, <1>6

\* Its cleanup is filed with its own script.
LEMMA FiledInv ==
  ASSUME IInv, NEW d \in Defs, MayDefine(d), items' = items \cup {New(d)},
         cleanups' = [cleanups EXCEPT ![FileOf[d]] = @ \cup {New(d)}],
         UNCHANGED <<gen, strays, disabled>>
  PROVE  ItemsType' /\ Filed' /\ NothingOutlivesItsScript'
<1> DEFINE i == New(d)
           f == FileOf[d]
<1>1. /\ i \in Items /\ i \notin items /\ HasContext(i) /\ File(i) = f /\ f \in Files
      /\ \A g \in Files : i \notin cleanups[g]
  BY NewFacts
<1>2. cleanups \in [Files -> SUBSET Items] /\ items \subseteq Items
  BY DEF IInv, TypeOK, ItemsType
<1>3. /\ cleanups' \in [Files -> SUBSET Items] /\ cleanups'[f] = cleanups[f] \cup {i}
      /\ \A g \in Files \ {f} : cleanups'[g] = cleanups[g]
  BY <1>1, <1>2
<1>4. ItemsType'
  BY <1>1, <1>2, <1>3 DEF IInv, TypeOK, ItemsType
<1>5. Filed'
  BY <1>1, <1>3 DEF IInv, Filed
<1>6. NothingOutlivesItsScript'
  <2> SUFFICES ASSUME NEW j \in items' \ strays
               PROVE  HasContext(j)' /\ j \in cleanups'[File(j)]
    BY <1>3 DEF IInv, NothingOutlivesItsScript
  <2>1. j \in items => HasContext(j) /\ j \in cleanups[File(j)] /\ File(j) \in Files
    BY <1>2, Kinds DEF IInv, NothingOutlivesItsScript
  <2> QED BY <1>1, <1>3, <2>1 DEF HasContext
<1> QED BY <1>4, <1>5, <1>6

\* defineRule makes an item of the current version and files its cleanup with it.
LEMMA DefineRuleInv ==
  ASSUME IInv, NEW d \in Defs, DefineRule(d)
  PROVE  IInv'
<1> DEFINE i == New(d)
<1>1. /\ MayDefine(d) /\ i \in Rules /\ items' = items \cup {i}
      /\ cleanups' = [cleanups EXCEPT ![FileOf[d]] = @ \cup {i}]
      /\ UNCHANGED <<loads, gen, scopes, frames, disabled, subscribed, message, todo, thunks,
                     strays>>
  BY DEF DefineRule, scripting, mqtt
<1>2. ScriptsType' /\ Made' /\ Queued' /\ CalledItemsAreLive'
  BY <1>1, DefineInv
<1>3. ItemsType' /\ Filed' /\ NothingOutlivesItsScript'
  BY <1>1, FiledInv
<1>4. QueuesType'
  BY <1>1 DEF IInv, TypeOK, QueuesType
<1>5. i \in Items /\ i \notin items /\ i \notin Trackers
  BY <1>1, NewFacts, Kinds
<1>6. SubscribedWhileTracked'
  <2>1. items' \cap Trackers = items \cap Trackers
    BY <1>1, <1>5
  <2> QED BY <1>1, <2>1 DEF IInv, SubscribedWhileTracked
<1>7. CASE i \in CronRules
  <2>1. AddToCron(i) /\ TypeOK
    BY <1>7 DEF DefineRule, IInv
  <2>2. CronType'
    BY <1>7, <2>1, AddToCronFacts DEF TypeOK, CronType
  <2>3. CronKnowsItsRules' /\ EntriesKnown'
    <3> SUFFICES ASSUME ~ Loading
                 PROVE  /\ \A x \in DOMAIN cron' :
                             cron'[x] \in items' /\ entryId'[cron'[x]] = x
                        /\ \A j \in (items' \cap CronRules) \ disabled :
                             entryId'[j] \in DOMAIN cron' /\ cron'[entryId'[j]] = j
                        /\ \A j \in items' \cap CronRules :
                             entryId'[j] # 0
                             => entryId'[j] \in DOMAIN cron' /\ cron'[entryId'[j]] = j
      BY <1>1 DEF CronKnowsItsRules, EntriesKnown, Loading, InScript
    <3>1. /\ \A x \in DOMAIN cron : cron[x] \in items /\ entryId[cron[x]] = x
          /\ \A j \in (items \cap CronRules) \ disabled :
               entryId[j] \in DOMAIN cron /\ cron[entryId[j]] = j
          /\ \A j \in items \cap CronRules :
               entryId[j] # 0 => entryId[j] \in DOMAIN cron /\ cron[entryId[j]] = j
          /\ \A x \in DOMAIN cron : cron[x] \in CronRules
      BY DEF IInv, CronKnowsItsRules, EntriesKnown, TypeOK, CronType
    <3> QED BY <1>1, <1>5, <1>7, <2>1, <3>1, AddToCronFacts
  <2> QED BY <1>2, <1>3, <1>4, <1>6, <2>2, <2>3 DEF IInv, TypeOK
<1>8. CASE i \notin CronRules
  <2>1. UNCHANGED <<cron, nextEntry, entryId>>
    BY <1>8 DEF DefineRule, cronState
  <2>2. CronType'
    BY <2>1 DEF IInv, TypeOK, CronType
  <2>3. CronKnowsItsRules' /\ EntriesKnown'
    BY <1>1, <1>8, <2>1 DEF IInv, CronKnowsItsRules, EntriesKnown, Loading, InScript
  <2> QED BY <1>2, <1>3, <1>4, <1>6, <2>2, <2>3 DEF IInv, TypeOK
<1> QED BY <1>7, <1>8

\* trackMqtt does so too, and its topic is subscribed.
LEMMA DefineTrackerInv ==
  ASSUME IInv, NEW d \in Defs, DefineTracker(d)
  PROVE  IInv'
<1> DEFINE i == New(d)
<1>1. /\ MayDefine(d) /\ i \in Trackers /\ items' = items \cup {i}
      /\ cleanups' = [cleanups EXCEPT ![FileOf[d]] = @ \cup {i}]
      /\ subscribed' = subscribed \cup {TopicOf[d]}
      /\ UNCHANGED <<loads, gen, scopes, frames, disabled, cron, nextEntry, entryId, message,
                     todo, thunks, strays>>
  BY DEF DefineTracker, scripting, cronState
<1>2. ScriptsType' /\ Made' /\ Queued' /\ CalledItemsAreLive'
  BY <1>1, DefineInv
<1>3. ItemsType' /\ Filed' /\ NothingOutlivesItsScript'
  BY <1>1, FiledInv
<1>4. i[1] = d /\ TopicOf[d] \in Topics /\ i \notin CronRules
  BY <1>1, NewFacts, Kinds, ItemsAssumption DEF CronRules, Rules
<1>5. QueuesType' /\ CronType'
  BY <1>1, <1>4 DEF IInv, TypeOK, QueuesType, CronType
<1>6. SubscribedWhileTracked'
  BY <1>1, <1>4 DEF IInv, SubscribedWhileTracked
<1>7. CronKnowsItsRules' /\ EntriesKnown'
  BY <1>1, <1>4 DEF IInv, CronKnowsItsRules, EntriesKnown, Loading, InScript
<1> QED BY <1>2, <1>3, <1>5, <1>6, <1>7 DEF IInv, TypeOK

\* defineVirtualDevice files its cleanup with the innermost scope, if there is one.
LEMMA DefineDeviceInv ==
  ASSUME IInv, NEW d \in Defs, DefineDevice(d)
  PROVE  IInv'
<1> DEFINE i == New(d)
<1>1. /\ MayDefine(d) /\ i \in Devices /\ items' = items \cup {i}
      /\ UNCHANGED <<loads, gen, scopes, frames, disabled, cron, nextEntry, entryId,
                     subscribed, message, todo, thunks>>
  BY DEF DefineDevice, scripting, cronState, mqtt
<1>2. ScriptsType' /\ Made' /\ Queued' /\ CalledItemsAreLive'
  BY <1>1, DefineInv
<1>3. /\ i \in Items /\ i \notin items /\ i \notin Trackers /\ i \notin CronRules
      /\ HasContext(i) /\ File(i) = FileOf[d] /\ FileOf[d] \in Files
      /\ \A g \in Files : i \notin cleanups[g]
  BY <1>1, NewFacts, Kinds DEF Devices, CronRules
<1>4. cleanups \in [Files -> SUBSET Items] /\ items \subseteq Items
  BY DEF IInv, TypeOK, ItemsType
<1>5. /\ cleanups' \in [Files -> SUBSET Items]
      /\ \A g \in Files : cleanups'[g] = cleanups[g] \cup {i} \/ cleanups'[g] = cleanups[g]
      /\ \A g, h \in Files : g # h => i \notin cleanups'[g] \/ i \notin cleanups'[h]
      /\ i \notin strays' => i \in cleanups'[FileOf[d]]
  BY <1>3, <1>4 DEF DefineDevice, FileCleanup
<1>6. strays' = strays \/ strays' = strays \cup {i}
  BY DEF DefineDevice
<1>7. ItemsType'
  BY <1>1, <1>3, <1>4, <1>5, <1>6 DEF IInv, TypeOK, ItemsType
<1>8. Filed'
  BY <1>1, <1>3, <1>5 DEF IInv, Filed
<1>9. NothingOutlivesItsScript'
  <2>1. \A g \in Files : cleanups'[g] \subseteq items'
    BY <1>1, <1>5 DEF IInv, NothingOutlivesItsScript
  <2> SUFFICES ASSUME NEW j \in items' \ strays'
               PROVE  HasContext(j)' /\ j \in cleanups'[File(j)]
    BY <2>1 DEF NothingOutlivesItsScript
  <2>2. j \in items => HasContext(j) /\ j \in cleanups[File(j)] /\ File(j) \in Files
    BY <1>4, <1>6, Kinds DEF IInv, NothingOutlivesItsScript
  <2> QED BY <1>1, <1>3, <1>5, <2>2 DEF HasContext
<1>10. QueuesType' /\ CronType'
  BY <1>1 DEF IInv, TypeOK, QueuesType, CronType
<1>11. SubscribedWhileTracked'
  BY <1>1, <1>3 DEF IInv, SubscribedWhileTracked
<1>12. CronKnowsItsRules' /\ EntriesKnown'
  BY <1>1, <1>3 DEF IInv, CronKnowsItsRules, EntriesKnown, Loading, InScript
<1> QED BY <1>2, <1>7, <1>8, <1>9, <1>10, <1>11, <1>12 DEF IInv, TypeOK

\* Disabling and enabling rules disturbs nothing but the Cron.
LEMMA SwitchInv ==
  ASSUME IInv,
         UNCHANGED <<loads, gen, scopes, frames, items, cleanups, subscribed, message, todo,
                     thunks, strays>>
  PROVE  /\ ScriptsType' /\ QueuesType' /\ (disabled' \subseteq Rules => ItemsType')
         /\ Filed' /\ Made' /\ Queued' /\ CalledItemsAreLive'
         /\ NothingOutlivesItsScript' /\ SubscribedWhileTracked'
         /\ Loading' = Loading
<1>1. ScriptsType' /\ QueuesType' /\ (disabled' \subseteq Rules => ItemsType')
  BY DEF IInv, TypeOK, ScriptsType, QueuesType, ItemsType
<1>2. Filed' /\ Made' /\ NothingOutlivesItsScript' /\ SubscribedWhileTracked'
  BY DEF IInv, Filed, Made, NothingOutlivesItsScript, SubscribedWhileTracked, HasContext
<1>3. Queued' /\ CalledItemsAreLive'
  BY DEF IInv, Queued, CalledItemsAreLive, HasContext
<1>4. Loading' = Loading
  BY DEF Loading, InScript
<1> QED BY <1>1, <1>2, <1>3, <1>4

\* disableRule takes a rule's entry away, and that entry is its own.
LEMMA DisableInv ==
  ASSUME IInv, NEW i \in Rules, Disable(i)
  PROVE  IInv'
<1>1. /\ i \in items /\ disabled' = disabled \cup {i}
      /\ UNCHANGED <<loads, gen, scopes, frames, items, cleanups, subscribed, message, todo,
                     thunks, strays>>
  BY DEF Disable, scripting, mqtt
<1>2. disabled' \subseteq Rules
  BY <1>1 DEF IInv, TypeOK, ItemsType
<1>3. CASE i \in CronRules /\ entryId[i] # 0
  <2>1. /\ cron' = [x \in DOMAIN cron \ {entryId[i]} |-> cron[x]]
        /\ entryId' = [entryId EXCEPT ![i] = 0]
        /\ UNCHANGED nextEntry
    BY <1>3 DEF Disable
  <2>2. CronType'
    BY <1>3, <2>1 DEF IInv, TypeOK, CronType
  <2>3. CronKnowsItsRules' /\ EntriesKnown'
    <3> SUFFICES ASSUME ~ Loading
                 PROVE  /\ \A x \in DOMAIN cron' : cron'[x] \in items /\ entryId'[cron'[x]] = x
                        /\ \A j \in (items \cap CronRules) \ disabled' :
                             entryId'[j] \in DOMAIN cron' /\ cron'[entryId'[j]] = j
                        /\ \A j \in items \cap CronRules :
                             entryId'[j] # 0
                             => entryId'[j] \in DOMAIN cron' /\ cron'[entryId'[j]] = j
      BY <1>1, SwitchInv DEF CronKnowsItsRules, EntriesKnown
    <3>1. /\ \A x \in DOMAIN cron : cron[x] \in items /\ entryId[cron[x]] = x
          /\ \A j \in (items \cap CronRules) \ disabled :
               entryId[j] \in DOMAIN cron /\ cron[entryId[j]] = j
          /\ \A j \in items \cap CronRules :
               entryId[j] # 0 => entryId[j] \in DOMAIN cron /\ cron[entryId[j]] = j
          /\ \A x \in DOMAIN cron : cron[x] \in CronRules
      BY DEF IInv, CronKnowsItsRules, EntriesKnown, TypeOK, CronType
    <3>2. \A j \in CronRules \ {i} : entryId'[j] = entryId[j]
      BY <2>1 DEF IInv, TypeOK, CronType
    <3>3. \A x \in DOMAIN cron' : x \in DOMAIN cron /\ cron'[x] = cron[x] /\ cron[x] # i
      BY <2>1, <3>1
    <3>4. \A x \in DOMAIN cron' : cron'[x] \in items /\ entryId'[cron'[x]] = x
      BY <3>1, <3>2, <3>3
    <3>5. ASSUME NEW j \in items \cap CronRules, j # i,
                 entryId[j] \in DOMAIN cron, cron[entryId[j]] = j
          PROVE  entryId'[j] \in DOMAIN cron' /\ cron'[entryId'[j]] = j
      <4>1. entryId'[j] = entryId[j]
        BY <3>2, <3>5
      <4>2. entryId[j] # entryId[i]
        BY <1>1, <1>3, <3>1, <3>5
      <4> QED BY <2>1, <3>5, <4>1, <4>2
    <3>6. i \in disabled' /\ entryId'[i] = 0
      BY <1>1, <1>3, <2>1 DEF IInv, TypeOK, CronType
    <3> QED BY <1>1, <3>1, <3>2, <3>4, <3>5, <3>6
  <2> QED BY <1>1, <1>2, <2>2, <2>3, SwitchInv DEF IInv, TypeOK
<1>4. CASE ~ (i \in CronRules /\ entryId[i] # 0)
  <2>1. UNCHANGED <<cron, nextEntry, entryId>>
    BY <1>4 DEF Disable, cronState
  <2>2. CronType'
    BY <2>1 DEF IInv, TypeOK, CronType
  <2>3. CronKnowsItsRules' /\ EntriesKnown'
    BY <1>1, <2>1, SwitchInv DEF IInv, CronKnowsItsRules, EntriesKnown
  <2> QED BY <1>1, <1>2, <2>2, <2>3, SwitchInv DEF IInv, TypeOK
<1> QED BY <1>3, <1>4

\* enableRule gives a rule an entry if it has none.
LEMMA EnableInv ==
  ASSUME IInv, NEW i \in Rules, Enable(i)
  PROVE  IInv'
<1>1. /\ i \in items /\ disabled' = disabled \ {i}
      /\ UNCHANGED <<loads, gen, scopes, frames, items, cleanups, subscribed, message, todo,
                     thunks, strays>>
  BY DEF Enable, scripting, mqtt
<1>2. disabled' \subseteq Rules
  BY <1>1 DEF IInv, TypeOK, ItemsType
<1>3. CASE i \in CronRules /\ entryId[i] = 0
  <2>1. AddToCron(i) /\ TypeOK
    BY <1>3 DEF Enable, IInv
  <2>2. CronType'
    BY <1>3, <2>1, AddToCronFacts DEF TypeOK, CronType
  <2>3. CronKnowsItsRules' /\ EntriesKnown'
    <3> SUFFICES ASSUME ~ Loading
                 PROVE  /\ \A x \in DOMAIN cron' : cron'[x] \in items /\ entryId'[cron'[x]] = x
                        /\ \A j \in (items \cap CronRules) \ disabled' :
                             entryId'[j] \in DOMAIN cron' /\ cron'[entryId'[j]] = j
                        /\ \A j \in items \cap CronRules :
                             entryId'[j] # 0
                             => entryId'[j] \in DOMAIN cron' /\ cron'[entryId'[j]] = j
      BY <1>1, SwitchInv DEF CronKnowsItsRules, EntriesKnown
    <3>1. /\ \A x \in DOMAIN cron : cron[x] \in items /\ entryId[cron[x]] = x
          /\ \A j \in (items \cap CronRules) \ disabled :
               entryId[j] \in DOMAIN cron /\ cron[entryId[j]] = j
          /\ \A j \in items \cap CronRules :
               entryId[j] # 0 => entryId[j] \in DOMAIN cron /\ cron[entryId[j]] = j
          /\ \A x \in DOMAIN cron : cron[x] \in CronRules
      BY DEF IInv, CronKnowsItsRules, EntriesKnown, TypeOK, CronType
    <3>2. \A x \in DOMAIN cron : cron[x] # i
      BY <1>3, <3>1 DEF IInv, TypeOK, CronType
    <3> QED BY <1>1, <1>3, <2>1, <3>1, <3>2, AddToCronFacts
  <2> QED BY <1>1, <1>2, <2>2, <2>3, SwitchInv DEF IInv, TypeOK
<1>4. CASE ~ (i \in CronRules /\ entryId[i] = 0)
  <2>1. UNCHANGED <<cron, nextEntry, entryId>>
    BY <1>4 DEF Enable, cronState
  <2>2. CronType'
    BY <2>1 DEF IInv, TypeOK, CronType
  <2>3. CronKnowsItsRules' /\ EntriesKnown'
    <3> SUFFICES ASSUME ~ Loading
                 PROVE  /\ \A x \in DOMAIN cron : cron[x] \in items /\ entryId[cron[x]] = x
                        /\ \A j \in (items \cap CronRules) \ disabled' :
                             entryId[j] \in DOMAIN cron /\ cron[entryId[j]] = j
                        /\ \A j \in items \cap CronRules :
                             entryId[j] # 0
                             => entryId[j] \in DOMAIN cron /\ cron[entryId[j]] = j
      BY <1>1, <2>1, SwitchInv DEF CronKnowsItsRules, EntriesKnown
    <3> QED BY <1>1, <1>4 DEF IInv, CronKnowsItsRules, EntriesKnown
  <2> QED BY <1>1, <1>2, <2>2, <2>3, SwitchInv DEF IInv, TypeOK
<1> QED BY <1>3, <1>4

\* Code begins to run: of a script that has a context, and no body of an item that is
\* gone.
LEMMA PushInv ==
  ASSUME IInv, NEW fr \in Frame, PushFrame(fr), ~ fr.load,
         gen[fr.file] # 0,
         fr.item # NoItem => fr.item \in items /\ HasContext(fr.item),
         UNCHANGED <<loads, gen, items, disabled, cleanups, cron, nextEntry, entryId,
                     subscribed, message, todo, strays>>
  PROVE  /\ ScriptsType' /\ ItemsType' /\ CronType' /\ CalledItemsAreLive'
         /\ Filed' /\ Made' /\ NothingOutlivesItsScript' /\ SubscribedWhileTracked'
         /\ CronKnowsItsRules' /\ EntriesKnown'
<1>1. /\ frames' \in Seq(Frame) /\ scopes' \in Seq(Files)
      /\ DOMAIN frames' = DOMAIN frames \cup {Len(frames) + 1}
      /\ \A k \in DOMAIN frames : frames'[k] = frames[k]
      /\ frames'[Len(frames) + 1] = fr
      /\ frames \in Seq(Frame)
  BY PushFacts DEF IInv, TypeOK, ScriptsType
<1>2. ScriptsType'
  BY <1>1 DEF IInv, TypeOK, ScriptsType
<1>3. ItemsType' /\ CronType'
  BY DEF IInv, TypeOK, ItemsType, CronType
<1>4. CalledItemsAreLive'
  BY <1>1 DEF IInv, CalledItemsAreLive, HasContext
<1>5. Filed' /\ Made' /\ NothingOutlivesItsScript' /\ SubscribedWhileTracked'
  BY DEF IInv, Filed, Made, NothingOutlivesItsScript, SubscribedWhileTracked, HasContext
<1>6. ~ Loading' => ~ Loading
  <2> SUFFICES ASSUME Loading PROVE Loading'
    OBVIOUS
  <2>1. frames # <<>> /\ frames[1].load
    BY DEF Loading, InScript
  <2>2. 1 \in DOMAIN frames
    BY <1>1, <2>1
  <2> QED BY <1>1, <2>1, <2>2 DEF Loading, InScript
<1>7. CronKnowsItsRules' /\ EntriesKnown'
  BY <1>6 DEF IInv, CronKnowsItsRules, EntriesKnown
<1> QED BY <1>2, <1>3, <1>4, <1>5, <1>7

\* A rule that fires is registered, so its script has the context it was made in.
LEMMA RunBodyInv ==
  ASSUME IInv, NEW i \in Rules, RunBody(i)
  PROVE  IInv'
<1>1. /\ i \in items /\ PushFrame(Body(i))
      /\ UNCHANGED <<loads, gen, items, disabled, cleanups, cron, nextEntry, entryId,
                     subscribed, message, todo, thunks, strays>>
  BY DEF RunBody, cronState, mqtt
<1>2. i \in Items /\ i \notin Devices /\ i[2] # 0 /\ File(i) \in Files
  BY Kinds DEF Rules
<1>3. HasContext(i)
  BY <1>1, <1>2 DEF IInv, NothingOutlivesItsScript, TypeOK, ItemsType
<1>4. /\ Body(i) \in Frame /\ ~ Body(i).load /\ Body(i).file = File(i) /\ Body(i).item = i
  BY <1>2 DEF Body, Frame
<1>5. gen[Body(i).file] # 0
  BY <1>2, <1>3, <1>4 DEF HasContext
<1>6. QueuesType' /\ Queued'
  BY <1>1 DEF IInv, TypeOK, QueuesType, Queued, HasContext
<1> QED BY <1>1, <1>3, <1>4, <1>5, <1>6, PushInv DEF IInv, TypeOK

\* A callback runs while its script has a context.
LEMMA RunCallbackInv ==
  ASSUME IInv, NEW f \in Files, RunCallback(f)
  PROVE  IInv'
<1> DEFINE fr == [file |-> f, item |-> NoItem, scoped |-> TRUE, load |-> FALSE]
<1>1. /\ gen[f] # 0 /\ PushFrame(fr)
      /\ UNCHANGED <<loads, gen, items, disabled, cleanups, cron, nextEntry, entryId,
                     subscribed, message, todo, thunks, strays>>
  BY DEF RunCallback, cronState, mqtt
<1>2. fr \in Frame /\ ~ fr.load /\ fr.file = f /\ fr.item = NoItem
  BY DEF Frame
<1>3. QueuesType' /\ Queued'
  BY <1>1 DEF IInv, TypeOK, QueuesType, Queued, HasContext
<1> QED BY <1>1, <1>2, <1>3, PushInv DEF IInv, TypeOK

\* Returning leaves the outer code as it was; a load ends with EndLoad alone.
LEMMA ReturnInv ==
  ASSUME IInv, Return
  PROVE  IInv'
<1>1. /\ frames \in Seq(Frame) /\ frames # <<>> /\ ~ Top.load
      /\ frames' = SubSeq(frames, 1, Len(frames) - 1)
      /\ UNCHANGED <<loads, gen, items, disabled, cleanups, cron, nextEntry, entryId,
                     subscribed, message, todo, thunks, strays>>
  BY DEF Return, InScript, cronState, mqtt, IInv, TypeOK, ScriptsType
<1>2. /\ frames' \in Seq(Frame) /\ DOMAIN frames' = 1 .. (Len(frames) - 1)
      /\ DOMAIN frames' \subseteq DOMAIN frames
      /\ \A k \in DOMAIN frames' : frames'[k] = frames[k]
  BY <1>1
<1>3. scopes' \in Seq(Files)
  BY DEF Return, IInv, TypeOK, ScriptsType
<1>4. ScriptsType'
  BY <1>1, <1>2, <1>3 DEF IInv, TypeOK, ScriptsType
<1>5. ItemsType' /\ CronType' /\ QueuesType'
  BY <1>1 DEF IInv, TypeOK, ItemsType, CronType, QueuesType
<1>6. Filed' /\ Made' /\ NothingOutlivesItsScript' /\ SubscribedWhileTracked'
  BY <1>1 DEF IInv, Filed, Made, NothingOutlivesItsScript, SubscribedWhileTracked, HasContext
<1>7. Queued'
  BY <1>1 DEF IInv, Queued, HasContext
<1>8. CalledItemsAreLive'
  BY <1>1, <1>2 DEF IInv, CalledItemsAreLive, HasContext
<1>9. ~ Loading' => ~ Loading
  <2> SUFFICES ASSUME Loading PROVE Loading'
    OBVIOUS
  <2>1. frames[1].load
    BY DEF Loading
  <2>2. Len(frames) # 1
    BY <1>1, <2>1 DEF Top
  <2>3. Len(frames) \in Nat /\ Len(frames) # 0
    BY <1>1
  <2>4. 1 \in DOMAIN frames'
    <3>1. 1 \in 1 .. (Len(frames) - 1)
      BY <2>2, <2>3
    <3>2. DOMAIN frames' = 1 .. (Len(frames) - 1)
      BY <1>2
    <3> QED BY <3>1, <3>2
  <2>5. frames' # <<>> /\ frames'[1].load
    BY <1>2, <2>1, <2>4
  <2> QED BY <2>5 DEF Loading, InScript
<1>10. CronKnowsItsRules' /\ EntriesKnown'
  BY <1>1, <1>9 DEF IInv, CronKnowsItsRules, EntriesKnown
<1> QED BY <1>4, <1>5, <1>6, <1>7, <1>8, <1>10 DEF IInv, TypeOK

\* What the queues are for stays as it is.
OthersAsBefore ==
  UNCHANGED <<loads, gen, scopes, frames, items, disabled, cleanups, cron, nextEntry, entryId,
              subscribed, strays>>

\* Steps that change only the queues disturb nothing but what is queued.
LEMMA QueuesInv ==
  ASSUME IInv, OthersAsBefore
  PROVE  /\ ScriptsType' /\ ItemsType' /\ CronType'
         /\ Filed' /\ Made' /\ CalledItemsAreLive' /\ NothingOutlivesItsScript'
         /\ CronKnowsItsRules' /\ EntriesKnown' /\ SubscribedWhileTracked'
<1>1. ScriptsType' /\ ItemsType' /\ CronType'
  BY DEF OthersAsBefore, IInv, TypeOK, ScriptsType, ItemsType, CronType
<1>2. Filed' /\ Made' /\ NothingOutlivesItsScript' /\ SubscribedWhileTracked'
  BY DEF OthersAsBefore, IInv, Filed, Made, NothingOutlivesItsScript, SubscribedWhileTracked,
         HasContext
<1>3. CalledItemsAreLive'
  BY DEF OthersAsBefore, IInv, CalledItemsAreLive, HasContext
<1>4. CronKnowsItsRules' /\ EntriesKnown'
  BY DEF OthersAsBefore, IInv, CronKnowsItsRules, EntriesKnown, Loading, InScript
<1> QED BY <1>1, <1>2, <1>3, <1>4

\* The sync loop takes a callback that was queued for a rule or a tracker.
LEMMA TakeThunkInv ==
  ASSUME IInv, TakeThunk
  PROVE  IInv'
<1> DEFINE i == Head(thunks)
<1>1. /\ thunks # <<>> /\ thunks \in Seq(CronRules \cup Trackers) /\ thunks' = Tail(thunks)
      /\ UNCHANGED <<loads, gen, items, disabled, cleanups, cron, nextEntry, entryId,
                     subscribed, message, todo, strays>>
  BY DEF TakeThunk, cronState, mqtt, IInv, TypeOK, QueuesType
<1>2. /\ i \in CronRules \cup Trackers /\ 1 \in DOMAIN thunks /\ thunks[1] = i
      /\ thunks' \in Seq(CronRules \cup Trackers)
      /\ \A k \in DOMAIN thunks' : k + 1 \in DOMAIN thunks /\ thunks'[k] = thunks[k + 1]
  BY <1>1
<1>3. QueuesType'
  BY <1>1, <1>2 DEF IInv, TypeOK, QueuesType
<1>4. Queued'
  BY <1>1, <1>2 DEF IInv, Queued, HasContext
<1>5. CASE Callable(i)
  <2>1. PushFrame(Body(i))
    BY <1>5 DEF TakeThunk
  <2>2. /\ i \in Items /\ i[2] # 0 /\ File(i) \in Files
        /\ i \in Rules \/ i \in Trackers
        /\ i \in Rules => i \notin Devices
        /\ i \in Trackers => i \notin Rules
    BY <1>2, Kinds DEF CronRules, Trackers, Rules
  <2>3. i \in Rules => i \in items /\ HasContext(i)
    BY <1>5, <2>2 DEF Callable, IInv, NothingOutlivesItsScript, TypeOK, ItemsType
  <2>4. i \in Trackers => i \in items /\ HasContext(i)
    BY <1>2, <1>5, <2>2 DEF Callable, IInv, Queued
  <2>5. /\ Body(i) \in Frame /\ ~ Body(i).load /\ Body(i).file = File(i) /\ Body(i).item = i
    BY <2>2 DEF Body, Frame
  <2>6. gen[Body(i).file] # 0
    BY <2>2, <2>3, <2>4, <2>5 DEF HasContext
  <2> QED BY <1>1, <1>3, <1>4, <2>1, <2>2, <2>3, <2>4, <2>5, <2>6, PushInv DEF IInv, TypeOK
<1>6. CASE ~ Callable(i)
  <2>1. UNCHANGED <<frames, scopes>>
    BY <1>6 DEF TakeThunk
  <2>2. ScriptsType' /\ ItemsType' /\ CronType'
    BY <1>1, <2>1 DEF IInv, TypeOK, ScriptsType, ItemsType, CronType
  <2>3. OthersAsBefore
    BY <1>1, <2>1 DEF OthersAsBefore
  <2> QED BY <1>3, <1>4, <2>2, <2>3, QueuesInv DEF IInv, TypeOK
<1> QED BY <1>5, <1>6

\* An entry of the Cron that is due belongs to a cron rule.
LEMMA CronFiresInv ==
  ASSUME IInv, NEW x \in DOMAIN cron, CronFires(x)
  PROVE  IInv'
<1>1. /\ thunks' = Append(thunks, cron[x]) /\ UNCHANGED <<message, todo>> /\ OthersAsBefore
  BY DEF CronFires, OthersAsBefore, scripting, cronState, mqtt
<1>2. thunks \in Seq(CronRules \cup Trackers) /\ cron[x] \in CronRules
  BY DEF IInv, TypeOK, QueuesType, CronType
<1>3. QueuesType'
  BY <1>1, <1>2 DEF IInv, TypeOK, QueuesType, OthersAsBefore
<1>4. cron[x] \notin Trackers
  BY <1>2, Kinds DEF CronRules, Rules
<1>5. \A k \in DOMAIN thunks' :
          thunks'[k] = cron[x] \/ (k \in DOMAIN thunks /\ thunks'[k] = thunks[k])
  BY <1>1, <1>2
<1>6. Queued'
  BY <1>1, <1>4, <1>5 DEF IInv, Queued, HasContext, OthersAsBefore
<1> QED BY <1>1, <1>3, <1>6, QueuesInv DEF IInv, TypeOK

\* The trackers that are copied are there when they are copied.
LEMMA MessageArrivesInv ==
  ASSUME IInv, NEW t \in Topics, MessageArrives(t)
  PROVE  IInv'
<1>1. /\ message' = t /\ todo' = {i \in items \cap Trackers : TopicOf[i[1]] = t}
      /\ UNCHANGED thunks /\ OthersAsBefore
  BY DEF MessageArrives, OthersAsBefore, scripting, cronState
<1>2. QueuesType'
  BY <1>1 DEF IInv, TypeOK, QueuesType, OthersAsBefore
<1>3. Queued'
  BY <1>1 DEF IInv, Queued, Made, HasContext, OthersAsBefore
<1> QED BY <1>1, <1>2, <1>3, QueuesInv DEF IInv, TypeOK

\* A tracker is queued some time after it was copied.
LEMMA QueueTrackerInv ==
  ASSUME IInv, NEW i \in Trackers, QueueTracker(i)
  PROVE  IInv'
<1>1. /\ i \in todo /\ todo' = todo \ {i} /\ thunks' = Append(thunks, i)
      /\ UNCHANGED message /\ OthersAsBefore
  BY DEF QueueTracker, OthersAsBefore, scripting, cronState
<1>2. thunks \in Seq(CronRules \cup Trackers)
  BY DEF IInv, TypeOK, QueuesType
<1>3. QueuesType'
  BY <1>1, <1>2 DEF IInv, TypeOK, QueuesType, OthersAsBefore
<1>4. \A k \in DOMAIN thunks' :
          thunks'[k] = i \/ (k \in DOMAIN thunks /\ thunks'[k] = thunks[k])
  BY <1>1, <1>2
<1>5. Queued'
  BY <1>1, <1>4 DEF IInv, Queued, HasContext, OthersAsBefore
<1> QED BY <1>1, <1>3, <1>5, QueuesInv DEF IInv, TypeOK

\* The handler is through with a message.
LEMMA HandlerReturnsInv ==
  ASSUME IInv, HandlerReturns
  PROVE  IInv'
<1>1. message' = NoTopic /\ UNCHANGED <<todo, thunks>> /\ OthersAsBefore
  BY DEF HandlerReturns, OthersAsBefore, scripting, cronState
<1>2. QueuesType' /\ Queued'
  BY <1>1 DEF IInv, TypeOK, QueuesType, Queued, HasContext, OthersAsBefore
<1> QED BY <1>1, <1>2, QueuesInv DEF IInv, TypeOK

\* The invariant is inductive.
LEMMA NextInv == IInv /\ [Next]_vars => IInv'
<1> SUFFICES ASSUME IInv, [Next]_vars PROVE IInv'
  OBVIOUS
<1>1. CASE UNCHANGED vars
  <2>1. UNCHANGED <<message, todo, thunks>> /\ OthersAsBefore
    BY <1>1 DEF vars, scripting, cronState, mqtt, OthersAsBefore
  <2>2. QueuesType' /\ Queued'
    BY <2>1 DEF IInv, TypeOK, QueuesType, Queued, HasContext, OthersAsBefore
  <2> QED BY <2>1, <2>2, QueuesInv DEF IInv, TypeOK
<1>2. ASSUME NEW f \in Files, BeginLoad(f) PROVE IInv'
  BY <1>2, BeginLoadInv
<1>3. ASSUME NEW f \in Files, RemoveFile(f) PROVE IInv'
  BY <1>3, RemoveFileInv
<1>4. ASSUME NEW f \in Files, RunCallback(f) PROVE IInv'
  BY <1>4, RunCallbackInv
<1>5. ASSUME NEW d \in Defs, DefineRule(d) PROVE IInv'
  BY <1>5, DefineRuleInv
<1>6. ASSUME NEW d \in Defs, DefineTracker(d) PROVE IInv'
  BY <1>6, DefineTrackerInv
<1>7. ASSUME NEW d \in Defs, DefineDevice(d) PROVE IInv'
  BY <1>7, DefineDeviceInv
<1>8. ASSUME NEW i \in Rules, Disable(i) PROVE IInv'
  BY <1>8, DisableInv
<1>9. ASSUME NEW i \in Rules, Enable(i) PROVE IInv'
  BY <1>9, EnableInv
<1>10. ASSUME NEW i \in Rules, RunBody(i) PROVE IInv'
  BY <1>10, RunBodyInv
<1>11. ASSUME NEW i \in Trackers, QueueTracker(i) PROVE IInv'
  BY <1>11, QueueTrackerInv
<1>12. ASSUME NEW x \in DOMAIN cron, CronFires(x) PROVE IInv'
  BY <1>12, CronFiresInv
<1>13. ASSUME NEW t \in Topics, MessageArrives(t) PROVE IInv'
  BY <1>13, MessageArrivesInv
<1>14. EndLoad => IInv'
  BY EndLoadInv
<1>15. Return => IInv'
  BY ReturnInv
<1>16. TakeThunk => IInv'
  BY TakeThunkInv
<1>17. HandlerReturns => IInv'
  BY HandlerReturnsInv
<1> QED BY <1>1, <1>2, <1>3, <1>4, <1>5, <1>6, <1>7, <1>8, <1>9, <1>10, <1>11, <1>12, <1>13,
           <1>14, <1>15, <1>16, <1>17 DEF Next

\* The invariant holds in every reachable state.
LEMMA Invariance == Spec => []IInv
BY InitInv, NextInv, PTL DEF Spec

-----------------------------------------------------------------------------
(* The theorems *)

\* The tables of rules, trackers, devices and cleanups, the stacks of the running code
\* and the queues keep their types.
THEOREM TypeCorrect == Spec => []TypeOK
<1>1. IInv => TypeOK
  BY DEF IInv
<1> QED BY <1>1, Invariance, PTL

\* Whatever body the engine runs, for an event, for the cron library, for an MQTT
\* message or by a call, is that of an item of the current version of its script.
THEOREM NoDeadCode == Spec => []CalledItemsAreLive
<1>1. IInv => CalledItemsAreLive
  BY DEF IInv
<1> QED BY <1>1, Invariance, PTL

\* RunCleanups takes away everything that an old version of a script defined, but for
\* the devices that it defined outside of its own scope.
THEOREM CleanupsComplete == Spec => []NothingOutlivesItsScript
<1>1. IInv => NothingOutlivesItsScript
  BY DEF IInv
<1> QED BY <1>1, Invariance, PTL

\* Outside of loads the Cron has one entry for every enabled cron rule, which its rule
\* can remove, and none for a rule that is gone.
THEOREM CronAsRules == Spec => []CronKnowsItsRules
<1>1. IInv => CronKnowsItsRules
  BY DEF IInv
<1> QED BY <1>1, Invariance, PTL

\* The topics that the MQTT client is subscribed to are those that trackers ask for.
THEOREM SubscriptionsAsTrackers == Spec => []SubscribedWhileTracked
<1>1. IInv => SubscribedWhileTracked
  BY DEF IInv
<1> QED BY <1>1, Invariance, PTL

=============================================================================
