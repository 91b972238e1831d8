---------------------------- MODULE ScriptItems ----------------------------
(***************************************************************************)
(* What scripts define and when it goes away: cron rules and other rules,  *)
(* MQTT trackers and virtual devices, the cleanup scopes that tie them to  *)
(* a file (wbrules/scopedcleanup.go), and the callbacks that other         *)
(* goroutines - the cron library's and the MQTT client's - have queued     *)
(* for items that a reload removes meanwhile (wbrules/engine.go, rule.go,  *)
(* escontext.go).                                                          *)
(*                                                                         *)
(* Everything that scripts do runs on the sync loop.  frames is the stack  *)
(* of script code running there: the load of a file, or a callback, and    *)
(* the bodies of rules that runRules() and runRule() call from it.         *)
(*                                                                         *)
(* Abstractions.  An item is <<d, g>>: what definition d of a script       *)
(* becomes in the g-th load.  When a rule's condition holds is left to     *)
(* RuleDispatch, when a cron entry is due to the cron library.  A          *)
(* script may define its items in any order, leave some out and end or     *)
(* fail at any point.                                                      *)
(***************************************************************************)
EXTENDS Integers, Sequences, FiniteSets, Functions

CONSTANTS
  Files,       \* script files
  Defs,        \* the definitions that scripts contain
  FileOf,      \* FileOf[d]: the script that contains d
  KindOf,      \* KindOf[d] \in {"rule", "cron", "track", "device"}
  TopicOf,     \* TopicOf[d]: the topic of a tracker
  Topics,      \* MQTT topics
  NoTopic,     \* no message is being handled
  NoItem,      \* code that is not the body of an item
  MaxLoads,    \* bound on the loads of files
  MaxEntries,  \* bound on the entries ever made in one Cron
  MaxThunks,   \* bound on the callbacks in the sync queue
  MaxDepth     \* bound on the nesting of script code

Gens == 1 .. MaxLoads
Items == Defs \X Gens
Rules == {i \in Items : KindOf[i[1]] \in {"rule", "cron"}}
CronRules == {i \in Items : KindOf[i[1]] = "cron"}
Trackers == {i \in Items : KindOf[i[1]] = "track"}
Devices == {i \in Items : KindOf[i[1]] = "device"}
Frame == [file: Files, item: Items \cup {NoItem}, scoped: BOOLEAN, load: BOOLEAN]

ASSUME ItemsAssumption ==
  /\ FileOf \in [Defs -> Files]
  /\ KindOf \in [Defs -> {"rule", "cron", "track", "device"}]
  /\ TopicOf \in [Defs -> Topics] /\ NoTopic \notin Topics
  /\ NoItem \notin Items /\ IsFiniteSet(Defs)
  /\ {MaxLoads, MaxEntries, MaxThunks, MaxDepth} \subseteq Nat

VARIABLES
  loads,       \* loads so far
  gen,         \* the load that made the context of a file, 0 without a context
  items,       \* ruleMap, tracks and the devices of the driver
  disabled,    \* rules whose enabled is FALSE
  cleanups,    \* ScopedCleanup.cleanupLists
  scopes,      \* ScopedCleanup.scopeStack
  frames,      \* script code running on the sync loop, innermost last
  cron,        \* entries of the current Cron, from ids to rules
  nextEntry,   \* the id of its next entry
  entryId,     \* CronRuleCondition.entryId, 0 for none
  subscribed,  \* topics that the MQTT client is subscribed to
  message,     \* the topic of the message that newTrackHandler is handling
  todo,        \* the trackers it has still to queue callbacks for
  thunks,      \* callbacks in the sync queue, oldest first
  strays       \* history: devices defined outside of a scope of their script

scripting == <<loads, gen, scopes, frames>>
cronState == <<cron, nextEntry, entryId>>
mqtt == <<subscribed, message, todo>>
vars == <<scripting, items, disabled, cleanups, cronState, mqtt, thunks, strays>>

-----------------------------------------------------------------------------

File(i) == FileOf[i[1]]
Top == frames[Len(frames)]
InScript == frames # <<>>
Loading == InScript /\ frames[1].load

\* A callback works while its context is valid.
HasContext(i) == gen[File(i)] = i[2]

PushFrame(f) ==
  /\ frames' = Append(frames, f)
  /\ scopes' = IF f.scoped THEN Append(scopes, f.file) ELSE scopes

\* MaybeAddToCron: the new entry belongs to the Cron that is current now.
AddToCron(i) ==
  /\ nextEntry <= MaxEntries
  /\ cron' = [x \in DOMAIN cron \cup {nextEntry} |-> IF x = nextEntry THEN i ELSE cron[x]]
  /\ entryId' = [entryId EXCEPT ![i] = nextEntry]
  /\ nextEntry' = nextEntry + 1

\* Mutant: rules that have an entry id are left out.
SetupCronNew(R) ==
  \E s \in Bijection(1 .. Cardinality(R), R) :
    LET fresh == {k \in DOMAIN s : entryId[s[k]] = 0}
    IN /\ cron' = [k \in fresh |-> s[k]]
       /\ nextEntry' = Cardinality(R) + 1
       /\ entryId' = [i \in CronRules |->
                        IF \E k \in fresh : s[k] = i THEN CHOOSE k \in fresh : s[k] = i
                        ELSE IF i \in R THEN entryId[i] ELSE 0]

\* setupCron: a new Cron takes the place of the old one and gets all cron rules of
\* ruleList, the disabled ones too.
SetupCron(R) ==
  \E s \in Bijection(1 .. Cardinality(R), R) :
    /\ cron' = s
    /\ nextEntry' = Cardinality(R) + 1
    /\ entryId' = [i \in CronRules |->
                     IF i \in R THEN CHOOSE k \in DOMAIN s : s[k] = i ELSE 0]

\* Mutant: the topic stays subscribed.
CleanupsKeepTopic(f) ==
  /\ items' = items \ cleanups[f]
  /\ cleanups' = [cleanups EXCEPT ![f] = {}]
  /\ disabled' = disabled \ cleanups[f]
  /\ strays' = strays \ cleanups[f]
  /\ UNCHANGED subscribed

\* RunCleanups: rules are taken from the list and destroyed, trackers from their
\* topic, which is unsubscribed with the last one, devices from the driver.  What
\* is gone is not told apart by its flags.
Cleanups(f) ==
  /\ items' = items \ cleanups[f]
  /\ cleanups' = [cleanups EXCEPT ![f] = {}]
  /\ disabled' = disabled \ cleanups[f]
  /\ strays' = strays \ cleanups[f]
  /\ subscribed' = {t \in subscribed : \E i \in items' \cap Trackers : TopicOf[i[1]] = t}

-----------------------------------------------------------------------------
(* Loading and removing files *)

\* loadScript up to the script's first statement.  The entries of the old version
\* stay in the Cron until the load is over, but their rules know no id any more.
BeginLoad(f) ==
  /\ ~ InScript /\ loads < MaxLoads
  /\ Cleanups(f)
  /\ loads' = loads + 1
  /\ gen' = [gen EXCEPT ![f] = loads']
  /\ entryId' = [i \in CronRules |-> IF i \in items' THEN entryId[i] ELSE 0]
  /\ PushFrame([file |-> f, item |-> NoItem, scoped |-> TRUE, load |-> TRUE])
  /\ UNCHANGED <<cron, nextEntry, message, todo, thunks>>

\* The script has come to its end or has thrown: Refresh follows in both cases.
EndLoad ==
  /\ Loading /\ Len(frames) = 1
  /\ frames' = <<>> /\ scopes' = <<>>
  /\ SetupCron(items \cap CronRules)
  /\ UNCHANGED <<loads, gen, items, disabled, cleanups, mqtt, thunks, strays>>

\* LiveRemoveFile's thunk
RemoveFile(f) ==
  /\ ~ InScript /\ gen[f] # 0
  /\ Cleanups(f)
  /\ gen' = [gen EXCEPT ![f] = 0]
  /\ SetupCron(items' \cap CronRules)
  /\ UNCHANGED <<loads, scopes, frames, message, todo, thunks>>

-----------------------------------------------------------------------------
(* Definitions, by the script code that is running *)

\* The item that the running code makes of d; its context defines no item twice.
New(d) == <<d, gen[FileOf[d]]>>
MayDefine(d) == InScript /\ Top.file = FileOf[d] /\ New(d) \notin items

\* esWbDefineRule opens a scope of the script around the definition.
DefineRule(d) ==
  /\ MayDefine(d) /\ New(d) \in Rules
  /\ items' = items \cup {New(d)}
  /\ cleanups' = [cleanups EXCEPT ![FileOf[d]] = @ \cup {New(d)}]
  /\ IF New(d) \in CronRules THEN AddToCron(New(d)) ELSE UNCHANGED cronState
  /\ UNCHANGED <<scripting, disabled, mqtt, thunks, strays>>

\* trackMqtt does the same; the first tracker of a topic subscribes.
DefineTracker(d) ==
  /\ MayDefine(d) /\ New(d) \in Trackers
  /\ items' = items \cup {New(d)}
  /\ cleanups' = [cleanups EXCEPT ![FileOf[d]] = @ \cup {New(d)}]
  /\ subscribed' = subscribed \cup {TopicOf[d]}
  /\ UNCHANGED <<scripting, disabled, cronState, message, todo, thunks, strays>>

\* Mutant: the cleanup is filed before the scope is looked up.
FileCleanupAlways(i) ==
  cleanups' = [f \in Files |-> IF scopes = <<>> THEN cleanups[f] \cup {i}
                               ELSE IF f = scopes[1] THEN cleanups[f] \cup {i}
                               ELSE cleanups[f]]

\* AddCleanup: whatever scope is innermost gets it; without a scope nobody does.
FileCleanup(i) ==
  cleanups' = [f \in Files |-> IF scopes # <<>> /\ f = scopes[Len(scopes)]
                               THEN cleanups[f] \cup {i} ELSE cleanups[f]]

\* defineVirtualDevice opens no scope.  The driver refuses a device that exists.
DefineDevice(d) ==
  /\ MayDefine(d) /\ New(d) \in Devices
  /\ \A i \in items : i[1] # d
  /\ items' = items \cup {New(d)}
  /\ FileCleanup(New(d))
  /\ strays' = IF scopes # <<>> /\ scopes[Len(scopes)] = FileOf[d] THEN strays
               ELSE strays \cup {New(d)}
  /\ UNCHANGED <<scripting, disabled, cronState, mqtt, thunks>>

\* disableRule
Disable(i) ==
  /\ InScript /\ i \in items \cap Rules
  /\ disabled' = disabled \cup {i}
  /\ IF i \in CronRules /\ entryId[i] # 0
     THEN /\ cron' = [x \in DOMAIN cron \ {entryId[i]} |-> cron[x]]
          /\ entryId' = [entryId EXCEPT ![i] = 0]
          /\ UNCHANGED nextEntry
     ELSE UNCHANGED cronState
  /\ UNCHANGED <<scripting, items, cleanups, mqtt, thunks, strays>>

\* enableRule
Enable(i) ==
  /\ InScript /\ i \in items \cap Rules
  /\ disabled' = disabled \ {i}
  /\ IF i \in CronRules /\ entryId[i] = 0 THEN AddToCron(i) ELSE UNCHANGED cronState
  /\ UNCHANGED <<scripting, items, cleanups, mqtt, thunks, strays>>

-----------------------------------------------------------------------------
(* Script code comes and goes *)

Body(i) == [file |-> File(i), item |-> i, scoped |-> FALSE, load |-> FALSE]

\* RunRules fires rule i, for an event, for a named timer or because the running
\* code calls runRules(); or the running code calls runRule().
RunBody(i) ==
  /\ i \in items \cap Rules /\ Len(frames) < MaxDepth
  /\ ~ InScript => i \notin CronRules
  /\ PushFrame(Body(i))
  /\ UNCHANGED <<loads, gen, items, disabled, cleanups, cronState, mqtt, thunks, strays>>

\* A callback of setTimeout, setInterval or spawn, which opens a scope.
RunCallback(f) ==
  /\ ~ InScript /\ gen[f] # 0
  /\ PushFrame([file |-> f, item |-> NoItem, scoped |-> TRUE, load |-> FALSE])
  /\ UNCHANGED <<loads, gen, items, disabled, cleanups, cronState, mqtt, thunks, strays>>

\* The innermost code returns.
Return ==
  /\ InScript /\ ~ Top.load
  /\ scopes' = IF Top.scoped THEN SubSeq(scopes, 1, Len(scopes) - 1) ELSE scopes
  /\ frames' = SubSeq(frames, 1, Len(frames) - 1)
  /\ UNCHANGED <<loads, gen, items, disabled, cleanups, cronState, mqtt, thunks, strays>>

\* Mutant: a queued callback is called whatever became of its item.
CallableAlways(i) == TRUE

\* A destroyed rule has no body, an invalid context calls nothing.
Callable(i) == IF i \in Rules THEN i \in items ELSE HasContext(i)

\* The sync loop takes the oldest callback.
TakeThunk ==
  /\ ~ InScript /\ thunks # <<>>
  /\ thunks' = Tail(thunks)
  /\ IF Callable(Head(thunks)) THEN PushFrame(Body(Head(thunks)))
                               ELSE UNCHANGED <<frames, scopes>>
  /\ UNCHANGED <<loads, gen, items, disabled, cleanups, cronState, mqtt, strays>>

-----------------------------------------------------------------------------
(* The cron library and the MQTT client, on goroutines of their own *)

\* An entry is due: its job queues a thunk.
CronFires(x) ==
  /\ Len(thunks) < MaxThunks
  /\ thunks' = Append(thunks, cron[x])
  /\ UNCHANGED <<scripting, items, disabled, cleanups, cronState, mqtt, strays>>

\* newTrackHandler copies the trackers of the topic.
MessageArrives(t) ==
  /\ message = NoTopic /\ t \in subscribed
  /\ message' = t
  /\ todo' = {i \in items \cap Trackers : TopicOf[i[1]] = t}
  /\ UNCHANGED <<scripting, items, disabled, cleanups, cronState, subscribed, thunks,
                 strays>>

QueueTracker(i) ==
  /\ message # NoTopic /\ i \in todo /\ Len(thunks) < MaxThunks
  /\ todo' = todo \ {i}
  /\ thunks' = Append(thunks, i)
  /\ UNCHANGED <<scripting, items, disabled, cleanups, cronState, subscribed, message,
                 strays>>

HandlerReturns ==
  /\ message # NoTopic /\ todo = {}
  /\ message' = NoTopic
  /\ UNCHANGED <<scripting, items, disabled, cleanups, cronState, subscribed, todo, thunks,
                 strays>>

-----------------------------------------------------------------------------

\* No file has been loaded.
Init ==
  /\ loads = 0
  /\ gen = [f \in Files |-> 0]
  /\ items = {} /\ disabled = {} /\ strays = {}
  /\ cleanups = [f \in Files |-> {}]
  /\ scopes = <<>> /\ frames = <<>>
  /\ cron = <<>> /\ nextEntry = 1
  /\ entryId = [i \in CronRules |-> 0]
  /\ subscribed = {} /\ message = NoTopic /\ todo = {}
  /\ thunks = <<>>

Next ==
  \/ \E f \in Files : BeginLoad(f) \/ RemoveFile(f) \/ RunCallback(f)
  \/ \E d \in Defs : DefineRule(d) \/ DefineTracker(d) \/ DefineDevice(d)
  \/ \E i \in Rules : Disable(i) \/ Enable(i) \/ RunBody(i)
  \/ \E i \in Trackers : QueueTracker(i)
  \/ \E x \in DOMAIN cron : CronFires(x)
  \/ \E t \in Topics : MessageArrives(t)
  \/ EndLoad \/ Return \/ TakeThunk \/ HandlerReturns

Spec == Init /\ [][Next]_vars

-----------------------------------------------------------------------------

ScriptsType ==
  /\ loads \in 0 .. MaxLoads
  /\ gen \in [Files -> 0 .. MaxLoads]
  /\ scopes \in Seq(Files)
  /\ frames \in Seq(Frame)

ItemsType ==
  /\ items \subseteq Items /\ strays \subseteq Devices
  /\ disabled \subseteq Rules
  /\ cleanups \in [Files -> SUBSET Items]

CronType ==
  /\ nextEntry \in Nat \ {0}
  /\ DOMAIN cron \subseteq 1 .. (nextEntry - 1)
  /\ \A x \in DOMAIN cron : cron[x] \in CronRules
  /\ entryId \in [CronRules -> Nat]

QueuesType ==
  /\ subscribed \subseteq Topics /\ message \in Topics \cup {NoTopic}
  /\ todo \subseteq Trackers
  /\ thunks \in Seq(CronRules \cup Trackers)

TypeOK == ScriptsType /\ ItemsType /\ CronType /\ QueuesType

\* No script code outlives its item: whatever body is running, its rule or tracker
\* is registered and belongs to the current version of the script, although its
\* callback may have been queued before a reload.
CalledItemsAreLive ==
  \A k \in DOMAIN frames :
    /\ gen[frames[k].file] # 0
    /\ frames[k].item # NoItem => frames[k].item \in items /\ HasContext(frames[k].item)

\* What a script defines goes away with that version of it, but for the devices that
\* it defines outside of its own scope; and no list holds the cleanup of an item
\* that is gone.
NothingOutlivesItsScript ==
  /\ \A i \in items \ strays : HasContext(i) /\ i \in cleanups[File(i)]
  /\ \A f \in Files : cleanups[f] \subseteq items

\* Outside of loads every entry of the Cron is the one that its rule will remove
\* when it is disabled, and an enabled cron rule has one: no reload makes a cron
\* rule fire twice, or for ever, or never.
CronKnowsItsRules ==
  ~ Loading =>
    /\ \A x \in DOMAIN cron : cron[x] \in items /\ entryId[cron[x]] = x
    /\ \A i \in (items \cap CronRules) \ disabled :
         entryId[i] \in DOMAIN cron /\ cron[entryId[i]] = i

\* The client is subscribed to the topics that trackers ask for and to no other.
SubscribedWhileTracked ==
  subscribed = {TopicOf[i[1]] : i \in items \cap Trackers}

=============================================================================
