--------------------------- MODULE ControlProxies ---------------------------
(***************************************************************************)
(* dev["device/control"] read and written by scripts: DeviceProxy and      *)
(* ControlProxy of wbrules/engine.go, for one control.                     *)
(*                                                                         *)
(* Scripts run on the sync loop.  The driver changes the control on its    *)
(* own goroutine and only a driver transaction (Access) keeps it from      *)
(* doing so, so that a read is a series of steps: is the proxy out of      *)
(* date, is the cache valid, read the driver, store in the cache.          *)
(*                                                                         *)
(* Abstractions.  A control that is removed and made anew is another       *)
(* object: objects are numbered in the order they are made and 0 is nil.   *)
(* The engine's revision only grows, so that what matters of it is whether *)
(* it is still the one that the device's proxy was made with.  The driver  *)
(* is the external wbgong: a value that it receives is told to the         *)
(* control's handler in the same transaction, a local device is the        *)
(* property of scripts while an external one comes and goes with its       *)
(* metadata, and a local control may refuse or convert what is written.    *)
(***************************************************************************)
EXTENDS Integers

CONSTANTS
  Values,      \* values of the control
  NoValue,     \* no control, or a control whose value cannot be had
  MaxControls  \* bound on the control objects ever made

Controls == 1 .. MaxControls
NoProxy == -1

ASSUME ProxyAssumption == NoValue \notin Values /\ MaxControls \in Nat

VARIABLES
  local,     \* the device is a virtual one
  current,   \* the driver's control object
  made,      \* control objects made so far
  value,     \* the value of each object
  watched,   \* objects that have updateValueHandler
  devProxy,  \* "none", "same" or "changed": DeviceProxy.rev against engine.rev
  control,   \* ControlProxy.control, NoProxy before there is a proxy
  cache,     \* [valid, value]: ControlProxy.cacheValid and cachedValue
  op,        \* the access that a script is making
  loading,   \* a script file is being loaded
  seen,      \* history: the values that the control has had during op
  stale      \* history: the control got another value than its cache was told: an
             \* update came before the cache was stored, a write was quiet, or the
             \* control refused or converted what SetValue told the cache

driver == <<local, current, made, value, watched>>
proxies == <<devProxy, control, cache>>
vars == <<driver, proxies, op, loading, seen, stale>>

NoOp == [kind |-> "none", step |-> "idle", set |-> NoValue, target |-> 0, ctrl |-> 0,
         got |-> NoValue, fresh |-> FALSE, lags |-> FALSE]
Idle == op.step = "idle"

ValueOf(v, c) == IF c = 0 THEN NoValue ELSE v[c]

\* The driver's control becomes c with the values v.
Control(c, v) ==
  /\ current' = c
  /\ value' = v
  /\ seen' = IF Idle THEN {} ELSE seen \cup {ValueOf(v, c)}

-----------------------------------------------------------------------------
(* A script's access, on the sync loop *)

\* GetDeviceProxy for another control of the device
GetDeviceProxy ==
  /\ Idle /\ devProxy = "none"
  /\ devProxy' = "same"
  /\ UNCHANGED <<driver, control, cache, op, loading, seen, stale>>

\* GetDeviceProxy and EnsureControlProxy; what the script wants is a value(), a
\* setValue() or something that is read from the driver each time.
Begin(kind, v) ==
  /\ Idle
  /\ devProxy' = IF devProxy = "none" THEN "same" ELSE devProxy
  /\ control' = IF control \in {NoProxy, 0} THEN current ELSE control
  /\ op' = [NoOp EXCEPT !.kind = kind, !.set = v,
                        !.step = IF kind = "set" THEN "target" ELSE "look"]
  /\ seen' = {ValueOf(value, current)}
  /\ UNCHANGED <<driver, cache, loading, stale>>

\* ControlProxy.getControl, up to the lookup
Updated(to) ==
  /\ cache' = IF devProxy = "changed" THEN [cache EXCEPT !.valid = FALSE] ELSE cache
  /\ op' = [op EXCEPT !.step = to, !.fresh = devProxy = "changed"]
  /\ UNCHANGED <<driver, devProxy, control, loading, seen, stale>>

Target == op.step = "target" /\ Updated("findTarget")
LookAt == op.step = "look" /\ Updated("find")

\* Mutant: the control is looked up once.
LookupOnce == UNCHANGED control

\* The lookup, for a proxy that is out of date
Lookup == control' = IF op.fresh THEN current ELSE control

\* SetValue looks the control up, and goes on to read its value.
FindTarget ==
  /\ op.step = "findTarget"
  /\ Lookup
  /\ op' = IF control' = 0 THEN NoOp ELSE [op EXCEPT !.step = "look", !.target = control']
  /\ UNCHANGED <<driver, devProxy, cache, loading, seen, stale>>

\* Value and RawValue do the same.
Find ==
  /\ op.step = "find"
  /\ Lookup
  /\ op' = [op EXCEPT !.ctrl = control',
                      !.step = IF control' # 0
                               THEN IF op.kind = "raw" THEN "access" ELSE "check"
                               ELSE IF op.kind = "set" THEN "write" ELSE "done"]
  /\ UNCHANGED <<driver, devProxy, cache, loading, seen, stale>>

AfterRead == IF op.kind = "set" THEN "write" ELSE "done"

\* Is the cache valid?
CheckCache ==
  /\ op.step = "check"
  /\ op' = IF cache.valid
           THEN [op EXCEPT !.got = cache.value, !.step = AfterRead,
                           !.lags = ~ op.fresh /\ (stale \/ loading)]
           ELSE [op EXCEPT !.step = "access"]
  /\ UNCHANGED <<driver, proxies, loading, seen, stale>>

\* The transaction of RawValue, IsComplete and GetMeta
AccessRaw ==
  /\ op.step = "access" /\ op.kind = "raw"
  /\ op' = [op EXCEPT !.got = value[op.ctrl], !.step = "done",
                      !.lags = ~ op.fresh /\ loading]
  /\ UNCHANGED <<driver, proxies, loading, seen, stale>>

\* Mutant: the handler is set for virtual devices only.
AccessLocal ==
  /\ op.step = "access" /\ op.kind # "raw" /\ value[op.ctrl] # NoValue
  /\ op' = [op EXCEPT !.got = value[op.ctrl], !.step = "store",
                      !.lags = ~ op.fresh /\ loading]
  /\ watched' = IF local THEN watched \cup {op.ctrl} ELSE watched
  /\ stale' = FALSE
  /\ UNCHANGED <<local, current, made, value, proxies, loading, seen>>

\* The transaction of Value: the value, and the handler is set.
Access ==
  /\ op.step = "access" /\ op.kind # "raw" /\ value[op.ctrl] # NoValue
  /\ op' = [op EXCEPT !.got = value[op.ctrl], !.step = "store",
                      !.lags = ~ op.fresh /\ loading]
  /\ watched' = watched \cup {op.ctrl}
  /\ stale' = FALSE
  /\ UNCHANGED <<local, current, made, value, proxies, loading, seen>>

\* GetValue returns an error: nothing is cached and nothing is watched.
AccessFails ==
  /\ op.step = "access" /\ op.kind # "raw" /\ value[op.ctrl] = NoValue
  /\ op' = [op EXCEPT !.step = AfterRead]
  /\ UNCHANGED <<driver, proxies, loading, seen, stale>>

\* What was read goes into the cache, whatever the handler has put there meanwhile.
Store ==
  /\ op.step = "store"
  /\ cache' = [valid |-> TRUE, value |-> op.got]
  /\ op' = [op EXCEPT !.step = AfterRead]
  /\ UNCHANGED <<driver, devProxy, control, loading, seen, stale>>

\* SetValue's transaction; the answer of an external device comes as an update.  A local
\* control holds v when UpdateValue is over: what the script gave, what the control has
\* made of that, or what it held, if an error is returned.
Write(notify, v) ==
  /\ op.step = "write"
  /\ IF local
     THEN /\ Control(current, [value EXCEPT ![op.target] = v])
          /\ stale' = IF notify THEN v # op.set ELSE stale \/ v # value[op.target]
     ELSE UNCHANGED <<current, value, seen, stale>>
  /\ op' = IF local /\ notify THEN [op EXCEPT !.step = "tell"] ELSE NoOp
  /\ UNCHANGED <<local, made, watched, proxies, loading>>

\* SetValue calls updateValueHandler itself with the script's value, whatever UpdateValue
\* has returned.
TellCache ==
  /\ op.step = "tell"
  /\ cache' = [valid |-> TRUE, value |-> op.set]
  /\ op' = NoOp
  /\ UNCHANGED <<driver, devProxy, control, loading, seen, stale>>

\* The script has its answer.
Done ==
  /\ op.step = "done"
  /\ op' = NoOp
  /\ UNCHANGED <<driver, proxies, loading, seen, stale>>

-----------------------------------------------------------------------------
(* The driver, on its own goroutine *)

\* A message sets the control's value.  The cache is told; a read or write that is
\* about to store its own value will overwrite it.
Receive(v) ==
  /\ current # 0
  /\ Control(current, [value EXCEPT ![current] = v])
  /\ IF current \in watched
     THEN /\ cache' = [valid |-> TRUE, value |-> v]
          /\ stale' = (op.step \in {"store", "tell"})
     ELSE UNCHANGED <<cache, stale>>
  /\ UNCHANGED <<local, made, watched, devProxy, control, op, loading>>

\* engine.rev is incremented.
NextRev == devProxy' = IF devProxy = "same" THEN "changed" ELSE devProxy

\* driverEventHandler for the metadata of an external control, which appears,
\* disappears or is what it was
ReceiveMeta(c) ==
  /\ ~ local
  /\ c \in {current, 0} \cup (IF current = 0 THEN {made + 1} \cap Controls ELSE {})
  /\ Control(c, value)
  /\ made' = IF c > made THEN c ELSE made
  /\ NextRev
  /\ UNCHANGED <<local, watched, control, cache, op, loading, stale>>

-----------------------------------------------------------------------------
(* Script files, on the sync loop *)

\* The load of a file begins; the file may be the one that defined the device.
BeginLoad ==
  /\ Idle /\ ~ loading
  /\ loading' = TRUE
  /\ \E c \in IF local THEN {current, 0} ELSE {current} : Control(c, value)
  /\ UNCHANGED <<local, made, watched, proxies, op, stale>>

\* defineVirtualDevice, with the control's initial value
DefineDevice(v) ==
  /\ Idle /\ local /\ current = 0 /\ made < MaxControls
  /\ made' = made + 1
  /\ Control(made', [value EXCEPT ![made'] = v])
  /\ UNCHANGED <<local, watched, proxies, op, loading, stale>>

\* Mutant: rules and cron are refreshed and the proxies are not.
RefreshRules == UNCHANGED devProxy

\* Refresh
Refresh == NextRev

EndLoad ==
  /\ Idle /\ loading
  /\ loading' = FALSE
  /\ Refresh
  /\ UNCHANGED <<driver, control, cache, op, seen, stale>>

\* LiveRemoveFile's thunk for the file that defined the device
RemoveFile ==
  /\ Idle /\ ~ loading /\ local /\ current # 0
  /\ Control(0, value)
  /\ Refresh
  /\ UNCHANGED <<local, made, watched, control, cache, op, loading, stale>>

-----------------------------------------------------------------------------

Init ==
  /\ local \in BOOLEAN
  /\ current = 0 /\ made = 0
  /\ value = [c \in Controls |-> NoValue]
  /\ watched = {}
  /\ devProxy = "none" /\ control = NoProxy
  /\ cache = [valid |-> FALSE, value |-> NoValue]
  /\ op = NoOp
  /\ loading = FALSE
  /\ seen = {} /\ stale = FALSE

SyncLoop ==
  \/ GetDeviceProxy \/ \E v \in Values : Begin("set", v)
  \/ \E kind \in {"value", "raw"} : Begin(kind, NoValue)
  \/ Target \/ LookAt \/ FindTarget \/ Find \/ CheckCache
  \/ AccessRaw \/ Access \/ AccessFails \/ Store
  \/ \E notify \in BOOLEAN, v \in Values : Write(notify, v)
  \/ TellCache \/ Done
  \/ BeginLoad \/ (\E v \in Values : DefineDevice(v)) \/ EndLoad \/ RemoveFile

Driver ==
  \/ \E v \in Values : Receive(v)
  \/ \E c \in 0 .. MaxControls : ReceiveMeta(c)

Next == SyncLoop \/ Driver

Spec == Init /\ [][Next]_vars

-----------------------------------------------------------------------------

\* The control objects and 0, which is none
Objects == 0 .. MaxControls

\* What is known of an access
Accesses ==
  [kind: {"none", "value", "raw", "set"},
   step: {"idle", "target", "findTarget", "look", "find", "check", "access", "store",
          "write", "tell", "done"},
   set: Values \cup {NoValue}, target: Objects, ctrl: Objects,
   got: Values \cup {NoValue}, fresh: BOOLEAN, lags: BOOLEAN]

\* The driver's side
DriverType ==
  /\ local \in BOOLEAN
  /\ made \in Objects /\ current \in Objects
  /\ value \in [Controls -> Values \cup {NoValue}]
  /\ watched \subseteq Controls

\* The proxies' side
ProxyType ==
  /\ devProxy \in {"none", "same", "changed"}
  /\ control \in {NoProxy} \cup Objects
  /\ cache \in [valid: BOOLEAN, value: Values \cup {NoValue}]
  /\ cache.valid => cache.value \in Values

\* The access and the load
AccessType ==
  /\ op \in Accesses
  /\ loading \in BOOLEAN /\ stale \in BOOLEAN
  /\ seen \subseteq Values \cup {NoValue}

\* Types; the cache never holds what could not be read.
TypeOK == DriverType /\ ProxyType /\ AccessType

\* A script reads a value that the control has had since the script asked for it.
\* The exceptions are a cache that an update or a quiet write has passed by or that was
\* told a value the control did not take, and an old control read while its file is being
\* loaded anew; a proxy that is out of date has none, for it looks afresh each time.
ReadsAreCurrent ==
  op.step \in {"done", "write"} => op.got \in seen \/ op.lags

\* While a proxy is up to date its cache holds the control's value, whoever changed
\* it and whenever, unless it was passed by or told what the control did not take; the
\* next update of the control, or the next write that is not quiet and that the control
\* takes, puts that right.
CacheFollowsControl ==
  cache.valid /\ devProxy = "same" /\ control = current /\ current # 0
  /\ op.step # "tell" /\ ~ stale
  => cache.value = value[current] \/ op.step = "store"

\* Outside of loads a proxy that is up to date has the driver's control or none, and
\* nobody writes into the control of a virtual device that has been removed.
ProxyFollowsDevice ==
  ~ loading =>
    /\ devProxy = "same" => control \in {NoProxy, 0, current}
    /\ op.step = "write" /\ local => op.target = current

=============================================================================
