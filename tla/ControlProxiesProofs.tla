------------------------ MODULE ControlProxiesProofs ------------------------
(***************************************************************************)
(* Proofs about ControlProxies, for every set of values and every number   *)
(* of control objects.                                                     *)
(***************************************************************************)
EXTENDS ControlProxies, TLAPS

\* Steps of an access that knows the control to write
AfterTarget == {"look", "find", "check", "access", "store", "write", "tell"}

\* What an access knows at each of its steps
OpOK ==
  /\ Idle => op = NoOp
  /\ ~ Idle => op.kind # "none" /\ control # NoProxy /\ devProxy # "none"
  /\ op.kind = "set" => op.set \in Values
  /\ op.step \in {"target", "findTarget", "write", "tell"} => op.kind = "set"
  /\ op.kind = "set" /\ op.step \in AfterTarget => op.target # 0
  /\ op.step \in {"check", "access", "store"} => op.ctrl # 0
  /\ op.step \in {"check", "store"} => op.kind # "raw"
  /\ op.step = "store" => op.got \in Values
  /\ op.step \in {"target", "findTarget", "look", "find", "check", "access"}
     => op.got = NoValue
  /\ op.step = "tell" => local

\* The proxy and the driver's control
DeviceOK ==
  /\ devProxy = "none" => control = NoProxy
  /\ devProxy = "same" /\ ~ (local /\ loading) => control \in {NoProxy, 0, current}
  /\ local => \A c \in 1 .. made : value[c] \in Values
  /\ op.kind = "set" /\ op.step \in AfterTarget /\ local /\ ~ loading
     => op.target = current
  /\ local /\ op.step \in {"findTarget", "find"} /\ ~ op.fresh => devProxy # "changed"
  /\ watched \subseteq 1 .. made
  /\ current <= made /\ control <= made /\ op.ctrl <= made /\ op.target <= made

\* A proxy that has never been out of date has one control: an access uses it, and
\* what is cached is watched.
SameOK ==
  /\ devProxy # "changed" /\ control \in {NoProxy, 0} => watched = {} /\ ~ cache.valid
  /\ devProxy = "same" =>
       /\ ~ op.fresh /\ watched \subseteq {control}
       /\ op.step \in {"check", "access", "store"} => op.ctrl = control
       /\ op.kind = "set" /\ op.step \in AfterTarget => op.target = control
       /\ cache.valid => control \in watched
       /\ op.step = "store" => control \in watched
       /\ op.step \in {"write", "tell"} /\ local => control \in watched

\* What is about to be cached is the control's value unless an update has come.
CacheOK ==
  /\ cache.valid /\ devProxy = "same" /\ control = current /\ current # 0
     /\ op.step # "tell" /\ ~ stale => cache.value = value[current]
  /\ devProxy = "same" /\ control = current /\ ~ stale =>
       /\ op.step = "store" => op.got = value[current]
       /\ op.step = "tell" => op.set = value[current]
  /\ op.step = "access" /\ op.kind # "raw" /\ cache.valid => ~ stale

\* What the access can return has been the control's value meanwhile.
SeenOK ==
  /\ ~ Idle => ValueOf(value, current) \in seen
  /\ ~ Idle /\ control = 0 => NoValue \in seen
  /\ op.step \in {"findTarget", "find"} /\ ~ op.fresh /\ control # 0
     => value[control] \in seen \/ (local /\ loading)
  /\ op.step \in {"check", "access"}
     => value[op.ctrl] \in seen \/ (local /\ loading /\ ~ op.fresh)
  /\ op.step \in {"find", "check"} /\ op.fresh /\ cache.valid => cache.value \in seen
  /\ op.step \in {"find", "check"} /\ ~ op.fresh /\ cache.valid /\ ~ stale /\ ~ loading
     /\ (control # 0 \/ op.step = "check") => cache.value \in seen
  /\ op.step \in {"store", "done", "write"} => op.got \in seen \/ op.lags

IInv == TypeOK /\ OpOK /\ DeviceOK /\ SameOK /\ CacheOK /\ SeenOK

\* What an access is while there is none.
LEMMA NoOpType ==
  /\ NoOp \in Accesses
  /\ NoOp.kind = "none" /\ NoOp.step = "idle" /\ NoOp.set = NoValue /\ NoOp.target = 0
  /\ NoOp.ctrl = 0 /\ NoOp.got = NoValue /\ NoOp.fresh = FALSE /\ NoOp.lags = FALSE
BY ProxyAssumption DEF NoOp, Accesses, Objects

\* What the handler and a store put into the cache
LEMMA CachedType ==
  ASSUME NEW v \in Values
  PROVE  [valid |-> TRUE, value |-> v] \in [valid: BOOLEAN, value: Values \cup {NoValue}]
OBVIOUS

\* A control object's number is not zero.
LEMMA Positive ==
  ASSUME NEW m \in Nat, NEW c \in 0 .. m, c # 0
  PROVE  c \in 1 .. m
OBVIOUS

\* Every number is a control object or stands for none.
LEMMA Ranges ==
  ASSUME IInv
  PROVE  /\ MaxControls \in Nat /\ NoValue \notin Values
         /\ made \in Nat /\ current \in 0 .. made /\ made <= MaxControls
         /\ control \in {NoProxy} \cup 0 .. made
         /\ op.ctrl \in 0 .. made /\ op.target \in 0 .. made
         /\ \A c \in 1 .. made : c \in Controls /\ value[c] \in Values \cup {NoValue}
         /\ \A c \in 0 .. made : ValueOf(value, c) \in Values \cup {NoValue}
<1>1. MaxControls \in Nat /\ NoValue \notin Values
  BY ProxyAssumption
<1>2. made \in Nat /\ current \in 0 .. made /\ made <= MaxControls
  <2>1. made \in Objects /\ current \in Objects
    BY DEF IInv, TypeOK, DriverType
  <2>2. current <= made
    BY DEF IInv, DeviceOK
  <2> QED BY <1>1, <2>1, <2>2 DEF Objects
<1>3. control \in {NoProxy} \cup 0 .. made
  <2>1. control \in {NoProxy} \cup Objects
    BY DEF IInv, TypeOK, ProxyType
  <2>2. control <= made
    BY DEF IInv, DeviceOK
  <2> QED BY <1>1, <1>2, <2>1, <2>2 DEF Objects
<1>4. op.ctrl \in 0 .. made /\ op.target \in 0 .. made
  <2>1. op.ctrl \in Objects /\ op.target \in Objects
    BY DEF IInv, TypeOK, AccessType, Accesses
  <2>2. op.ctrl <= made /\ op.target <= made
    BY DEF IInv, DeviceOK
  <2> QED BY <1>1, <1>2, <2>1, <2>2 DEF Objects
<1>5. \A c \in 1 .. made : c \in Controls /\ value[c] \in Values \cup {NoValue}
  BY <1>1, <1>2 DEF IInv, TypeOK, DriverType, Controls
<1>6. \A c \in 0 .. made : ValueOf(value, c) \in Values \cup {NoValue}
  BY <1>2, <1>5 DEF ValueOf
<1> QED BY <1>1, <1>2, <1>3, <1>4, <1>5, <1>6

-----------------------------------------------------------------------------
(* Every step preserves the invariant *)

\* A device proxy alone knows no control.
LEMMA GetDeviceProxyStep ==
  ASSUME IInv, GetDeviceProxy
  PROVE  IInv'
<1>1. DriverType'
  BY DEF IInv, TypeOK, DriverType, driver, proxies, GetDeviceProxy
<1>2. ProxyType'
  BY DEF IInv, TypeOK, ProxyType, driver, proxies, GetDeviceProxy
<1>3. AccessType'
  BY DEF IInv, TypeOK, AccessType, driver, proxies, GetDeviceProxy
<1>4. OpOK'
  BY DEF IInv, OpOK, Idle, driver, proxies, GetDeviceProxy
<1>5. DeviceOK'
  BY DEF IInv, DeviceOK, driver, proxies, GetDeviceProxy
<1>6. SameOK'
  BY NoOpType DEF IInv, TypeOK, OpOK, DeviceOK, SameOK, driver, proxies, GetDeviceProxy
<1>7. CacheOK'
  BY DEF IInv, DeviceOK, SameOK, CacheOK, Idle, driver, proxies, GetDeviceProxy
<1>8. SeenOK'
  BY DEF IInv, SeenOK, Idle, driver, proxies, GetDeviceProxy
<1> QED BY <1>1, <1>2, <1>3, <1>4, <1>5, <1>6, <1>7, <1>8 DEF IInv, TypeOK

\* A read begins with the value of the moment as all that has been seen.
LEMMA BeginStep ==
  ASSUME IInv, NEW k \in {"value", "raw"}, Begin(k, NoValue)
  PROVE  IInv'
<1>1. /\ op' \in Accesses /\ op'.kind = k /\ op'.step = "look" /\ op'.set = NoValue
      /\ op'.target = 0 /\ op'.ctrl = 0 /\ op'.got = NoValue
      /\ op'.fresh = FALSE /\ op'.lags = FALSE
  BY NoOpType DEF IInv, Accesses, driver, proxies, Begin
<1>2. /\ seen' = {ValueOf(value, current)}
      /\ control \in {NoProxy, 0} => control' = current
      /\ control \notin {NoProxy, 0} => control' = control
      /\ devProxy = "none" => devProxy' = "same"
      /\ devProxy # "none" => devProxy' = devProxy
      /\ op = NoOp /\ UNCHANGED <<local, current, made, value, watched, cache, loading, stale>>
  BY DEF IInv, OpOK, driver, proxies, Begin
<1>3. control' # NoProxy /\ devProxy' # "none"
  BY Ranges, <1>2 DEF NoProxy, IInv
<1>4. DriverType'
  BY <1>2 DEF IInv, TypeOK, DriverType
<1>5. ProxyType'
  BY <1>2 DEF IInv, TypeOK, DriverType, ProxyType
<1>6. AccessType'
  BY Ranges, <1>1, <1>2 DEF IInv, TypeOK, AccessType
<1>7. OpOK'
  BY <1>1, <1>2, <1>3 DEF IInv, OpOK, Idle
<1>8. DeviceOK'
  BY NoOpType, <1>1, <1>2, <1>3 DEF IInv, DeviceOK
<1>9. SameOK'
  BY <1>1, <1>2, <1>3 DEF IInv, TypeOK, DeviceOK, SameOK
<1>10. CacheOK'
  BY NoOpType, <1>1, <1>2, <1>3 DEF IInv, DeviceOK, SameOK, CacheOK
<1>11. SeenOK'
  BY <1>1, <1>2 DEF IInv, SeenOK, ValueOf
<1> QED BY <1>4, <1>5, <1>6, <1>7, <1>8, <1>9, <1>10, <1>11 DEF IInv, TypeOK

\* A write begins as a read does.
LEMMA BeginSetStep ==
  ASSUME IInv, NEW v \in Values, Begin("set", v)
  PROVE  IInv'
<1>1. /\ op' \in Accesses /\ op'.kind = "set" /\ op'.step = "target" /\ op'.set = v
      /\ op'.target = 0 /\ op'.ctrl = 0 /\ op'.got = NoValue
      /\ op'.fresh = FALSE /\ op'.lags = FALSE
  BY NoOpType DEF IInv, Accesses, driver, proxies, Begin
<1>2. /\ seen' = {ValueOf(value, current)}
      /\ control \in {NoProxy, 0} => control' = current
      /\ control \notin {NoProxy, 0} => control' = control
      /\ devProxy = "none" => devProxy' = "same"
      /\ devProxy # "none" => devProxy' = devProxy
      /\ op = NoOp /\ UNCHANGED <<local, current, made, value, watched, cache, loading, stale>>
  BY DEF IInv, OpOK, driver, proxies, Begin
<1>3. control' # NoProxy /\ devProxy' # "none"
  BY Ranges, <1>2 DEF NoProxy, IInv
<1>4. DriverType'
  BY <1>2 DEF IInv, TypeOK, DriverType
<1>5. ProxyType'
  BY <1>2 DEF IInv, TypeOK, DriverType, ProxyType
<1>6. AccessType'
  BY Ranges, <1>1, <1>2 DEF IInv, TypeOK, AccessType
<1>7. OpOK'
  BY <1>1, <1>2, <1>3 DEF IInv, OpOK, Idle, AfterTarget
<1>8. DeviceOK'
  BY NoOpType, <1>1, <1>2, <1>3 DEF IInv, DeviceOK, AfterTarget
<1>9. SameOK'
  BY <1>1, <1>2, <1>3 DEF IInv, TypeOK, DeviceOK, SameOK, AfterTarget
<1>10. CacheOK'
  BY NoOpType, <1>1, <1>2, <1>3 DEF IInv, DeviceOK, SameOK, CacheOK
<1>11. SeenOK'
  BY <1>1, <1>2 DEF IInv, SeenOK, ValueOf
<1> QED BY <1>4, <1>5, <1>6, <1>7, <1>8, <1>9, <1>10, <1>11 DEF IInv, TypeOK

\* A proxy that is out of date loses its cache before it is used.
LEMMA TargetStep ==
  ASSUME IInv, Target
  PROVE  IInv'
<1>1. /\ UNCHANGED <<local, current, made, value, watched, devProxy,
                     control, loading, seen, stale>>
      /\ devProxy = "changed" => /\ cache' = [cache EXCEPT !.valid = FALSE]
                                 /\ cache'.valid = FALSE
      /\ devProxy # "changed" => cache' = cache
  BY DEF IInv, driver, proxies, Target, Updated
<1>2. /\ op' \in Accesses /\ op'.target = op.target /\ op'.ctrl = op.ctrl /\ op'.got = op.got
      /\ op'.kind = op.kind /\ op'.set = op.set /\ op'.lags = op.lags
      /\ op.step = "target" /\ op'.step = "findTarget" /\ op'.fresh = (devProxy = "changed")
  BY DEF IInv, TypeOK, AccessType, Accesses, driver, proxies, Target, Updated
<1>3. DriverType'
  BY <1>1 DEF IInv, TypeOK, DriverType
<1>4. ProxyType'
  BY <1>1 DEF IInv, TypeOK, ProxyType
<1>5. AccessType'
  BY <1>1, <1>2 DEF IInv, TypeOK, AccessType
<1>6. OpOK'
  BY <1>1, <1>2 DEF IInv, OpOK, AfterTarget, Idle
<1>7. DeviceOK'
  BY <1>1, <1>2 DEF IInv, DeviceOK, AfterTarget
<1>8. SameOK'
  BY <1>1, <1>2 DEF IInv, SameOK, AfterTarget
<1>9. CacheOK'
  BY <1>1, <1>2 DEF IInv, CacheOK
<1>10. SeenOK'
  BY <1>1, <1>2 DEF IInv, TypeOK, ProxyType, OpOK, DeviceOK, CacheOK, SeenOK, Idle, ValueOf
<1> QED BY <1>3, <1>4, <1>5, <1>6, <1>7, <1>8, <1>9, <1>10 DEF IInv, TypeOK

\* The same for the control that a read looks at
LEMMA LookAtStep ==
  ASSUME IInv, LookAt
  PROVE  IInv'
<1>1. /\ UNCHANGED <<local, current, made, value, watched, devProxy,
                     control, loading, seen, stale>>
      /\ devProxy = "changed" => /\ cache' = [cache EXCEPT !.valid = FALSE]
                                 /\ cache'.valid = FALSE
      /\ devProxy # "changed" => cache' = cache
  BY DEF IInv, driver, proxies, LookAt, Updated
<1>2. /\ op' \in Accesses /\ op'.target = op.target /\ op'.ctrl = op.ctrl /\ op'.got = op.got
      /\ op'.kind = op.kind /\ op'.set = op.set /\ op'.lags = op.lags
      /\ op.step = "look" /\ op'.step = "find" /\ op'.fresh = (devProxy = "changed")
  BY DEF IInv, TypeOK, AccessType, Accesses, driver, proxies, LookAt, Updated
<1>3. DriverType'
  BY <1>1 DEF IInv, TypeOK, DriverType
<1>4. ProxyType'
  BY <1>1 DEF IInv, TypeOK, ProxyType
<1>5. AccessType'
  BY <1>1, <1>2 DEF IInv, TypeOK, AccessType
<1>6. OpOK'
  BY <1>1, <1>2 DEF IInv, OpOK, AfterTarget, Idle
<1>7. DeviceOK'
  BY <1>1, <1>2 DEF IInv, DeviceOK, AfterTarget
<1>8. SameOK'
  BY <1>1, <1>2 DEF IInv, SameOK, AfterTarget
<1>9. CacheOK'
  BY <1>1, <1>2 DEF IInv, CacheOK
<1>10. SeenOK'
  BY <1>1, <1>2 DEF IInv, TypeOK, ProxyType, OpOK, DeviceOK, CacheOK, SeenOK, Idle, ValueOf
<1> QED BY <1>3, <1>4, <1>5, <1>6, <1>7, <1>8, <1>9, <1>10 DEF IInv, TypeOK

\* The control to write is the present one, or that of a proxy up to date.
LEMMA FindTargetStep ==
  ASSUME IInv, FindTarget
  PROVE  IInv'
<1>1. /\ op.step = "findTarget" /\ op.kind = "set"
      /\ op.fresh => control' = current
      /\ ~ op.fresh => control' = control
      /\ UNCHANGED <<local, current, made, value, watched, devProxy,
                     cache, loading, seen, stale>>
  BY DEF IInv, OpOK, driver, proxies, FindTarget, Lookup
<1>2. control' \in 0 .. made /\ control' \in Objects
  <2>1. control # NoProxy
    BY <1>1 DEF IInv, OpOK, Idle
  <2>2. control \in 0 .. made /\ current \in 0 .. made /\ 0 .. made \subseteq Objects
    BY <2>1, Ranges DEF Objects
  <2>3. control' \in {control, current}
    BY <1>1 DEF IInv
  <2> QED BY <2>2, <2>3
<1>3. control' = 0 => op' = NoOp
  BY Ranges DEF IInv, driver, proxies, FindTarget, Lookup
<1>4. control' # 0 =>
           /\ op' \in Accesses /\ op'.step = "look" /\ op'.target = control'
           /\ op'.kind = op.kind /\ op'.set = op.set /\ op'.ctrl = op.ctrl /\ op'.got = op.got
           /\ op'.fresh = op.fresh /\ op'.lags = op.lags
  BY DEF IInv, TypeOK, DriverType, ProxyType, AccessType, OpOK, Accesses, Idle, driver,
     proxies, FindTarget, Lookup
<1>5. control' # NoProxy
  BY <1>2 DEF NoProxy
<1>6. DriverType'
  BY <1>1, <1>2 DEF IInv, TypeOK, DriverType
<1>7. ProxyType'
  BY <1>1, <1>2 DEF IInv, TypeOK, ProxyType
<1>8. AccessType'
  BY NoOpType, <1>1, <1>2, <1>3, <1>4 DEF IInv, TypeOK, AccessType
<1>9. OpOK'
  BY <1>1, <1>2, <1>3, <1>4, <1>5, NoOpType DEF IInv, OpOK, Idle
<1>10. DeviceOK'
  BY <1>1, <1>2, <1>3, <1>4, <1>5, NoOpType DEF IInv, OpOK, DeviceOK, Idle, TypeOK, ProxyType
<1>11. SameOK'
  BY NoOpType, <1>1, <1>3, <1>4, <1>5 DEF IInv, TypeOK, ProxyType, DeviceOK, SameOK
<1>12. CacheOK'
  BY NoOpType, <1>1, <1>3, <1>4, <1>5 DEF IInv, TypeOK, ProxyType, DeviceOK, SameOK, CacheOK
<1>13. SeenOK'
  BY NoOpType, <1>1, <1>3, <1>4 DEF IInv, SeenOK, Idle
<1> QED BY <1>6, <1>7, <1>8, <1>9, <1>10, <1>11, <1>12, <1>13 DEF IInv, TypeOK

\* The same for the control to read
LEMMA FindStep ==
  ASSUME IInv, Find
  PROVE  IInv'
<1>1. /\ op.step = "find"
      /\ op.fresh => control' = current
      /\ ~ op.fresh => control' = control
      /\ UNCHANGED <<local, current, made, value, watched, devProxy,
                     cache, loading, seen, stale>>
  BY DEF IInv, driver, proxies, Find, Lookup
<1>2. control' \in 0 .. made /\ control' \in Objects
  <2>1. control # NoProxy
    BY <1>1 DEF IInv, OpOK, Idle
  <2>2. control \in 0 .. made /\ current \in 0 .. made /\ 0 .. made \subseteq Objects
    BY <2>1, Ranges DEF Objects
  <2>3. control' \in {control, current}
    BY <1>1 DEF IInv
  <2> QED BY <2>2, <2>3
<1>3. /\ op' \in Accesses /\ op'.ctrl = control' /\ op'.target = op.target
      /\ op'.kind = op.kind /\ op'.set = op.set /\ op'.got = op.got
      /\ op'.fresh = op.fresh /\ op'.lags = op.lags
  BY <1>2 DEF IInv, TypeOK, AccessType, Accesses, Find
<1>4. /\ control' # 0 /\ op.kind = "raw" => op'.step = "access"
      /\ control' # 0 /\ op.kind # "raw" => op'.step = "check"
      /\ control' = 0 /\ op.kind = "set" => op'.step = "write"
      /\ control' = 0 /\ op.kind # "set" => op'.step = "done"
  BY DEF IInv, TypeOK, AccessType, Accesses, Find
<1>5. DriverType'
  BY <1>1 DEF IInv, TypeOK, DriverType
<1>6. ProxyType'
  BY <1>1, <1>2 DEF IInv, TypeOK, ProxyType
<1>7. AccessType'
  BY <1>1, <1>2, <1>3 DEF IInv, TypeOK, AccessType
<1>8. OpOK'
  BY <1>1, <1>2, <1>3, <1>4 DEF IInv, OpOK, Idle, NoProxy, AfterTarget
<1>9. DeviceOK'
  BY <1>1, <1>2, <1>3, <1>4 DEF IInv, OpOK, DeviceOK, AfterTarget, Idle
<1>10. SameOK'
  BY <1>1, <1>2, <1>3, <1>4 DEF IInv, TypeOK, ProxyType, OpOK, DeviceOK, SameOK, AfterTarget
<1>11. CacheOK'
  BY <1>1, <1>2, <1>3, <1>4 DEF IInv, TypeOK, ProxyType, DeviceOK, SameOK, CacheOK
<1>12. SeenOK'
  BY <1>1, <1>3, <1>4 DEF IInv, OpOK, SeenOK, Idle, ValueOf
<1> QED BY <1>5, <1>6, <1>7, <1>8, <1>9, <1>10, <1>11, <1>12 DEF IInv, TypeOK

\* A valid cache answers the read: what it holds has been seen, or was passed by.
LEMMA CheckCacheStep ==
  ASSUME IInv, CheckCache
  PROVE  IInv'
<1>1. /\ op.step = "check"
      /\ UNCHANGED <<local, current, made, value, watched, devProxy,
                     control, cache, loading, seen, stale>>
  BY DEF IInv, driver, proxies, CheckCache, AfterRead
<1>2. /\ op' \in Accesses /\ op'.ctrl = op.ctrl /\ op'.target = op.target
      /\ op'.kind = op.kind /\ op'.set = op.set /\ op'.fresh = op.fresh
  BY DEF IInv, TypeOK, ProxyType, AccessType, Accesses, driver, proxies, CheckCache, AfterRead
<1>3. /\ cache.valid => op'.got = cache.value
      /\ cache.valid /\ op.kind = "set" => op'.step = "write"
      /\ cache.valid /\ op.kind # "set" => op'.step = "done"
      /\ cache.valid => op'.lags = (~ op.fresh /\ (stale \/ loading))
  BY DEF IInv, TypeOK, ProxyType, AccessType, Accesses, driver, proxies, CheckCache, AfterRead
<1>4. ~ cache.valid => op'.got = op.got /\ op'.step = "access"
  BY DEF IInv, driver, proxies, CheckCache, AfterRead
<1>5. /\ op'.step \in {"write", "done", "access"}
      /\ op'.step = "write" => op.kind = "set"
      /\ op'.step = "access" => op'.got = NoValue /\ ~ cache.valid
  BY <1>1, <1>3, <1>4 DEF IInv, OpOK
<1>6. DriverType'
  BY <1>1, <1>3, <1>4 DEF IInv, TypeOK, DriverType
<1>7. ProxyType'
  BY <1>1, <1>3, <1>4 DEF IInv, TypeOK, ProxyType
<1>8. AccessType'
  BY <1>1, <1>2, <1>3, <1>4 DEF IInv, TypeOK, AccessType
<1>9. OpOK'
  BY <1>1, <1>2, <1>3, <1>4 DEF IInv, OpOK, Idle, AfterTarget
<1>10. DeviceOK'
  BY <1>1, <1>2, <1>3, <1>4 DEF IInv, DeviceOK, AfterTarget
<1>11. SameOK'
  BY <1>1, <1>2, <1>3, <1>4 DEF IInv, SameOK, AfterTarget
<1>12. CacheOK'
  BY <1>1, <1>2, <1>3, <1>4 DEF IInv, CacheOK
<1>13. SeenOK'
  BY <1>1, <1>2, <1>3, <1>4 DEF IInv, SeenOK, Idle
<1> QED BY <1>6, <1>7, <1>8, <1>9, <1>10, <1>11, <1>12, <1>13 DEF IInv, TypeOK

\* The driver's answer is the control's value of the moment.
LEMMA AccessRawStep ==
  ASSUME IInv, AccessRaw
  PROVE  IInv'
<1>1. /\ op.step = "access" /\ op.kind = "raw"
      /\ UNCHANGED <<local, current, made, value, watched, devProxy,
                     control, cache, loading, seen, stale>>
  BY DEF IInv, driver, proxies, AccessRaw
<1>2. /\ op' \in Accesses /\ op'.ctrl = op.ctrl /\ op'.target = op.target
      /\ op'.kind = op.kind /\ op'.set = op.set /\ op'.fresh = op.fresh
      /\ op'.got = value[op.ctrl] /\ op'.step = "done"
      /\ op'.lags = (~ op.fresh /\ loading)
  BY Ranges DEF IInv, TypeOK, AccessType, OpOK, Accesses, ValueOf, driver, proxies, AccessRaw
<1>3. DriverType'
  BY <1>1 DEF IInv, TypeOK, DriverType
<1>4. ProxyType'
  BY <1>1 DEF IInv, TypeOK, ProxyType
<1>5. AccessType'
  BY <1>1, <1>2 DEF IInv, TypeOK, AccessType
<1>6. OpOK'
  BY <1>1, <1>2 DEF IInv, OpOK, Idle
<1>7. DeviceOK'
  BY <1>1, <1>2 DEF IInv, DeviceOK
<1>8. SameOK'
  BY <1>1, <1>2 DEF IInv, SameOK
<1>9. CacheOK'
  BY <1>1, <1>2 DEF IInv, CacheOK
<1>10. SeenOK'
  BY <1>1, <1>2 DEF IInv, SeenOK, Idle
<1> QED BY <1>3, <1>4, <1>5, <1>6, <1>7, <1>8, <1>9, <1>10 DEF IInv, TypeOK

\* The transaction of a read also makes the cache follow from now on.
LEMMA AccessStep ==
  ASSUME IInv, Access
  PROVE  IInv'
<1>1. /\ op.step = "access" /\ op.kind # "raw" /\ value[op.ctrl] \in Values
      /\ watched' = watched \cup {op.ctrl} /\ stale' = FALSE
      /\ UNCHANGED <<local, current, made, value, devProxy, control, cache, loading, seen>>
  BY Ranges DEF IInv, OpOK, ValueOf, driver, proxies, Access
<1>2. /\ op' \in Accesses /\ op'.ctrl = op.ctrl /\ op'.target = op.target
      /\ op'.kind = op.kind /\ op'.set = op.set /\ op'.fresh = op.fresh
      /\ op'.got = value[op.ctrl] /\ op'.step = "store"
      /\ op'.lags = (~ op.fresh /\ loading)
  BY Ranges DEF IInv, TypeOK, AccessType, OpOK, Accesses, ValueOf, driver, proxies, Access
<1>3. op.ctrl \in 1 .. made /\ op.ctrl \in Controls
  BY Ranges, <1>1 DEF IInv, OpOK
<1>4. DriverType'
  BY <1>1, <1>3 DEF IInv, TypeOK, DriverType
<1>5. ProxyType'
  BY <1>1, <1>3 DEF IInv, TypeOK, ProxyType
<1>6. AccessType'
  BY <1>1, <1>2, <1>3 DEF IInv, TypeOK, AccessType
<1>7. OpOK'
  BY <1>1, <1>2, <1>3 DEF IInv, OpOK, AfterTarget, Idle
<1>8. DeviceOK'
  BY <1>1, <1>2, <1>3 DEF IInv, DeviceOK, AfterTarget
<1>9. SameOK'
  BY <1>1, <1>2, <1>3 DEF IInv, TypeOK, ProxyType, OpOK, SameOK, AfterTarget, Idle
<1>10. CacheOK'
  BY <1>1, <1>2, <1>3 DEF IInv, CacheOK, TypeOK, ProxyType, SameOK
<1>11. SeenOK'
  BY <1>1, <1>2, <1>3 DEF IInv, SeenOK, Idle
<1> QED BY <1>4, <1>5, <1>6, <1>7, <1>8, <1>9, <1>10, <1>11 DEF IInv, TypeOK

\* Without a value there is nothing to store.
LEMMA AccessFailsStep ==
  ASSUME IInv, AccessFails
  PROVE  IInv'
<1>1. /\ op.step = "access" /\ op.kind # "raw" /\ value[op.ctrl] = NoValue
      /\ UNCHANGED <<local, current, made, value, watched, devProxy,
                     control, cache, loading, seen, stale>>
  BY DEF IInv, driver, proxies, AccessFails, AfterRead
<1>2. /\ op' \in Accesses /\ op'.ctrl = op.ctrl /\ op'.target = op.target
      /\ op'.kind = op.kind /\ op'.set = op.set /\ op'.fresh = op.fresh /\ op'.lags = op.lags
      /\ op'.got = op.got
      /\ op.kind = "set" => op'.step = "write"
      /\ op.kind # "set" => op'.step = "done"
  BY DEF IInv, TypeOK, AccessType, Accesses, driver, proxies, AccessFails, AfterRead
<1>3. DriverType'
  BY <1>1 DEF IInv, TypeOK, DriverType
<1>4. ProxyType'
  BY <1>1 DEF IInv, TypeOK, ProxyType
<1>5. AccessType'
  BY <1>1, <1>2 DEF IInv, TypeOK, AccessType
<1>6. OpOK'
  BY <1>1, <1>2 DEF IInv, OpOK, AfterTarget, Idle
<1>7. DeviceOK'
  BY <1>1, <1>2 DEF IInv, DeviceOK, AfterTarget
<1>8. SameOK'
  BY Ranges, <1>1, <1>2 DEF IInv, TypeOK, OpOK, DeviceOK, SameOK, AfterTarget
<1>9. CacheOK'
  BY <1>1, <1>2 DEF IInv, CacheOK
<1>10. SeenOK'
  BY <1>1, <1>2, Ranges DEF IInv, SeenOK, Idle, OpOK, DeviceOK, CacheOK
<1> QED BY <1>3, <1>4, <1>5, <1>6, <1>7, <1>8, <1>9, <1>10 DEF IInv, TypeOK

\* An update that came after the transaction is known to have passed the cache by.
LEMMA StoreStep ==
  ASSUME IInv, Store
  PROVE  IInv'
<1>1. /\ op.step = "store" /\ op.got \in Values
      /\ cache'.valid = TRUE /\ cache'.value = op.got
      /\ cache' \in [valid: BOOLEAN, value: Values \cup {NoValue}]
      /\ UNCHANGED <<local, current, made, value, watched, devProxy,
                     control, loading, seen, stale>>
  BY DEF IInv, OpOK, driver, proxies, Store, AfterRead
<1>2. /\ op' \in Accesses /\ op'.ctrl = op.ctrl /\ op'.target = op.target
      /\ op'.kind = op.kind /\ op'.set = op.set /\ op'.fresh = op.fresh
      /\ op'.got = op.got /\ op'.lags = op.lags
      /\ op.kind = "set" => op'.step = "write"
      /\ op.kind # "set" => op'.step = "done"
  BY DEF IInv, TypeOK, AccessType, Accesses, driver, proxies, Store, AfterRead
<1>3. DriverType'
  BY <1>1 DEF IInv, TypeOK, DriverType
<1>4. ProxyType'
  BY <1>1 DEF IInv, TypeOK, ProxyType
<1>5. AccessType'
  BY <1>1, <1>2 DEF IInv, TypeOK, AccessType
<1>6. OpOK'
  BY <1>1, <1>2 DEF IInv, OpOK, AfterTarget, Idle
<1>7. DeviceOK'
  BY <1>1, <1>2 DEF IInv, DeviceOK, AfterTarget
<1>8. SameOK'
  BY <1>1, <1>2 DEF IInv, TypeOK, ProxyType, OpOK, SameOK, AfterTarget, Idle
<1>9. CacheOK'
  BY <1>1, <1>2 DEF IInv, CacheOK
<1>10. SeenOK'
  BY <1>1, <1>2 DEF IInv, SeenOK, Idle
<1> QED BY <1>3, <1>4, <1>5, <1>6, <1>7, <1>8, <1>9, <1>10 DEF IInv, TypeOK

\* The driver's control and the access's target are the same; the cache is told next.
LEMMA WriteStep ==
  ASSUME IInv, NEW n \in BOOLEAN, NEW v \in Values, Write(n, v)
  PROVE  IInv'
<1>1. /\ op.step = "write" /\ op.kind = "set" /\ op.set \in Values /\ op.target \in Controls
      /\ op.target \in 1 .. made /\ current' = current
      /\ UNCHANGED <<local, made, watched, devProxy, control, cache, loading>>
  BY Ranges DEF Write, Control, proxies, IInv, OpOK, AfterTarget
<1>2. ASSUME local
      PROVE  /\ value' = [value EXCEPT ![op.target] = v]
             /\ seen' = seen \cup {ValueOf(value', current)}
             /\ stale' \in BOOLEAN
             /\ (n /\ ~ stale') => v = op.set
             /\ (~ n /\ ~ stale') => (~ stale /\ v = value[op.target])
  <2>1. /\ Control(current, [value EXCEPT ![op.target] = v])
        /\ stale' = IF n THEN v # op.set ELSE stale \/ v # value[op.target]
    BY <1>2 DEF Write
  <2>2. value' = [value EXCEPT ![op.target] = v]
    BY <2>1 DEF Control
  <2>3. ~ Idle
    BY <1>1 DEF Idle
  <2>4. seen' = seen \cup {ValueOf(value', current)}
    BY <2>1, <2>2, <2>3 DEF Control
  <2>5. stale \in BOOLEAN
    BY DEF IInv, TypeOK, AccessType
  <2> QED BY <2>1, <2>2, <2>4, <2>5
<1>3. ~ local => UNCHANGED <<value, seen, stale>>
  BY Ranges DEF IInv, driver, proxies, Write, Control
<1>4. ~ (local /\ n) => op' = NoOp
  BY DEF IInv, driver, proxies, Write, Control
<1>5. local /\ n =>
           /\ op' \in Accesses /\ op'.step = "tell" /\ op'.target = op.target
           /\ op'.kind = op.kind /\ op'.set = op.set /\ op'.ctrl = op.ctrl /\ op'.got = op.got
           /\ op'.fresh = op.fresh /\ op'.lags = op.lags
  BY DEF IInv, TypeOK, AccessType, Accesses, driver, proxies, Write, Control
<1>6. /\ value' \in [Controls -> Values \cup {NoValue}]
      /\ local => value'[op.target] = v
      /\ \A c \in Controls : value'[c] = value[c] \/ (local /\ c = op.target)
  <2>1. value \in [Controls -> Values \cup {NoValue}]
    BY DEF IInv, TypeOK, DriverType
  <2>2. CASE local
    BY <1>1, <1>2, <2>1, <2>2
  <2>3. CASE ~ local
    BY <1>3, <2>1, <2>3
  <2> QED BY <2>2, <2>3
<1>7. ValueOf(value', current) \in Values \cup {NoValue}
  BY Ranges, <1>1, <1>6 DEF ValueOf, IInv, TypeOK, DriverType, Objects, Controls
<1>8. DriverType'
  BY <1>1, <1>6 DEF IInv, TypeOK, DriverType
<1>9. ProxyType'
  BY <1>1 DEF IInv, TypeOK, ProxyType
<1>10. AccessType'
  <2>1. op' \in Accesses
    BY NoOpType, <1>4, <1>5
  <2>2. stale' \in BOOLEAN /\ seen' \subseteq Values \cup {NoValue}
    <3>1. stale \in BOOLEAN /\ seen \subseteq Values \cup {NoValue}
      BY DEF IInv, TypeOK, AccessType
    <3>2. CASE local
      BY <1>2, <1>7, <3>1, <3>2
    <3>3. CASE ~ local
      BY <1>3, <3>1, <3>3
    <3> QED BY <3>2, <3>3
  <2> QED BY <1>1, <2>1, <2>2 DEF IInv, TypeOK, AccessType
<1>11. OpOK'
  BY NoOpType, <1>1, <1>4, <1>5 DEF IInv, OpOK, AfterTarget, Idle
<1>12. DeviceOK'
  BY <1>1, <1>4, <1>5, <1>6, Ranges, NoOpType DEF IInv, DeviceOK, AfterTarget
<1>13. SameOK'
  BY NoOpType, <1>1, <1>4, <1>5 DEF IInv, SameOK, AfterTarget
<1>14. CacheOK'
  <2>1. ASSUME cache.valid, devProxy = "same", control = current, current # 0, ~ stale',
               ~ (local /\ n)
        PROVE  cache.value = value'[current]
    <3>1. op.target = current /\ current \in Controls
      BY <1>1, <2>1 DEF IInv, SameOK, AfterTarget
    <3>2. ~ stale /\ value'[current] = value[current]
      <4>1. CASE local
        BY <1>2, <1>6, <2>1, <3>1, <4>1
      <4>2. CASE ~ local
        BY <1>3, <2>1, <4>2
      <4> QED BY <4>1, <4>2
    <3> QED BY <1>1, <2>1, <3>2 DEF IInv, CacheOK
  <2>2. ASSUME devProxy = "same", control = current, ~ stale', local, n
        PROVE  op.set = value'[current]
    <3>1. op.target = current
      BY <1>1, <2>2 DEF IInv, SameOK, AfterTarget
    <3> QED BY <1>2, <1>6, <2>2, <3>1
  <2> QED BY NoOpType, <1>1, <1>4, <1>5, <2>1, <2>2 DEF CacheOK
<1>15. SeenOK'
  <2>1. CASE ~ (local /\ n)
    BY NoOpType, <1>4, <2>1 DEF SeenOK, Idle
  <2>2. CASE local /\ n
    <3>1. ValueOf(value', current) \in seen' /\ seen \subseteq seen'
      BY <1>2, <2>2
    <3>2. op'.step = "tell" /\ control' = control /\ (control = 0 => NoValue \in seen)
      BY <1>1, <1>5, <2>2 DEF IInv, SeenOK, Idle
    <3> QED BY <1>1, <3>1, <3>2 DEF SeenOK
  <2> QED BY <2>1, <2>2
<1> QED BY <1>8, <1>9, <1>10, <1>11, <1>12, <1>13, <1>14, <1>15 DEF IInv, TypeOK

\* The cache has the value that was written unless another has come meanwhile.
LEMMA TellCacheStep ==
  ASSUME IInv, TellCache
  PROVE  IInv'
<1>1. /\ op.step = "tell" /\ op.kind = "set" /\ op.set \in Values /\ op' = NoOp
      /\ cache'.valid = TRUE /\ cache'.value = op.set
      /\ cache' \in [valid: BOOLEAN, value: Values \cup {NoValue}]
      /\ UNCHANGED <<local, current, made, value, watched, devProxy,
                     control, loading, seen, stale>>
  BY DEF IInv, OpOK, driver, proxies, TellCache
<1>2. DriverType'
  BY <1>1 DEF IInv, TypeOK, DriverType
<1>3. ProxyType'
  BY <1>1 DEF IInv, TypeOK, ProxyType
<1>4. AccessType'
  BY NoOpType, <1>1 DEF IInv, TypeOK, AccessType
<1>5. OpOK'
  BY NoOpType, <1>1 DEF IInv, OpOK, Idle
<1>6. DeviceOK'
  BY <1>1, NoOpType, Ranges DEF IInv, DeviceOK
<1>7. SameOK'
  BY NoOpType, <1>1 DEF IInv, TypeOK, ProxyType, OpOK, SameOK
<1>8. CacheOK'
  BY NoOpType, <1>1 DEF IInv, CacheOK
<1>9. SeenOK'
  BY NoOpType, <1>1 DEF IInv, SeenOK, Idle
<1> QED BY <1>2, <1>3, <1>4, <1>5, <1>6, <1>7, <1>8, <1>9 DEF IInv, TypeOK

\* Nothing is left of an access that is over.
LEMMA DoneStep ==
  ASSUME IInv, Done
  PROVE  IInv'
<1>1. /\ op.step = "done" /\ op' = NoOp
      /\ UNCHANGED <<local, current, made, value, watched, devProxy,
                     control, cache, loading, seen, stale>>
  BY DEF IInv, driver, proxies, Done
<1>2. DriverType'
  BY <1>1 DEF IInv, TypeOK, DriverType
<1>3. ProxyType'
  BY <1>1 DEF IInv, TypeOK, ProxyType
<1>4. AccessType'
  BY NoOpType, <1>1 DEF IInv, TypeOK, AccessType
<1>5. OpOK'
  BY NoOpType, <1>1 DEF IInv, OpOK, Idle
<1>6. DeviceOK'
  BY <1>1, NoOpType, Ranges DEF IInv, DeviceOK
<1>7. SameOK'
  BY NoOpType, <1>1 DEF IInv, SameOK
<1>8. CacheOK'
  BY NoOpType, <1>1 DEF IInv, CacheOK
<1>9. SeenOK'
  BY NoOpType, <1>1 DEF IInv, SeenOK, Idle
<1> QED BY <1>2, <1>3, <1>4, <1>5, <1>6, <1>7, <1>8, <1>9 DEF IInv, TypeOK

\* An update reaches the cache of a control that is watched, or there is none to follow it.
LEMMA ReceiveStep ==
  ASSUME IInv, NEW v \in Values, Receive(v)
  PROVE  IInv'
<1>1. /\ current \in Controls /\ current \in 1 .. made /\ current' = current
      /\ UNCHANGED <<local, made, watched, devProxy, control, op, loading>>
  BY Ranges DEF driver, Receive, Control
<1>2. /\ value' \in [Controls -> Values \cup {NoValue}]
      /\ value'[current] = v
      /\ \A c \in Controls \ {current} : value'[c] = value[c]
  BY Ranges DEF IInv, TypeOK, DriverType, Receive, Control
<1>3. (Idle => seen' = {}) /\ (~ Idle => seen' = seen \cup {v})
  BY Ranges DEF Receive, Control, ValueOf, IInv, TypeOK, DriverType
<1>4. current \in watched => cache' = [valid |-> TRUE, value |-> v]
  BY DEF Receive
<1>5. current \in watched => stale' = (op.step \in {"store", "tell"})
  BY DEF Receive
<1>6. current \notin watched => cache' = cache /\ stale' = stale
  BY DEF Receive
<1>7. cache' \in [valid: BOOLEAN, value: Values \cup {NoValue}]
  <2>1. CASE current \in watched
    BY <2>1, <1>4, CachedType
  <2>2. CASE current \notin watched
    BY <2>2, <1>6 DEF IInv, TypeOK, ProxyType
  <2> QED BY <2>1, <2>2
<1>8. stale' \in BOOLEAN
  <2>1. CASE current \in watched
    BY <2>1, <1>5
  <2>2. CASE current \notin watched
    BY <2>2, <1>6 DEF IInv, TypeOK, AccessType
  <2> QED BY <2>1, <2>2
<1>9. current \in watched => cache'.valid = TRUE /\ cache'.value = v
  BY <1>4
<1>10. ~ Idle => \A c \in 1 .. made : value[c] \in seen => value'[c] \in seen'
  BY Ranges, <1>2, <1>3
<1>11. op.step \in {"findTarget", "find"} => control \in 0 .. made
  <2>1. op.step \in {"findTarget", "find"} => control # NoProxy
    BY DEF IInv, OpOK, Idle
  <2> QED BY <2>1, Ranges
<1>12. op.step \in {"check", "access"} => op.ctrl \in 1 .. made
  <2>1. op.step \in {"check", "access"} => op.ctrl # 0
    BY DEF IInv, OpOK
  <2> QED BY <2>1, Ranges
<1>13. DriverType'
  BY <1>1, <1>2 DEF IInv, TypeOK, DriverType
<1>14. ProxyType'
  BY <1>1, <1>2, <1>4, <1>6, <1>7 DEF IInv, TypeOK, ProxyType
<1>15. AccessType'
  BY <1>1, <1>2, <1>3, <1>4, <1>6, <1>7, <1>8 DEF IInv, TypeOK, AccessType
<1>16. OpOK'
  BY <1>1, <1>2, <1>3, <1>4, <1>6, <1>7, <1>8 DEF IInv, OpOK, Idle
<1>17. DeviceOK'
  BY Ranges, <1>1, <1>2, <1>3, <1>4, <1>6, <1>7, <1>8 DEF IInv, DeviceOK
<1>18. SameOK'
  BY <1>1, <1>2, <1>3, <1>6, <1>8 DEF IInv, SameOK
<1>19. CacheOK'
  BY <1>1, <1>2, <1>4, <1>5, <1>6, <1>8 DEF IInv, SameOK, CacheOK, OpOK
<1>20. SeenOK'
  <2>1. ~ Idle' => ValueOf(value', current') \in seen'
    BY <1>1, <1>2, <1>3, <1>4, <1>5, <1>6, <1>8 DEF IInv, SeenOK, Idle, ValueOf
  <2>2. ~ Idle' /\ control' = 0 => NoValue \in seen'
    BY <1>1, <1>2, <1>3, <1>4, <1>5, <1>6, <1>8 DEF IInv, SeenOK, Idle
  <2>3. op'.step \in {"findTarget", "find"} /\ ~ op'.fresh /\ control' # 0
        => value'[control'] \in seen' \/ (local' /\ loading')
    <3> SUFFICES ASSUME op.step \in {"findTarget", "find"}, ~ op.fresh, control # 0
                 PROVE  value'[control] \in seen' \/ (local /\ loading)
      BY <1>1
    <3>1. control \in 1 .. made
      <4>1. made \in Nat
        BY Ranges
      <4>2. control \in 0 .. made
        BY <1>11
      <4> QED BY <4>1, <4>2, Positive
    <3>2. value[control] \in seen \/ (local /\ loading)
      BY DEF IInv, SeenOK
    <3> QED BY <1>10, <3>1, <3>2 DEF Idle
  <2>4. op'.step \in {"check", "access"}
        => value'[op'.ctrl] \in seen' \/ (local' /\ loading' /\ ~ op'.fresh)
    BY <1>1, <1>10, <1>12 DEF IInv, SeenOK, Idle
  <2>5. op'.step \in {"find", "check"} /\ op'.fresh /\ cache'.valid => cache'.value \in seen'
    BY <1>1, <1>3, <1>4, <1>6, <1>10, <1>12 DEF IInv, SeenOK, Idle
  <2>6. op'.step \in {"find", "check"} /\ ~ op'.fresh /\ cache'.valid /\ ~ stale' /\ ~ loading'
        /\ (control' # 0 \/ op'.step = "check") => cache'.value \in seen'
    BY <1>1, <1>3, <1>4, <1>6, <1>10, <1>12 DEF IInv, SeenOK, Idle
  <2>7. op'.step \in {"store", "done", "write"} => op'.got \in seen' \/ op'.lags
    BY <1>1, <1>3, <1>4, <1>6 DEF IInv, SeenOK, Idle
  <2> QED BY <2>1, <2>2, <2>3, <2>4, <2>5, <2>6, <2>7 DEF SeenOK
<1> QED BY <1>13, <1>14, <1>15, <1>16, <1>17, <1>18, <1>19, <1>20 DEF IInv, TypeOK

\* A control of an external device comes or goes, and the proxy is out of date with it.
LEMMA ReceiveMetaStep ==
  ASSUME IInv, NEW c \in 0 .. MaxControls, ReceiveMeta(c)
  PROVE  IInv'
<1>1. /\ ~ local /\ current' = c
      /\ c \in {current, 0} \cup (IF current = 0 THEN {made + 1} \cap Controls ELSE {})
      /\ (c > made => made' = c) /\ (c <= made => made' = made)
      /\ devProxy = "same" => devProxy' = "changed"
      /\ devProxy # "same" => devProxy' = devProxy
      /\ UNCHANGED <<local, value, watched, control, cache, op, loading, stale>>
  BY Ranges DEF ReceiveMeta, Control, NextRev, driver
<1>2. /\ made \in Nat
      /\ made' \in Nat
      /\ made <= made'
      /\ made' \in Objects
      /\ c \in Objects
      /\ c <= made'
  BY Ranges DEF ReceiveMeta, Controls, Objects, Control
<1>3. (Idle => seen' = {}) /\ (~ Idle => seen' = seen \cup {ValueOf(value, c)})
  BY Ranges DEF IInv, driver, proxies, ReceiveMeta, Control, NextRev
<1>4. ValueOf(value, c) \in Values \cup {NoValue}
  BY Ranges
     DEF IInv, TypeOK, DriverType, ValueOf, driver, proxies, ReceiveMeta, Control, NextRev
<1>5. watched \subseteq 1 .. made'
  <2>1. watched \subseteq 1 .. made
    BY DEF IInv, DeviceOK
  <2> QED BY <2>1, Ranges, <1>2
<1>6. /\ c \in 0 .. made' /\ control \in {NoProxy} \cup 0 .. made'
      /\ op.ctrl \in 0 .. made' /\ op.target \in 0 .. made'
  BY Ranges, <1>2 DEF Objects
<1>7. c <= made' /\ control <= made' /\ op.ctrl <= made' /\ op.target <= made'
  BY Ranges, <1>2 DEF NoProxy
<1>8. DriverType'
  BY <1>1, <1>2 DEF IInv, TypeOK, DriverType
<1>9. ProxyType'
  BY <1>1, <1>2 DEF IInv, TypeOK, ProxyType
<1>10. AccessType'
  BY <1>1, <1>2, <1>3, <1>4 DEF IInv, TypeOK, AccessType
<1>11. OpOK'
  BY <1>1, <1>2, <1>3, <1>4 DEF IInv, OpOK, Idle
<1>12. DeviceOK'
  BY <1>1, <1>2, <1>3, <1>4, <1>7 DEF IInv, DeviceOK
<1>13. SameOK'
  BY <1>1, <1>2, <1>3, <1>4, <1>7 DEF IInv, SameOK
<1>14. CacheOK'
  BY <1>1, <1>2, <1>7 DEF IInv, CacheOK
<1>15. SeenOK'
  BY <1>1, <1>2, <1>3, <1>7 DEF IInv, SeenOK, Idle
<1> QED BY <1>8, <1>9, <1>10, <1>11, <1>12, <1>13, <1>14, <1>15 DEF IInv, TypeOK

\* A load may take the device away, and its controls with it.
LEMMA BeginLoadStep ==
  ASSUME IInv, BeginLoad
  PROVE  IInv'
<1>1. /\ Idle
      /\ loading' = TRUE
      /\ seen' = {}
      /\ current' \in {current, 0}
      /\ (~ local => current' = current)
      /\ UNCHANGED <<local, made, value, watched, devProxy, control, cache, op, stale>>
  BY DEF IInv, driver, proxies, BeginLoad, Control
<1>2. DriverType'
  BY Ranges, <1>1 DEF IInv, TypeOK, DriverType, Objects
<1>3. ProxyType'
  BY <1>1 DEF IInv, TypeOK, ProxyType
<1>4. AccessType'
  BY <1>1 DEF IInv, TypeOK, AccessType
<1>5. OpOK'
  BY <1>1 DEF IInv, OpOK, Idle
<1>6. DeviceOK'
  BY NoOpType, <1>1 DEF IInv, OpOK, DeviceOK
<1>7. SameOK'
  BY <1>1 DEF IInv, SameOK
<1>8. CacheOK'
  BY <1>1 DEF IInv, CacheOK, Idle
<1>9. SeenOK'
  BY <1>1 DEF IInv, SeenOK, Idle
<1> QED BY <1>2, <1>3, <1>4, <1>5, <1>6, <1>7, <1>8, <1>9 DEF IInv, TypeOK

\* A control made anew is no proxy's control yet.
LEMMA DefineDeviceStep ==
  ASSUME IInv, NEW v \in Values, DefineDevice(v)
  PROVE  IInv'
<1>1. /\ Idle
      /\ local
      /\ current = 0
      /\ made < MaxControls
      /\ made' = made + 1
      /\ current' = made'
      /\ UNCHANGED <<local, watched, devProxy, control, cache, op, loading, stale>>
  BY DEF DefineDevice, Control, proxies
<1>2. /\ made' \in Controls /\ made' \in Objects
  BY <1>1, Ranges DEF Controls, Objects
<1>3. /\ value' \in [Controls -> Values \cup {NoValue}] /\ value'[made + 1] = v
      /\ \A c \in Controls \ {made + 1} : value'[c] = value[c]
  BY <1>1, <1>2 DEF DefineDevice, Control, IInv, TypeOK, DriverType
<1>4. seen' = {}
  BY <1>1 DEF DefineDevice, Control
<1>5. watched \subseteq 1 .. made'
  <2>1. watched \subseteq 1 .. made
    BY DEF IInv, DeviceOK
  <2> QED BY <2>1, Ranges, <1>1
<1>6. /\ control \in {NoProxy} \cup 0 .. made'
      /\ op.ctrl \in 0 .. made' /\ op.target \in 0 .. made'
  BY Ranges, <1>1
<1>7. DriverType'
  BY <1>1, <1>2, <1>3 DEF IInv, TypeOK, DriverType
<1>8. ProxyType'
  BY <1>1, <1>2, <1>3 DEF IInv, TypeOK, ProxyType
<1>9. AccessType'
  BY <1>1, <1>2, <1>3, <1>4 DEF IInv, TypeOK, AccessType
<1>10. OpOK'
  BY <1>1, <1>2, <1>3, <1>4 DEF IInv, OpOK, Idle
<1>11. DeviceOK'
  BY <1>1, <1>3, <1>4, Ranges DEF IInv, DeviceOK, Idle, AfterTarget, NoProxy
<1>12. SameOK'
  BY <1>1, <1>3, <1>4 DEF IInv, SameOK
<1>13. CacheOK'
  BY Ranges, <1>1, <1>3 DEF IInv, CacheOK, NoProxy
<1>14. SeenOK'
  BY <1>1, <1>3 DEF IInv, SeenOK, Idle
<1> QED BY <1>7, <1>8, <1>9, <1>10, <1>11, <1>12, <1>13, <1>14 DEF IInv, TypeOK

\* The end of a load puts every proxy out of date.
LEMMA EndLoadStep ==
  ASSUME IInv, EndLoad
  PROVE  IInv'
<1>1. DriverType'
  BY DEF IInv, TypeOK, DriverType, driver, proxies, EndLoad, Refresh, NextRev
<1>2. ProxyType'
  BY DEF IInv, TypeOK, ProxyType, driver, proxies, EndLoad, Refresh, NextRev
<1>3. AccessType'
  BY DEF IInv, TypeOK, AccessType, driver, proxies, EndLoad, Refresh, NextRev
<1>4. OpOK'
  BY DEF IInv, OpOK, Idle, driver, proxies, EndLoad, Refresh, NextRev
<1>5. DeviceOK'
  BY DEF IInv, DeviceOK, AfterTarget, Idle, driver, proxies, EndLoad, Refresh, NextRev
<1>6. SameOK'
  BY DEF IInv, SameOK, driver, proxies, EndLoad, Refresh, NextRev
<1>7. CacheOK'
  BY DEF IInv, CacheOK, driver, proxies, EndLoad, Refresh, NextRev
<1>8. SeenOK'
  BY DEF IInv, SeenOK, Idle, driver, proxies, EndLoad, Refresh, NextRev
<1> QED BY <1>1, <1>2, <1>3, <1>4, <1>5, <1>6, <1>7, <1>8 DEF IInv, TypeOK

\* So does the removal of a file.
LEMMA RemoveFileStep ==
  ASSUME IInv, RemoveFile
  PROVE  IInv'
<1>1. /\ Idle /\ current' = 0 /\ ~ loading /\ seen' = {}
      /\ devProxy = "same" => devProxy' = "changed"
      /\ devProxy # "same" => devProxy' = devProxy
      /\ UNCHANGED <<local, made, value, watched, control, cache, op, loading, stale>>
  BY DEF IInv, driver, proxies, RemoveFile, Control, Refresh, NextRev
<1>2. DriverType'
  BY Ranges, <1>1 DEF IInv, TypeOK, DriverType, Objects
<1>3. ProxyType'
  BY <1>1 DEF IInv, TypeOK, ProxyType
<1>4. AccessType'
  BY <1>1 DEF IInv, TypeOK, AccessType
<1>5. OpOK'
  BY <1>1 DEF IInv, OpOK, Idle
<1>6. DeviceOK'
  BY NoOpType, <1>1 DEF IInv, OpOK, DeviceOK
<1>7. SameOK'
  BY <1>1 DEF IInv, SameOK
<1>8. CacheOK'
  BY <1>1 DEF IInv, CacheOK
<1>9. SeenOK'
  BY <1>1 DEF IInv, SeenOK, Idle
<1> QED BY <1>2, <1>3, <1>4, <1>5, <1>6, <1>7, <1>8, <1>9 DEF IInv, TypeOK

-----------------------------------------------------------------------------
(* The invariant, and what follows from it *)

\* There is no proxy at first.
LEMMA InitInv == Init => IInv
<1> SUFFICES ASSUME Init PROVE IInv
  OBVIOUS
<1>1. /\ op = NoOp /\ op.kind = "none" /\ op.step = "idle" /\ op.ctrl = 0 /\ op.target = 0
      /\ op.fresh = FALSE /\ Idle
  BY NoOpType DEF Init, Idle
<1>2. MaxControls \in Nat /\ 0 \in Objects /\ made = 0 /\ current = 0 /\ control = -1
  BY ProxyAssumption DEF Init, Objects, NoProxy
<1>3. DriverType
  BY <1>2 DEF Init, DriverType
<1>4. ProxyType
  BY <1>2 DEF Init, ProxyType, NoProxy
<1>5. AccessType
  BY NoOpType DEF Init, AccessType
<1>6. OpOK
  BY <1>1 DEF OpOK, AfterTarget
<1>7. DeviceOK
  BY <1>1, <1>2 DEF Init, DeviceOK, AfterTarget
<1>8. SameOK
  BY <1>1 DEF Init, SameOK, AfterTarget
<1>9. CacheOK
  BY <1>1 DEF Init, CacheOK
<1>10. SeenOK
  BY <1>1 DEF SeenOK
<1> QED BY <1>3, <1>4, <1>5, <1>6, <1>7, <1>8, <1>9, <1>10 DEF IInv, TypeOK

\* Every step of a script, of a load or of the driver preserves the invariant.
LEMMA NextInv == IInv /\ [Next]_vars => IInv'
<1> SUFFICES ASSUME IInv, [Next]_vars PROVE IInv'
  OBVIOUS
<1>1. CASE UNCHANGED vars
  BY <1>1 DEF vars, driver, proxies, IInv, TypeOK, DriverType, ProxyType, AccessType, OpOK,
     DeviceOK, SameOK, CacheOK, SeenOK, Idle, ValueOf
<1>2. CASE Driver
  BY <1>2, ReceiveStep, ReceiveMetaStep DEF Driver
<1>3. CASE SyncLoop
  <2>1. CASE GetDeviceProxy \/ Target \/ LookAt \/ FindTarget \/ Find \/ CheckCache
    BY <2>1, GetDeviceProxyStep, TargetStep, LookAtStep, FindTargetStep, FindStep,
       CheckCacheStep
  <2>2. CASE AccessRaw \/ Access \/ AccessFails \/ Store \/ TellCache \/ Done
    BY <2>2, AccessRawStep, AccessStep, AccessFailsStep, StoreStep, TellCacheStep, DoneStep
  <2>3. CASE BeginLoad \/ EndLoad \/ RemoveFile
    BY <2>3, BeginLoadStep, EndLoadStep, RemoveFileStep
  <2>4. CASE \E v \in Values : Begin("set", v)
    BY <2>4, BeginSetStep
  <2>5. CASE \E kind \in {"value", "raw"} : Begin(kind, NoValue)
    BY <2>5, BeginStep
  <2>6. CASE \E notify \in BOOLEAN, v \in Values : Write(notify, v)
    BY <2>6, WriteStep
  <2>7. CASE \E v \in Values : DefineDevice(v)
    BY <2>7, DefineDeviceStep
  <2> QED BY <1>3, <2>1, <2>2, <2>3, <2>4, <2>5, <2>6, <2>7 DEF SyncLoop
<1> QED BY <1>1, <1>2, <1>3 DEF Next

\* The invariant holds of every behaviour.
LEMMA Invariance == Spec => []IInv
<1>1. Init => IInv
  BY InitInv
<1>2. IInv /\ [Next]_vars => IInv'
  BY NextInv
<1> QED BY <1>1, <1>2, PTL DEF Spec

\* All variables keep their types, and the cache never holds what could not be read.
THEOREM TypeCorrect == Spec => []TypeOK
<1>1. IInv => TypeOK
  BY DEF IInv
<1> QED BY <1>1, Invariance, PTL

\* A script reads a value that the control has had since it asked for it (ControlProxy.Value),
\* unless its file is being loaded or the cache had been passed by: by an update, by a quiet
\* write, or by a control that did not take the value SetValue told the cache.
THEOREM ReadsCurrent == Spec => []ReadsAreCurrent
<1>1. IInv => ReadsAreCurrent
  BY DEF IInv, SeenOK, ReadsAreCurrent
<1> QED BY <1>1, Invariance, PTL

\* The cache of a proxy that is up to date follows its control, whoever changes it
\* (updateValueHandler), with the same exceptions: SetValue tells the cache what the script
\* wrote even when UpdateValue failed or the control converted it.
THEOREM CacheFollows == Spec => []CacheFollowsControl
<1>1. IInv => CacheFollowsControl
  BY DEF IInv, CacheOK, CacheFollowsControl
<1> QED BY <1>1, Invariance, PTL

\* A proxy that is up to date has the control of the present device, and so has a write
\* (ControlProxy.getControl).
THEOREM ProxyFollows == Spec => []ProxyFollowsDevice
<1>1. IInv => ProxyFollowsDevice
  BY DEF IInv, OpOK, DeviceOK, ProxyFollowsDevice, AfterTarget
<1> QED BY <1>1, Invariance, PTL

=============================================================================
