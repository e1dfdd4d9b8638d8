---------------------------- MODULE CfgInitProofs ----------------------------
(* Which values CConfig::cfg_init reads, for any lists in which no key comes twice. *)
EXTENDS CfgInit, TLAPS

Functions == {"getDBConfig", "getSocketConfig", "getSystemConfig"}

\* The keys that have been read, by their places in the lists.
DBRead(i) ==
    \/ doing = "getDBConfig" /\ i < at
    \/ doing \in {"getSocketConfig", "getSystemConfig"} \/ result = "success"
TopRead(i) ==
    \/ doing = "getSocketConfig" /\ i < at
    \/ doing = "getSystemConfig" \/ result = "success"
SystemRead(i) ==
    \/ doing = "getSystemConfig" /\ i < at
    \/ result = "success"

\* v is the value of the last of the first n keys that the tree has.
LastValue(keys, n, v) ==
    \E j \in 1..n :
        /\ j \in DOMAIN keys /\ v = keys[j] /\ keys[j] \in DOMAIN file
        /\ \A k \in (j + 1)..n : keys[k] \notin DOMAIN file

FieldRight(keys, i) ==
    /\ cfg[keys[i]] # Default => LastValue(keys, i, cfg[keys[i]])
    /\ Has(keys[i]) => cfg[keys[i]] = keys[i]

TypesInv ==
    /\ DOMAIN file \subseteq Keys /\ file \in [DOMAIN file -> {"value", "none"}]
    /\ sections \subseteq Sections
    /\ at \in Nat \ {0}
    /\ cfg \in [Keys -> Keys \cup {Default}]
    /\ \/ doing \in Functions /\ result = NULL
       \/ doing = "done" /\ result \in {"success", "error", "crash"}

\* What val points to is the value of a key of this section.
ValInv ==
    /\ doing = "getDBConfig" => val = NULL \/ LastValue(DBKeys, at - 1, val)
    /\ doing = "getSystemConfig" => val = NULL \/ LastValue(SystemKeys, at - 1, val)

DBInv == \A i \in DOMAIN DBKeys :
    /\ DBRead(i) => FieldRight(DBKeys, i)
    /\ result = NULL /\ ~ DBRead(i) => cfg[DBKeys[i]] = Default
TopInv == \A i \in DOMAIN TopKeys :
    /\ TopRead(i) => cfg[TopKeys[i]] = IF Has(TopKeys[i]) THEN TopKeys[i] ELSE Default
    /\ result = NULL /\ ~ TopRead(i) => cfg[TopKeys[i]] = Default
SystemInv == \A i \in DOMAIN SystemKeys :
    /\ SystemRead(i) => FieldRight(SystemKeys, i)
    /\ result = NULL /\ ~ SystemRead(i) => cfg[SystemKeys[i]] = Default

ResultInv ==
    /\ result = "error" => \E k \in Required : ~ Has(k)
    /\ result = "crash" =>
        sections # Sections \/ \E k \in ToSet(TopKeys) : k \in DOMAIN file /\ ~ Has(k)

CfgInv == TypesInv /\ ValInv /\ DBInv /\ TopInv /\ SystemInv /\ ResultInv

-----------------------------------------------------------------------------
LEMMA KeyFacts ==
  ASSUME KeysOnce
  PROVE
  /\ \A keys \in {DBKeys, TopKeys, SystemKeys} :
        /\ DOMAIN keys = 1..Len(keys) /\ Len(keys) \in Nat
        /\ \A i \in DOMAIN keys : keys[i] \in Keys
        /\ \A i, j \in DOMAIN keys : keys[i] = keys[j] => i = j
  /\ \A i \in DOMAIN DBKeys, j \in DOMAIN TopKeys : DBKeys[i] # TopKeys[j]
  /\ \A i \in DOMAIN DBKeys, j \in DOMAIN SystemKeys : DBKeys[i] # SystemKeys[j]
  /\ \A i \in DOMAIN TopKeys, j \in DOMAIN SystemKeys : TopKeys[i] # SystemKeys[j]
  /\ \A k \in Keys : \E keys \in {DBKeys, TopKeys, SystemKeys} :
        \E i \in DOMAIN keys : k = keys[i]
  /\ \A i \in DOMAIN TopKeys : TopKeys[i] \in ToSet(TopKeys)
  /\ \A k \in ToSet(TopKeys) : \E i \in DOMAIN TopKeys : k = TopKeys[i]
  /\ Required \subseteq Keys /\ NULL \notin Keys /\ NULL \notin {"success", "error", "crash"}
<1>1. \A keys \in {DBKeys, TopKeys, SystemKeys} :
        /\ DOMAIN keys = 1..Len(keys) /\ Len(keys) \in Nat
        /\ \A i \in DOMAIN keys : keys[i] \in Keys
  BY DEF KeysOnce
<1>2. \A keys \in {DBKeys, TopKeys, SystemKeys} :
         \A i, j \in DOMAIN keys : keys[i] = keys[j] => i = j
  BY DEF KeysOnce, IsInjective
<1>3. \A k \in Keys : \E keys \in {DBKeys, TopKeys, SystemKeys} :
        \E i \in DOMAIN keys : k = keys[i]
  BY DEF Keys, ToSet
<1>4. /\ \A i \in DOMAIN TopKeys : TopKeys[i] \in ToSet(TopKeys)
      /\ \A k \in ToSet(TopKeys) : \E i \in DOMAIN TopKeys : k = TopKeys[i]
      /\ \A i \in DOMAIN DBKeys : DBKeys[i] \in ToSet(DBKeys)
      /\ \A i \in DOMAIN SystemKeys : SystemKeys[i] \in ToSet(SystemKeys)
  BY DEF ToSet
<1>5. /\ \A i \in DOMAIN DBKeys, j \in DOMAIN TopKeys : DBKeys[i] # TopKeys[j]
      /\ \A i \in DOMAIN DBKeys, j \in DOMAIN SystemKeys : DBKeys[i] # SystemKeys[j]
      /\ \A i \in DOMAIN TopKeys, j \in DOMAIN SystemKeys : TopKeys[i] # SystemKeys[j]
  BY <1>4 DEF KeysOnce
<1>6. Required \subseteq Keys /\ NULL \notin Keys /\ NULL \notin {"success", "error", "crash"}
  BY DEF KeysOnce
<1> QED  BY <1>1, <1>2, <1>3, <1>4, <1>5, <1>6, Zenon

\* What is known of the tree does not change.
LEMMA TreeKept ==
  ASSUME UNCHANGED <<file, sections>>
  PROVE  /\ \A k : Has(k)' = Has(k)
         /\ \A keys, n, v : LastValue(keys, n, v)' = LastValue(keys, n, v)
BY DEF Has, LastValue

LEMMA InitInv == ASSUME KeysOnce PROVE Init => CfgInv
<1> SUFFICES ASSUME Init PROVE CfgInv  OBVIOUS
<1> USE DEF Init
<1>1. TypesInv
  <2>1. PICK there \in SUBSET Keys : file \in [there -> {"value", "none"}]  OBVIOUS
  <2> QED  BY <2>1 DEF TypesInv, Functions
<1>2. ValInv  BY DEF ValInv
<1>3. DBInv /\ TopInv /\ SystemInv
  BY KeyFacts DEF DBInv, TopInv, SystemInv, DBRead, TopRead, SystemRead
<1>4. ResultInv  BY KeyFacts DEF ResultInv
<1> QED  BY <1>1, <1>2, <1>3, <1>4 DEF CfgInv

\* The part of ReadChild that goes on.
Reads(keys) ==
    /\ at <= Len(keys)
    /\ val' = ChildValue(keys[at])
    /\ cfg' = [cfg EXCEPT ![keys[at]] = IF val' = NULL THEN @ ELSE val']
    /\ at' = at + 1
    /\ UNCHANGED <<file, sections, doing, result>>

\* A read sets val to the value of the last key that is there, and the field
\* of its key, which had its default, to that.
LEMMA SectionRead ==
  ASSUME KeysOnce, TypesInv, NEW keys \in {DBKeys, SystemKeys}, Reads(keys), NEW i, i = at,
         val = NULL \/ LastValue(keys, at - 1, val), cfg[keys[at]] = Default
  PROVE  /\ val' = NULL \/ LastValue(keys, at, val')
         /\ FieldRight(keys, i)'
         /\ \A k \in Keys : k # keys[at] => cfg'[k] = cfg[k]
         /\ TypesInv'
<1> DEFINE key == keys[at]
<1>1. /\ at \in DOMAIN keys /\ key \in Keys /\ at \in Nat \ {0}
      /\ DOMAIN keys = 1..Len(keys) /\ Len(keys) \in Nat
  BY KeyFacts DEF Reads, TypesInv
<1>2. val' = NULL \/ LastValue(keys, at, val')
  <2>1. CASE key \in DOMAIN file
    <3>1. val' \in {key, NULL}  BY <2>1 DEF Reads, ChildValue
    <3>2. LastValue(keys, at, key)  BY <1>1, <2>1 DEF LastValue
    <3> QED  BY <3>1, <3>2
  <2>2. CASE key \notin DOMAIN file
    <3>1. val' = val  BY <2>2 DEF Reads, ChildValue
    <3>2. ASSUME LastValue(keys, at - 1, val) PROVE LastValue(keys, at, val)
      <4>1. PICK j \in 1..(at - 1) :
              /\ j \in DOMAIN keys /\ val = keys[j] /\ keys[j] \in DOMAIN file
              /\ \A k \in (j + 1)..(at - 1) : keys[k] \notin DOMAIN file
        BY <3>2 DEF LastValue
      <4>2. j \in 1..at /\ \A k \in (j + 1)..at : k = at \/ k \in (j + 1)..(at - 1)
        BY <1>1
      <4> QED  BY <4>1, <4>2, <2>2 DEF LastValue
    <3> QED  BY <3>1, <3>2
  <2> QED  BY <2>1, <2>2
<1>3. val' # NULL => val' \in Keys
  BY <1>2, KeyFacts DEF LastValue
<1>4. /\ cfg' \in [Keys -> Keys \cup {Default}]
      /\ cfg'[key] = IF val' = NULL THEN Default ELSE val'
      /\ \A k \in Keys : k # key => cfg'[k] = cfg[k]
  BY <1>1, <1>3 DEF Reads, TypesInv
<1>5. FieldRight(keys, i)'
  <2>1. FieldRight(keys, i)' =
          /\ cfg'[keys[i]] # Default => LastValue(keys, i, cfg'[keys[i]])
          /\ Has(key) => cfg'[keys[i]] = keys[i]
    BY DEF FieldRight, LastValue, Reads, Has
  <2>2. Has(key) => val' = key
    BY <1>1, KeyFacts DEF Has, Reads, ChildValue
  <2> QED  BY <1>1, <1>2, <1>4, <2>1, <2>2, KeyFacts
<1>6. TypesInv'
  BY <1>1, <1>4 DEF TypesInv, Reads
<1> QED  BY <1>2, <1>4, <1>5, <1>6

\* A function that returns an error, or crashes, has a reason.
LEMMA StopKeeps ==
  ASSUME KeysOnce, CfgInv, NEW r \in {"error", "crash"}, Returns(r),
         r = "error" => \E k \in Required : ~ Has(k),
         r = "crash" =>
            sections # Sections \/ \E k \in ToSet(TopKeys) : k \in DOMAIN file /\ ~ Has(k)
  PROVE  CfgInv'
<1>1. doing' = "done" /\ result' = r /\ r # NULL /\ r # "success"
  BY KeyFacts DEF Returns
<1>2. TypesInv'  BY <1>1 DEF CfgInv, TypesInv, Returns
<1>3. ValInv'  BY <1>1 DEF ValInv
<1>4. DBInv' /\ TopInv' /\ SystemInv'
  BY <1>1 DEF DBInv, TopInv, SystemInv, DBRead, TopRead, SystemRead
<1>5. ResultInv'  BY <1>1 DEF ResultInv, Returns, Has
<1> QED  BY <1>2, <1>3, <1>4, <1>5 DEF CfgInv

LEMMA ChildMissing ==
  ASSUME KeysOnce, NEW key \in Required, ChildValue(key) = NULL PROVE ~ Has(key)
BY KeyFacts DEF ChildValue, Has

LEMMA DBKeeps ==
  ASSUME KeysOnce, CfgInv, ReadChild("getDBConfig", "DBServer", DBKeys) PROVE CfgInv'
<1>1. CASE Returns("crash") /\ "DBServer" \notin sections
  BY <1>1, StopKeeps DEF Sections
<1>2. CASE Returns("error") /\ DBKeys[at] \in Required /\ ChildValue(DBKeys[at]) = NULL
  BY <1>2, StopKeeps, ChildMissing
<1>3. CASE Reads(DBKeys)
  <2>1. doing = "getDBConfig" /\ result = NULL /\ at \in DOMAIN DBKeys
        /\ at \in Nat \ {0} /\ TypesInv /\ at' = at + 1
    BY <1>3, KeyFacts DEF CfgInv, TypesInv, ReadChild, Reads, Functions
  <2>2. PICK i : i = at  OBVIOUS
  <2>3. /\ val' = NULL \/ LastValue(DBKeys, at, val')
        /\ FieldRight(DBKeys, i)'
        /\ \A k \in Keys : k # DBKeys[at] => cfg'[k] = cfg[k]
        /\ TypesInv'
    <3>1. cfg[DBKeys[at]] = Default
      BY <2>1, KeyFacts DEF CfgInv, DBInv, DBRead
    <3>2. val = NULL \/ LastValue(DBKeys, at - 1, val)  BY <2>1 DEF CfgInv, ValInv
    <3> QED  BY <1>3, <2>1, <2>2, <3>1, <3>2, SectionRead
  <2>4. doing' = doing /\ result' = result /\ UNCHANGED <<file, sections>>
    BY <1>3 DEF Reads
  <2>5. ValInv'
    <3>1. LastValue(DBKeys, at, val') => LastValue(DBKeys, at - 1, val)'
      BY <2>1, <2>4 DEF LastValue
    <3> QED  BY <2>1, <2>3, <2>4, <3>1 DEF ValInv
  <2>6. DBInv'
    <3> SUFFICES ASSUME NEW n \in DOMAIN DBKeys
                 PROVE  /\ DBRead(n)' => FieldRight(DBKeys, n)'
                        /\ result' = NULL /\ ~ DBRead(n)' => cfg'[DBKeys[n]] = Default
      BY DEF DBInv
    <3>1. CASE n = at
      BY <2>1, <2>2, <2>3, <2>4, <3>1, KeyFacts DEF DBRead
    <3>2. CASE n # at
      <4>1. cfg'[DBKeys[n]] = cfg[DBKeys[n]]  BY <2>1, <2>3, <3>2, KeyFacts
      <4>2. FieldRight(DBKeys, n)' = FieldRight(DBKeys, n)
        BY <2>4, <4>1 DEF FieldRight, LastValue, Has
      <4>3. DBRead(n)' = DBRead(n)
        BY <2>1, <2>4, <3>2, KeyFacts DEF DBRead
      <4> QED  BY <2>4, <4>1, <4>2, <4>3 DEF CfgInv, DBInv
    <3> QED  BY <3>1, <3>2
  <2>7. TopInv' /\ SystemInv'
    BY <2>1, <2>3, <2>4, KeyFacts DEF CfgInv, TopInv, SystemInv, TopRead, SystemRead
  <2>8. ResultInv'  BY <2>1, <2>4, KeyFacts DEF ResultInv
  <2> QED  BY <2>3, <2>5, <2>6, <2>7, <2>8 DEF CfgInv
<1> QED  BY <1>1, <1>2, <1>3 DEF ReadChild, Reads

LEMMA SystemKeeps ==
  ASSUME KeysOnce, CfgInv, ReadChild("getSystemConfig", "SYSTEM", SystemKeys) PROVE CfgInv'
<1>1. CASE Returns("crash") /\ "SYSTEM" \notin sections
  BY <1>1, StopKeeps DEF Sections
<1>2. CASE Returns("error") /\ SystemKeys[at] \in Required /\ ChildValue(SystemKeys[at]) = NULL
  BY <1>2, StopKeeps, ChildMissing
<1>3. CASE Reads(SystemKeys)
  <2>1. doing = "getSystemConfig" /\ result = NULL /\ at \in DOMAIN SystemKeys
        /\ at \in Nat \ {0} /\ TypesInv /\ at' = at + 1
    BY <1>3, KeyFacts DEF CfgInv, TypesInv, ReadChild, Reads, Functions
  <2>2. PICK i : i = at  OBVIOUS
  <2>3. /\ val' = NULL \/ LastValue(SystemKeys, at, val')
        /\ FieldRight(SystemKeys, i)'
        /\ \A k \in Keys : k # SystemKeys[at] => cfg'[k] = cfg[k]
        /\ TypesInv'
    <3>1. cfg[SystemKeys[at]] = Default
      BY <2>1, KeyFacts DEF CfgInv, SystemInv, SystemRead
    <3>2. val = NULL \/ LastValue(SystemKeys, at - 1, val)  BY <2>1 DEF CfgInv, ValInv
    <3> QED  BY <1>3, <2>1, <2>2, <3>1, <3>2, SectionRead
  <2>4. doing' = doing /\ result' = result /\ UNCHANGED <<file, sections>>
    BY <1>3 DEF Reads
  <2>5. ValInv'
    <3>1. LastValue(SystemKeys, at, val') => LastValue(SystemKeys, at - 1, val)'
      BY <2>1, <2>4 DEF LastValue
    <3> QED  BY <2>1, <2>3, <2>4, <3>1 DEF ValInv
  <2>6. SystemInv'
    <3> SUFFICES ASSUME NEW n \in DOMAIN SystemKeys
                 PROVE  /\ SystemRead(n)' => FieldRight(SystemKeys, n)'
                        /\ result' = NULL /\ ~ SystemRead(n)' => cfg'[SystemKeys[n]] = Default
      BY DEF SystemInv
    <3>1. CASE n = at
      BY <2>1, <2>2, <2>3, <2>4, <3>1, KeyFacts DEF SystemRead
    <3>2. CASE n # at
      <4>1. cfg'[SystemKeys[n]] = cfg[SystemKeys[n]]  BY <2>1, <2>3, <3>2, KeyFacts
      <4>2. FieldRight(SystemKeys, n)' = FieldRight(SystemKeys, n)
        BY <2>4, <4>1 DEF FieldRight, LastValue, Has
      <4>3. SystemRead(n)' = SystemRead(n)
        BY <2>1, <2>4, <3>2, KeyFacts DEF SystemRead
      <4> QED  BY <2>4, <4>1, <4>2, <4>3 DEF CfgInv, SystemInv
    <3> QED  BY <3>1, <3>2
  <2>7. DBInv' /\ TopInv'
    <3>1. \A n \in DOMAIN DBKeys : DBRead(n)  BY <2>1 DEF DBRead
    <3>2. \A n \in DOMAIN DBKeys : FieldRight(DBKeys, n)'
      <4> SUFFICES ASSUME NEW n \in DOMAIN DBKeys PROVE FieldRight(DBKeys, n)'
        OBVIOUS
      <4>1. cfg'[DBKeys[n]] = cfg[DBKeys[n]]  BY <2>1, <2>3, KeyFacts
      <4>2. FieldRight(DBKeys, n)' = FieldRight(DBKeys, n)
        BY <2>4, <4>1 DEF FieldRight, LastValue, Has
      <4> QED  BY <3>1, <4>2 DEF CfgInv, DBInv
    <3>3. \A n : DBRead(n)' /\ TopRead(n) /\ TopRead(n)'
      BY <2>1, <2>4 DEF DBRead, TopRead
    <3>4. DBInv'  BY <3>2, <3>3 DEF DBInv
    <3>5. TopInv'
      <4>1. \A n \in DOMAIN TopKeys : cfg'[TopKeys[n]] = cfg[TopKeys[n]]
        BY <2>1, <2>3, KeyFacts
      <4>2. \A k : Has(k)' = Has(k)  BY <2>4 DEF Has
      <4> QED  BY <3>3, <4>1, <4>2 DEF CfgInv, TopInv
    <3> QED  BY <3>4, <3>5
  <2>8. ResultInv'  BY <2>1, <2>4, KeyFacts DEF ResultInv
  <2> QED  BY <2>3, <2>5, <2>6, <2>7, <2>8 DEF CfgInv
<1> QED  BY <1>1, <1>2, <1>3 DEF ReadChild, Reads

LEMMA TopKeeps == ASSUME KeysOnce, CfgInv, ReadTop PROVE CfgInv'
<1> DEFINE key == TopKeys[at]
<1>1. doing = "getSocketConfig" /\ result = NULL /\ at \in DOMAIN TopKeys
      /\ at \in Nat \ {0} /\ TypesInv /\ key \in Keys /\ key \in ToSet(TopKeys)
  BY KeyFacts DEF CfgInv, TypesInv, ReadTop, Functions
<1>2. CASE key \in Required \ DOMAIN file /\ Returns("error")
  <2>1. ~ Has(key)  BY <1>2 DEF Has
  <2> QED  BY <1>2, <2>1, StopKeeps
<1>3. CASE key \in DOMAIN file /\ file[key] = "none" /\ Returns("crash")
  <2>1. ~ Has(key)  BY <1>3 DEF Has
  <2> QED  BY <1>1, <1>3, <2>1, StopKeeps
<1>4. CASE /\ key \in DOMAIN file => file[key] = "value"
           /\ cfg' = [cfg EXCEPT ![key] = IF key \in DOMAIN file THEN key ELSE @]
           /\ at' = at + 1
           /\ UNCHANGED <<file, sections, doing, val, result>>
  <2>1. cfg[key] = Default  BY <1>1, KeyFacts DEF CfgInv, TopInv, TopRead
  <2>2. /\ cfg' \in [Keys -> Keys \cup {Default}]
        /\ cfg'[key] = IF Has(key) THEN key ELSE Default
        /\ \A k \in Keys : k # key => cfg'[k] = cfg[k]
    BY <1>1, <1>4, <2>1 DEF TypesInv, Has
  <2>3. TypesInv'  BY <1>1, <1>4, <2>2 DEF TypesInv
  <2>4. ValInv'  BY <1>1, <1>4 DEF ValInv
  <2>5. TopInv'
    <3> SUFFICES ASSUME NEW n \in DOMAIN TopKeys
                 PROVE  /\ TopRead(n)' => cfg'[TopKeys[n]] =
                              IF Has(TopKeys[n])' THEN TopKeys[n] ELSE Default
                        /\ result' = NULL /\ ~ TopRead(n)' => cfg'[TopKeys[n]] = Default
      BY DEF TopInv
    <3>1. Has(TopKeys[n])' = Has(TopKeys[n])  BY <1>4 DEF Has
    <3>2. CASE n = at  BY <1>1, <1>4, <2>2, <3>1, <3>2, KeyFacts DEF TopRead
    <3>3. CASE n # at
      <4>1. cfg'[TopKeys[n]] = cfg[TopKeys[n]]  BY <1>1, <2>2, <3>3, KeyFacts
      <4>2. TopRead(n)' = TopRead(n)  BY <1>1, <1>4, <3>3, KeyFacts DEF TopRead
      <4> QED  BY <1>4, <3>1, <4>1, <4>2 DEF CfgInv, TopInv
    <3> QED  BY <3>2, <3>3
  <2>6. DBInv'
    <3> SUFFICES ASSUME NEW n \in DOMAIN DBKeys
                 PROVE  /\ DBRead(n)' => FieldRight(DBKeys, n)'
                        /\ result' = NULL /\ ~ DBRead(n)' => cfg'[DBKeys[n]] = Default
      BY DEF DBInv
    <3>1. cfg'[DBKeys[n]] = cfg[DBKeys[n]]  BY <1>1, <2>2, KeyFacts
    <3>2. FieldRight(DBKeys, n)' = FieldRight(DBKeys, n)
      BY <1>4, <3>1 DEF FieldRight, LastValue, Has
    <3> QED  BY <1>1, <1>4, <3>1, <3>2 DEF CfgInv, DBInv, DBRead
  <2>7. SystemInv'
    BY <1>1, <1>4, <2>2, KeyFacts DEF CfgInv, SystemInv, SystemRead
  <2>8. ResultInv'  BY <1>1, <1>4, KeyFacts DEF ResultInv
  <2> QED  BY <2>3, <2>4, <2>5, <2>6, <2>7, <2>8 DEF CfgInv
<1> QED  BY <1>2, <1>3, <1>4 DEF ReadTop

\* The fields are not written when one function follows another.
LEMMA FieldsKept ==
  ASSUME UNCHANGED <<file, sections, cfg>>
  PROVE  /\ \A keys, i : FieldRight(keys, i)' = FieldRight(keys, i)
         /\ \A k : Has(k)' = Has(k)
BY DEF FieldRight, LastValue, Has

LEMMA CallKeeps ==
  ASSUME KeysOnce, CfgInv,
         \/ Calls("getDBConfig", DBKeys, "getSocketConfig")
         \/ Calls("getSocketConfig", TopKeys, "getSystemConfig")
  PROVE  CfgInv'
<1>1. /\ UNCHANGED <<file, sections, cfg, result>> /\ at' = 1 /\ val' = NULL
      /\ TypesInv /\ result = NULL /\ at \in Nat
      /\ \/ doing = "getDBConfig" /\ doing' = "getSocketConfig" /\ at > Len(DBKeys)
         \/ doing = "getSocketConfig" /\ doing' = "getSystemConfig" /\ at > Len(TopKeys)
  BY DEF Calls, CfgInv, TypesInv, Functions
<1>2. TypesInv' /\ ValInv'  BY <1>1 DEF TypesInv, ValInv, Functions
<1>3. DBInv'
  <2>1. \A i \in DOMAIN DBKeys : DBRead(i)  BY <1>1, KeyFacts DEF DBRead
  <2>2. \A i : DBRead(i)'  BY <1>1 DEF DBRead
  <2> QED  BY <1>1, <2>1, <2>2, FieldsKept DEF CfgInv, DBInv
<1>4. TopInv'
  <2>1. \A i \in DOMAIN TopKeys : TopRead(i)' = TopRead(i)
    BY <1>1, KeyFacts DEF TopRead
  <2> QED  BY <1>1, <2>1, FieldsKept DEF CfgInv, TopInv
<1>5. SystemInv'
  <2>1. \A i \in DOMAIN SystemKeys : ~ SystemRead(i) /\ ~ SystemRead(i)'
    BY <1>1, KeyFacts DEF SystemRead
  <2> QED  BY <1>1, <2>1 DEF CfgInv, SystemInv
<1>6. ResultInv'  BY <1>1, KeyFacts DEF ResultInv
<1> QED  BY <1>2, <1>3, <1>4, <1>5, <1>6 DEF CfgInv

LEMMA SuccessKeeps == ASSUME KeysOnce, CfgInv, Succeeds PROVE CfgInv'
<1>1. /\ UNCHANGED <<file, sections, at, val, cfg>> /\ doing' = "done"
      /\ result' = "success" /\ doing = "getSystemConfig" /\ at > Len(SystemKeys)
      /\ TypesInv /\ at \in Nat /\ NULL # "success"
  BY KeyFacts DEF Succeeds, Returns, CfgInv, TypesInv
<1>2. TypesInv' /\ ValInv'  BY <1>1 DEF TypesInv, ValInv
<1>3. /\ \A i \in DOMAIN DBKeys : DBRead(i)
      /\ \A i \in DOMAIN TopKeys : TopRead(i)
      /\ \A i \in DOMAIN SystemKeys : SystemRead(i)
  BY <1>1, KeyFacts DEF DBRead, TopRead, SystemRead
<1>4. DBInv'  BY <1>1, <1>3, FieldsKept DEF CfgInv, DBInv
<1>5. TopInv'  BY <1>1, <1>3, FieldsKept DEF CfgInv, TopInv
<1>6. SystemInv'  BY <1>1, <1>3, FieldsKept DEF CfgInv, SystemInv
<1>7. ResultInv'  BY <1>1 DEF ResultInv
<1> QED  BY <1>2, <1>4, <1>5, <1>6, <1>7 DEF CfgInv

LEMMA CfgInvStep == ASSUME KeysOnce PROVE CfgInv /\ [Next]_vars => CfgInv'
<1> SUFFICES ASSUME CfgInv, [Next]_vars PROVE CfgInv'  OBVIOUS
<1>1. CASE UNCHANGED vars
  BY <1>1 DEF vars, CfgInv, TypesInv, ValInv, DBInv, TopInv, SystemInv, ResultInv,
    DBRead, TopRead, SystemRead, FieldRight, LastValue, Has
<1> QED  BY <1>1, DBKeeps, CallKeeps, TopKeeps, SystemKeeps, SuccessKeeps DEF Next

LEMMA CfgInvImplies == ASSUME KeysOnce PROVE CfgInv => FieldsRead
<1> SUFFICES ASSUME CfgInv PROVE FieldsRead  OBVIOUS
<1>1. ASSUME result = "success"
      PROVE  /\ \A i \in DOMAIN DBKeys : FieldRight(DBKeys, i)
             /\ \A i \in DOMAIN SystemKeys : FieldRight(SystemKeys, i)
             /\ \A i \in DOMAIN TopKeys :
                   cfg[TopKeys[i]] = IF Has(TopKeys[i]) THEN TopKeys[i] ELSE Default
  BY <1>1 DEF CfgInv, DBInv, SystemInv, TopInv, DBRead, SystemRead, TopRead
<1>2. ASSUME result = "success", NEW k \in ToSet(TopKeys), ~ Has(k)
      PROVE  cfg[k] = Default
  BY <1>1, <1>2, KeyFacts
<1>3. ASSUME result = "success", NEW keys \in {DBKeys, SystemKeys}, NEW k \in ToSet(keys)
      PROVE  cfg[k] \in {Default} \cup ToSet(keys)
  <2>1. PICK i \in DOMAIN keys : k = keys[i]  BY DEF ToSet
  <2>2. FieldRight(keys, i)  BY <1>1, <1>3
  <2>3. \A j \in DOMAIN keys : keys[j] \in ToSet(keys)  BY DEF ToSet
  <2> QED  BY <2>1, <2>2, <2>3 DEF FieldRight, LastValue
<1>4. ASSUME result = "success", NEW k \in Keys, Has(k) PROVE cfg[k] = k
  <2>1. PICK keys \in {DBKeys, TopKeys, SystemKeys} : \E i \in DOMAIN keys : k = keys[i]
    BY KeyFacts
  <2> QED  BY <1>1, <1>4, <2>1 DEF FieldRight
<1>5. ResultInv  BY DEF CfgInv
<1> QED  BY <1>2, <1>3, <1>4, <1>5 DEF FieldsRead, ResultInv

\* For any lists in which no key comes twice and any tree: a key that is there is in its own field, a
\* missing one takes no value of another section, and there is a reason for an
\* error (cfg_init and ConfGetChildValue).
THEOREM PresentKeysRead == ASSUME KeysOnce PROVE Spec => []FieldsRead
<1>1. Init => CfgInv  BY InitInv
<1>2. CfgInv /\ [Next]_vars => CfgInv'  BY CfgInvStep
<1>3. CfgInv => FieldsRead  BY CfgInvImplies
<1> QED  BY <1>1, <1>2, <1>3, PTL DEF Spec
=============================================================================
