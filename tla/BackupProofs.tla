---------------------------- MODULE BackupProofs ----------------------------
(***************************************************************************)
(* That the backup file, the store and the connection to the database fit  *)
(* together, that a save writes what the store had, and that a restart     *)
(* with Restore brings it back: for every configuration, every number of   *)
(* starts, crashes, failures and writes and every width of the counters.   *)
(***************************************************************************)
EXTENDS Backup, SequenceTheorems, WellFoundedInduction, TLAPS

(***************************************************************************)
(* The arithmetic of the counters.                                         *)
(***************************************************************************)
\* int64 arithmetic stays in int64, and is exact where the result is.
LEMMA WrapFacts ==
  \A x \in Int : /\ Wrap(x) \in Int64
                 /\ x \in Int64 => Wrap(x) = x
                 /\ x - 2 * Half \in Int64 => Wrap(x) = x - 2 * Half
                 /\ x + 2 * Half \in Int64 => Wrap(x) = x + 2 * Half
<1> SUFFICES ASSUME NEW x \in Int
             PROVE  /\ Wrap(x) \in Int64
                    /\ x \in Int64 => Wrap(x) = x
                    /\ x - 2 * Half \in Int64 => Wrap(x) = x - 2 * Half
                    /\ x + 2 * Half \in Int64 => Wrap(x) = x + 2 * Half
  OBVIOUS
<1>1. Half \in Nat /\ Half > 0
  BY MetricsAssumption
<1>2. (x + Half) % (2 * Half) \in 0 .. (2 * Half - 1)
  BY <1>1
<1>3. \A y \in Int, m \in Nat \ {0} : /\ 0 <= y /\ y < m => y % m = y
                                      /\ 0 <= y - m /\ y - m < m => y % m = y - m
                                      /\ 0 <= y + m /\ y + m < m => y % m = y + m
  OBVIOUS
<1> DEFINE y == x + Half
           m == 2 * Half
<1>4. y \in Int /\ m \in Nat \ {0}
  BY <1>1
<1>5. /\ 0 <= y /\ y < m => y % m = y
      /\ 0 <= y - m /\ y - m < m => y % m = y - m
      /\ 0 <= y + m /\ y + m < m => y % m = y + m
  <2> HIDE DEF y, m
  <2> QED
    BY <1>3, <1>4
<1>6. Wrap(x) = (y % m) - Half
  BY DEF Wrap
<1> QED
  BY <1>1, <1>2, <1>5, <1>6 DEF Int64

\* What LoadData adds to a counter "brings [it] to the absolute value".
LEMMA MissingFacts ==
  \A seen, want \in Int64 : /\ Wrap(want - seen) \in Int64
                            /\ Wrap(seen + Wrap(want - seen)) = want
                            /\ Wrap(want - seen) = 0 => seen = want
<1> SUFFICES ASSUME NEW seen \in Int64, NEW want \in Int64
             PROVE  /\ Wrap(want - seen) \in Int64
                    /\ Wrap(seen + Wrap(want - seen)) = want
                    /\ Wrap(want - seen) = 0 => seen = want
  OBVIOUS
<1>1. /\ Half \in Nat /\ Half > 0 /\ seen \in Int /\ want \in Int
      /\ -Half <= seen /\ seen <= Half - 1 /\ -Half <= want /\ want <= Half - 1
  BY MetricsAssumption DEF Int64
<1>2. CASE want - seen \in Int64
  <2>1. Wrap(want - seen) = want - seen
    BY <1>1, <1>2, WrapFacts
  <2> QED
    BY <1>1, <1>2, <2>1, WrapFacts
<1>3. CASE want - seen - 2 * Half \in Int64
  <2>1. Wrap(want - seen) = want - seen - 2 * Half
    BY <1>1, <1>3, WrapFacts
  <2>2. Wrap(want - 2 * Half) = want
    BY <1>1, WrapFacts
  <2> QED
    BY <1>1, <1>3, <2>1, <2>2
<1>4. CASE want - seen + 2 * Half \in Int64
  <2>1. Wrap(want - seen) = want - seen + 2 * Half
    BY <1>1, <1>4, WrapFacts
  <2>2. Wrap(want + 2 * Half) = want
    BY <1>1, WrapFacts
  <2> QED
    BY <1>1, <1>4, <2>1, <2>2
<1> QED
  BY <1>1, <1>2, <1>3, <1>4 DEF Int64

LEMMA StoreTypes ==
  /\ EmptyContents \in Contents
  /\ NoMap \in [Names -> Int64 \cup {Nil}] /\ NoMap \in [Names -> GaugeValues \cup {Nil}]
  /\ Nil \notin Int64
BY MetricsAssumption DEF EmptyContents, Contents, NoMap, Int64

\* Storing any metric leaves well-formed contents.
LEMMA PutType == \A st \in Contents, m \in Metric : Put(st, m) \in Contents
<1> SUFFICES ASSUME NEW st \in Contents, NEW m \in Metric
             PROVE  Put(st, m) \in Contents
  OBVIOUS
<1>1. /\ m.id \in Names
      /\ st.counters \in [Names -> Int64 \cup {Nil}]
      /\ st.gauges \in [Names -> GaugeValues \cup {Nil}]
      /\ m.delta \in Int64 \cup {Nil}
      /\ m.value \in GaugeValues \cup {Nil}
  BY DEF Contents, Metric
<1>2. CASE m.mtype = "counter" /\ m.delta # Nil
  <2>1. m.delta \in Int
    BY <1>1, <1>2, MetricsAssumption DEF Int64
  <2>2. OrZero(st.counters[m.id]) \in Int
    BY <1>1, MetricsAssumption DEF OrZero, Int64
  <2>3. Wrap(OrZero(st.counters[m.id]) + m.delta) \in Int64
    BY <2>1, <2>2, WrapFacts
  <2> QED
    BY <1>1, <1>2, <2>3 DEF Put, Contents
<1>3. CASE m.mtype = "gauge" /\ m.value # Nil
  BY <1>1, <1>3 DEF Put, Contents
<1>4. CASE ~(m.mtype = "counter" /\ m.delta # Nil) /\ ~(m.mtype = "gauge" /\ m.value # Nil)
  BY <1>4 DEF Put
<1> QED
  BY <1>2, <1>3, <1>4

LEMMA Write1Type == \A st \in Contents, m \in Metric : Write1(st, m) \in Contents
BY PutType DEF Write1
-----------------------------------------------------------------------------
(***************************************************************************)
(* A batch: the library's FoldLeft, by induction over its length.          *)
(***************************************************************************)
LEMMA Induction ==
  ASSUME NEW T, 0 \in T, \A n \in Nat : n \in T => n + 1 \in T
  PROVE  Nat \subseteq T
<1> SUFFICES ASSUME Nat \ T # {} PROVE FALSE
  OBVIOUS
<1>1. PICK x \in Nat \ T : \A y \in Nat \ T : <<y, x>> \notin OpToRel(<, Nat)
  BY NatLessThanWellFounded, WFMin
<1>2. x # 0
  OBVIOUS
<1>3. x - 1 \in Nat /\ x - 1 < x
  BY <1>2
<1>4. x - 1 \in T
  BY <1>1, <1>3 DEF OpToRel
<1> QED
  BY <1>3, <1>4

LEMMA MaxFacts ==
  ASSUME NEW n \in Nat, NEW s \in SUBSET (1 .. n), s # {}
  PROVE  Max(s) \in s /\ \A y \in s : y <= Max(s)
<1> DEFINE T == {k \in Nat : \A r \in SUBSET (1 .. k) : r # {} => \E x \in r : \A y \in r : x >= y}
<1>1. 0 \in T
  <2>1. SUBSET (1 .. 0) = {{}}
    OBVIOUS
  <2> QED
    BY <2>1
<1>2. ASSUME NEW k \in Nat, k \in T PROVE k + 1 \in T
  <2> SUFFICES ASSUME NEW r \in SUBSET (1 .. k + 1), r # {}
               PROVE  \E x \in r : \A y \in r : x >= y
    OBVIOUS
  <2>1. CASE k + 1 \in r
    BY <2>1
  <2>2. CASE k + 1 \notin r
    <3>1. r \in SUBSET (1 .. k)
      BY <2>2
    <3> QED
      BY <1>2, <3>1
  <2> QED
    BY <2>1, <2>2
<1> HIDE DEF T
<1>3. n \in T
  BY <1>1, <1>2, Induction
<1>4. \E x \in s : \A y \in s : x >= y
  BY <1>3 DEF T
<1>5. Max(s) \in s /\ \A y \in s : Max(s) >= y
  BY <1>4 DEF Max
<1> QED
  BY <1>5

\* What FoldLeft chooses its function to satisfy, and that there is one.
Folds(g, st, ms, n) ==
  g = [s \in SUBSET (1 .. n) |-> IF s = {} THEN st ELSE Write1(g[s \ {Max(s)}], ms[Max(s)])]

LEMMA FoldExists ==
  ASSUME NEW st \in Contents, NEW ms \in Seq(Metric)
  PROVE  \E g : Folds(g, st, ms, Len(ms))
<1> DEFINE Step(g, s) == IF s = {} THEN st ELSE Write1(g[s \ {Max(s)}], ms[Max(s)])
           T == {k \in Nat : \E g : Folds(g, st, ms, k)}
<1>1. 0 \in T
  <2>1. SUBSET (1 .. 0) = {{}}
    OBVIOUS
  <2>2. Folds([s \in SUBSET (1 .. 0) |-> st], st, ms, 0)
    BY <2>1 DEF Folds
  <2> QED
    BY <2>2
<1>2. ASSUME NEW k \in Nat, k \in T PROVE k + 1 \in T
  <2>1. PICK g : Folds(g, st, ms, k)
    BY <1>2
  <2>2. \A s \in SUBSET (1 .. k) : g[s] = Step(g, s)
    BY <2>1 DEF Folds
  <2> DEFINE h == [s \in SUBSET (1 .. k + 1) |->
                     IF k + 1 \in s THEN Write1(g[s \ {k + 1}], ms[k + 1]) ELSE g[s]]
  <2>3. ASSUME NEW s \in SUBSET (1 .. k + 1) PROVE h[s] = Step(h, s)
    <3>1. CASE k + 1 \in s
      <4>1. Max(s) = k + 1
        <5>1. k + 1 \in Nat /\ s # {}
          BY <3>1
        <5>2. Max(s) \in s /\ \A y \in s : y <= Max(s)
          BY <5>1, MaxFacts
        <5>3. Max(s) \in 1 .. k + 1 /\ k + 1 <= Max(s)
          BY <3>1, <5>2
        <5> QED
          BY <5>3
      <4>2. s \ {k + 1} \in SUBSET (1 .. k) /\ k + 1 \notin s \ {k + 1}
        OBVIOUS
      <4>3. h[s \ {k + 1}] = g[s \ {k + 1}]
        BY <4>2
      <4> QED
        BY <3>1, <4>1, <4>3
    <3>2. CASE k + 1 \notin s
      <4>1. s \in SUBSET (1 .. k)
        BY <3>2
      <4>2. /\ s \ {Max(s)} \in SUBSET (1 .. k + 1)
            /\ k + 1 \notin s \ {Max(s)}
        BY <3>2
      <4>3. h[s \ {Max(s)}] = g[s \ {Max(s)}]
        BY <4>2
      <4>4. h[s] = g[s]
        BY <3>2
      <4> QED
        BY <2>2, <4>1, <4>3, <4>4
    <3> QED
      BY <3>1, <3>2
  <2>4. Folds(h, st, ms, k + 1)
    <3>1. h = [s \in SUBSET (1 .. k + 1) |-> h[s]]
      OBVIOUS
    <3> HIDE DEF h
    <3>2. h = [s \in SUBSET (1 .. k + 1) |-> Step(h, s)]
      BY <2>3, <3>1
    <3> QED
      BY <3>2 DEF Folds
  <2> QED
    BY <2>4
<1> HIDE DEF T
<1>3. Len(ms) \in T
  BY <1>1, <1>2, Induction, LenProperties
<1> QED
  BY <1>3 DEF T

\* Whatever a client writes, the contents stay well-formed.
LEMMA FoldType ==
  ASSUME NEW st \in Contents, NEW ms \in Seq(Metric)
  PROVE  FoldLeft(Write1, st, ms) \in Contents
<1> DEFINE n == Len(ms)
           g == CHOOSE f : Folds(f, st, ms, n)
<1>1. n \in Nat /\ DOMAIN ms = 1 .. n
  BY LenProperties
<1>2. FoldLeft(Write1, st, ms) = g[1 .. n]
  BY <1>1 DEF FoldLeft, MapThenFoldSet, Folds
<1>3. Folds(g, st, ms, n)
  BY FoldExists
<1> HIDE DEF g
<1>4. \A s \in SUBSET (1 .. n) :
        g[s] = IF s = {} THEN st ELSE Write1(g[s \ {Max(s)}], ms[Max(s)])
  BY <1>3 DEF Folds
<1> DEFINE T == {k \in Nat : k <= n => g[1 .. k] \in Contents}
<1>5. 0 \in T
  <2>1. 1 .. 0 = {} /\ {} \in SUBSET (1 .. n)
    OBVIOUS
  <2> QED
    BY <1>4, <2>1
<1>6. ASSUME NEW k \in Nat, k \in T PROVE k + 1 \in T
  <2> SUFFICES ASSUME k + 1 <= n PROVE g[1 .. k + 1] \in Contents
    OBVIOUS
  <2>1. /\ 1 .. k + 1 \in SUBSET (1 .. n) /\ 1 .. k + 1 # {} /\ k + 1 \in 1 .. n
        /\ (1 .. k + 1) \ {k + 1} = 1 .. k
    BY <1>1
  <2>2. Max(1 .. k + 1) = k + 1
    <3>1. Max(1 .. k + 1) \in 1 .. k + 1 /\ \A y \in 1 .. k + 1 : y <= Max(1 .. k + 1)
      BY <1>1, <2>1, MaxFacts
    <3> QED
      BY <3>1
  <2>3. g[1 .. k + 1] = Write1(g[1 .. k], ms[k + 1])
    BY <1>4, <2>1, <2>2
  <2>4. g[1 .. k] \in Contents
    BY <1>1, <1>6
  <2>5. ms[k + 1] \in Metric
    BY <1>1, <2>1, ElementOfSeq
  <2> QED
    BY <2>3, <2>4, <2>5, Write1Type
<1> HIDE DEF T
<1>7. n \in T
  BY <1>1, <1>5, <1>6, Induction
<1> QED
  BY <1>1, <1>2, <1>7 DEF T
-----------------------------------------------------------------------------
(***************************************************************************)
(* The inductive invariant.                                                *)
(***************************************************************************)
SaveStates == [pc       : {"idle", "counters", "gauges", "create", "write"},
               counters : [Names -> Int64 \cup {Nil}],
               gauges   : [Names -> GaugeValues \cup {Nil}],
               lost     : SUBSET Maps]

Files == {Missing, Broken} \cup {Saved(data) : data \in Contents}

Types ==
  /\ cfg \in Configs
  /\ process \in {"down", "opening", "loading", "saving", "up", "closing", "closed"}
  /\ backend \in {"memory", "database"}
  /\ open \in BOOLEAN /\ done \in BOOLEAN /\ ticking \in BOOLEAN /\ unread \in BOOLEAN
  /\ mem \in Contents /\ rows \in Contents
  /\ file \in Files
  /\ save \in [Savers -> SaveStates]
  /\ log \in Seq(Contents)
  /\ since \in [Savers -> Nat]
  /\ failures \in Nat

\* A save remembers a moment of the log.
SinceLogged == \A s \in Savers : /\ since[s] <= Len(log)
                                 /\ save[s].pc # "idle" => since[s] > 0 /\ cfg.path

\* Who may be saving in which phase of the process; the history of the store.
Running == process \notin {"down", "opening", "loading"}

Phases ==
  /\ ~Running => log = <<>> /\ ~done /\ ~ticking /\ save = [s \in Savers |-> NoSave]
  /\ Running => log # <<>> /\ log[Len(log)] = Store
  /\ process = "saving" => ~ticking /\ save["ticker"] = NoSave
  /\ process \in {"saving", "up"} => save["final"] = NoSave
  /\ process # "saving" => save["start"] = NoSave
  /\ SinceLogged

DatabaseInv ==
  /\ DatabaseIsReady
  /\ process = "down" => backend = "memory" /\ ~open
  /\ process \in {"down", "opening"} => todo = {} /\ unlucky = {} /\ ~unread

\* What a save has read it has read from the log, the counters not after the
\* gauges, and it has lost a map only to the database.
IsCut(read, from, history, excuse) ==
  /\ read.pc \in {"gauges", "create", "write"} =>
       \E i \in from .. Len(history) :
         /\ read.counters = IF "counters" \in read.lost THEN NoMap ELSE history[i].counters
         /\ read.pc \in {"create", "write"} =>
              \E j \in i .. Len(history) :
                read.gauges = IF "gauges" \in read.lost THEN NoMap ELSE history[j].gauges
  /\ read.pc \in {"idle", "counters"} => read = [NoSave EXCEPT !.pc = read.pc]
  /\ read.pc = "gauges" => read.gauges = NoMap /\ "gauges" \notin read.lost
  /\ read.lost # {} => excuse

DatabaseFailed == backend = "database" /\ (failures > 0 \/ ~open)

SavesAreCuts == \A s \in Savers : IsCut(save[s], since[s], log, DatabaseFailed)

\* Whether the store has what the file has for an item.
Back(f, contents, i) ==
  IF i[1] = "counters"
  THEN OrZero(contents.counters[i[2]]) = f.data.counters[i[2]]
  ELSE contents.gauges[i[2]] = f.data.gauges[i[2]]

\* Until the server listens only LoadData touches the store.
Restores == cfg.restore /\ cfg.path /\ ~unread

LoadInv ==
  /\ process \in {"opening", "loading"} => before = file
  /\ process = "loading" =>
       /\ todo \cup unlucky \subseteq ItemsOf(file)
       /\ Restores => \A i \in ItemsOf(file) \ (todo \cup unlucky) : Back(file, Store, i)
  /\ process = "saving" /\ Restores =>
       \A i \in ItemsOf(before) \ unlucky : Back(before, Store, i)

\* The save at the start finds the store as LoadData left it.
StartInv ==
  /\ save["start"].pc \in {"gauges", "create", "write"} /\ save["start"].lost = {} =>
       save["start"].counters = Store.counters
  /\ save["start"].pc \in {"create", "write"} /\ save["start"].lost = {} =>
       save["start"].gauges = Store.gauges
  /\ save["start"].pc = "write" => file = Broken

Inv == Types /\ Phases /\ DatabaseInv /\ SavesAreCuts /\ LoadInv /\ StartInv /\ BrokenHasCause

LEMMA FileFacts ==
  \A f \in Files : /\ f.state \in {"missing", "broken", "saved"}
                   /\ f.state = "broken" <=> f = Broken
                   /\ f.state = "saved" => f.data \in Contents
BY DEF Files, Missing, Broken, Saved

LEMMA SaveFacts ==
  /\ NoSave \in SaveStates /\ NoSave.pc = "idle" /\ NoSave.lost = {}
  /\ NoSave.counters = NoMap /\ NoSave.gauges = NoMap
  /\ [NoSave EXCEPT !.pc = "counters"] \in SaveStates
BY StoreTypes DEF NoSave, SaveStates

LEMMA StoreType == Types => Store \in Contents
BY DEF Types, Store
-----------------------------------------------------------------------------
(***************************************************************************)
(* Types.                                                                  *)
(***************************************************************************)
\* The metric LoadData makes of an item is one of the contract.
LEMMA ItemType ==
  ASSUME Types, NEW map \in Maps, NEW n \in Names, <<map, n>> \in ItemsOf(file),
         NEW seen \in {Nil, Store[map][n]}
  PROVE  ToStore(map, n, seen) \in Metric
<1>1. /\ file.data \in Contents
      /\ map = "counters" => file.data.counters[n] # Nil
      /\ map = "gauges" => file.data.gauges[n] # Nil
  BY FileFacts DEF Types, ItemsOf, Maps
<1>2. CASE map = "gauges"
  BY <1>1, <1>2 DEF ToStore, Metric, Contents
<1>3. CASE map = "counters"
  <2>1. file.data.counters[n] \in Int64
    BY <1>1, <1>3 DEF Contents
  <2>2. seen \in Int64 \cup {Nil}
    BY <1>3, StoreType DEF Contents
  <2>3. MissingTo(seen, file.data.counters[n]) \in Int64
    BY <2>1, <2>2, MissingFacts DEF MissingTo
  <2> QED
    BY <1>3, <2>3 DEF ToStore, Metric
<1> QED
  BY <1>2, <1>3 DEF Maps

LEMMA LoadItemStore ==
  ASSUME Types, NEW map \in Maps, NEW n \in Names, <<map, n>> \in ItemsOf(file),
         LoadItem(map, n)
  PROVE  \E contents \in Contents : SetStore(contents)
<1> DEFINE Loaded(seen) == LET m == ToStore(map, n, seen)
                           IN  IF m.delta = 0 THEN Store ELSE Write1(Store, m)
<1>1. \A seen \in {Nil, Store[map][n]} : Loaded(seen) \in Contents
  <2> SUFFICES ASSUME NEW seen \in {Nil, Store[map][n]} PROVE Loaded(seen) \in Contents
    OBVIOUS
  <2>1. ToStore(map, n, seen) \in Metric
    BY ItemType
  <2> QED
    BY <2>1, StoreType, Write1Type
<1>2. Loaded(Nil) \in Contents /\ Loaded(Store[map][n]) \in Contents /\ Store \in Contents
  BY <1>1, StoreType
<1>3. \E contents \in {Loaded(Nil), Loaded(Store[map][n]), Store} : SetStore(contents)
  BY DEF LoadItem
<1> HIDE DEF Loaded
<1> QED
  BY <1>2, <1>3

LEMMA SetStoreType ==
  ASSUME Types, NEW contents \in Contents, SetStore(contents)
  PROVE  mem' \in Contents /\ rows' \in Contents
BY DEF Types, SetStore

LEMMA StartSaveType ==
  ASSUME Types, NEW s \in Savers, NEW n \in Nat, StartSave(s, n)
  PROVE  save' \in [Savers -> SaveStates] /\ since' \in [Savers -> Nat]
BY SaveFacts DEF Types, StartSave

LEMMA InitTypes == BackupInit => Types
<1> SUFFICES ASSUME BackupInit PROVE Types
  OBVIOUS
<1>1. Missing \in Files /\ <<>> \in Seq(Contents)
  BY DEF Files
<1> QED
  BY <1>1, StoreTypes, SaveFacts DEF BackupInit, Types

LEMMA TypesStep ==
  ASSUME Inv, BackupNext
  PROVE  Types'
<1> USE DEF Inv, dbVars, loadVars, loopVars
<1>0. Types
  OBVIOUS
<1>1. ASSUME NEW s \in Savers, ReadMap(s) PROVE Types'
  <2>1. \/ save' = [save EXCEPT ![s].pc = "gauges", ![s].counters = Store.counters]
        \/ save' = [save EXCEPT ![s].pc = "create", ![s].gauges = Store.gauges]
        \/ save' = [save EXCEPT ![s].pc = "gauges", ![s].lost = @ \cup {"counters"}]
        \/ save' = [save EXCEPT ![s].pc = "create", ![s].lost = @ \cup {"gauges"}]
    BY <1>1 DEF ReadMap, Maps
  <2>2. Store.counters \in [Names -> Int64 \cup {Nil}] /\ Store.gauges \in [Names -> GaugeValues \cup {Nil}]
    BY StoreType DEF Contents
  <2>3. save' \in [Savers -> SaveStates]
    <3> DEFINE r == save[s]
    <3>1. r \in SaveStates
      BY DEF Types
    <3>2. /\ [r EXCEPT !.pc = "gauges", !.counters = Store.counters] \in SaveStates
          /\ [r EXCEPT !.pc = "create", !.gauges = Store.gauges] \in SaveStates
          /\ [r EXCEPT !.pc = "gauges", !.lost = @ \cup {"counters"}] \in SaveStates
          /\ [r EXCEPT !.pc = "create", !.lost = @ \cup {"gauges"}] \in SaveStates
      <4> HIDE DEF r
      <4> QED
        BY <2>2, <3>1 DEF SaveStates, Maps
    <3>3. \E x \in SaveStates : save' = [save EXCEPT ![s] = x]
      <4>1. \/ save' = [save EXCEPT ![s] = [r EXCEPT !.pc = "gauges", !.counters = Store.counters]]
            \/ save' = [save EXCEPT ![s] = [r EXCEPT !.pc = "create", !.gauges = Store.gauges]]
            \/ save' = [save EXCEPT ![s] = [r EXCEPT !.pc = "gauges", !.lost = @ \cup {"counters"}]]
            \/ save' = [save EXCEPT ![s] = [r EXCEPT !.pc = "create", !.lost = @ \cup {"gauges"}]]
        BY <2>1 DEF Types
      <4> HIDE DEF r
      <4> QED
        BY <3>2, <4>1
    <3> QED
      BY <3>3 DEF Types
  <2>4. failures' \in Nat
    BY <1>1 DEF Types, ReadMap, Fail
  <2> QED
    BY <1>1, <2>3, <2>4 DEF Types, ReadMap
<1>2. ASSUME NEW s \in Savers, Create(s) PROVE Types'
  <2>1. save' = [save EXCEPT ![s].pc = "write"] \/ save' = [save EXCEPT ![s] = NoSave]
    BY <1>2 DEF Create
  <2>2. save' \in [Savers -> SaveStates]
    <3>1. [save[s] EXCEPT !.pc = "write"] \in SaveStates
      BY DEF Types, SaveStates
    <3>2. \E x \in SaveStates : save' = [save EXCEPT ![s] = x]
      BY <2>1, <3>1, SaveFacts DEF Types
    <3> QED
      BY <3>2 DEF Types
  <2>3. file' \in Files /\ failures' \in Nat
    BY <1>2 DEF Create, Types, Files, Fail
  <2> QED
    BY <1>2, <2>2, <2>3 DEF Types, Create
<1>3. ASSUME NEW s \in Savers, Encode(s) PROVE Types'
  <2>1. Snapshot(s) \in Contents
    BY DEF Types, SaveStates, Snapshot, Contents
  <2>2. file' \in Files /\ failures' \in Nat
    BY <1>3, <2>1 DEF Encode, Types, Files, Fail
  <2> QED
    BY <1>3, <2>2, SaveFacts DEF Types, Encode
<1>4. CASE Start
  <2>1. /\ backend' \in {"memory", "database"} /\ open' \in BOOLEAN /\ failures' \in Nat
    <3>1. CASE Connect
      <4>1. failures' = failures \/ failures' = failures + 1
        BY <3>1 DEF Connect, Fail
      <4>2. backend' \in {"memory", "database"} /\ open' \in BOOLEAN
        BY <3>1 DEF Connect
      <4> QED
        BY <4>1, <4>2 DEF Types
    <3>2. CASE backend' = "memory" /\ UNCHANGED <<open, tables, failures>>
      BY <3>2 DEF Types
    <3> QED
      BY <1>4, <3>1, <3>2 DEF Start
  <2> QED
    BY <1>4, <2>1 DEF Types, Start
<1>04. CASE OpenFile
  <2>1. failures' \in Nat
    BY <1>04 DEF OpenFile, Types, Fail
  <2>2. unread' \in BOOLEAN
    BY <1>04, Zenon DEF OpenFile, Types
  <2> QED
    BY <1>04, <2>1, <2>2 DEF Types, OpenFile
<1>5. ASSUME NEW i \in todo, LoadItem(i[1], i[2]) PROVE Types'
  <2>1. i \in ItemsOf(file) /\ i[1] \in Maps /\ i[2] \in Names /\ i = <<i[1], i[2]>>
    BY <1>5 DEF LoadItem, LoadInv, ItemsOf
  <2>2. mem' \in Contents /\ rows' \in Contents
    BY <1>5, <2>1, LoadItemStore, SetStoreType
  <2>3. failures' \in Nat
    BY <1>5 DEF LoadItem, Types, Fail
  <2> QED
    BY <1>5, <2>2, <2>3 DEF Types, LoadItem
<1>6. CASE NewStorage
  <2>1. save' \in [Savers -> SaveStates] /\ since' \in [Savers -> Nat]
    BY <1>6, StartSaveType DEF NewStorage, Types, Savers
  <2>2. log' \in Seq(Contents)
    BY <1>6, StoreType DEF NewStorage
  <2> QED
    BY <1>6, <2>1, <2>2 DEF Types, NewStorage
<1>7. CASE Listen
  BY <1>7 DEF Types, Listen
<1>8. ASSUME NEW ms \in Writes, Write(ms) PROVE Types'
  <2>1. FoldLeft(Write1, Store, ms) \in Contents
    BY BackupAssumption, StoreType, FoldType
  <2>2. mem' \in Contents /\ rows' \in Contents
    BY <1>8, <2>1, SetStoreType DEF Write
  <2>3. log' \in Seq(Contents)
    BY <1>8, <2>1, AppendProperties DEF Write, Types
  <2> QED
    BY <1>8, <2>2, <2>3 DEF Types, Write
<1>9. CASE Tick
  <2>1. save' \in [Savers -> SaveStates] /\ since' \in [Savers -> Nat]
    BY <1>9, StartSaveType, LenProperties DEF Tick, Types, Savers
  <2> QED
    BY <1>9, <2>1 DEF Types, Tick
<1>10. CASE BackupEnds
  BY <1>10 DEF Types, BackupEnds
<1>11. CASE Close
  <2>1. save' \in [Savers -> SaveStates] /\ since' \in [Savers -> Nat]
    BY <1>11, StartSaveType, LenProperties DEF Close, Types, Savers
  <2> QED
    BY <1>11, <2>1 DEF Types, Close
<1>12. CASE Closed
  BY <1>12 DEF Types, Closed
<1>13. CASE Gone
  <2>1. log' \in Seq(Contents)
    BY <1>13 DEF Gone
  <2> QED
    BY <1>13, <2>1, StoreTypes, SaveFacts DEF Types, Gone
<1>14. CASE Over
  BY <1>14 DEF Types, Over, backupVars
<1> QED
  BY <1>1, <1>2, <1>04, <1>3, <1>4, <1>5, <1>6, <1>7, <1>8, <1>9, <1>10, <1>11, <1>12, <1>13, <1>14
     DEF BackupNext, Exit, Crash
-----------------------------------------------------------------------------
(***************************************************************************)
(* The phases of the process, the history of the store, the savers.        *)
(***************************************************************************)
\* A step of a save that is under way changes nothing but that save, the file
\* and the causes.
SaveStep(s) ==
  /\ save[s].pc # "idle"
  /\ \A t \in Savers \ {s} : save'[t] = save[t]
  /\ UNCHANGED <<cfg, process, dbVars, mem, rows, loadVars, loopVars, starts, log, since>>
  /\ failures' = failures \/ failures' = failures + 1

LEMMA IsSaveStep ==
  ASSUME Types, NEW s \in Savers, ReadMap(s) \/ Create(s) \/ Encode(s)
  PROVE  SaveStep(s)
<1>1. save[s].pc # "idle"
  BY DEF ReadMap, Create, Encode, Maps
<1>2. \A t \in Savers \ {s} : save'[t] = save[t]
  BY DEF ReadMap, Create, Encode, Types
<1>3. UNCHANGED <<cfg, process, dbVars, mem, rows, loadVars, loopVars, starts, log, since>>
  BY DEF ReadMap, Create, Encode
<1>4. failures' = failures \/ failures' = failures + 1
  BY DEF ReadMap, Create, Encode, Fail
<1> QED
  BY <1>1, <1>2, <1>3, <1>4 DEF SaveStep

\* A save that starts.
LEMMA Starting ==
  ASSUME Types, NEW s \in Savers, NEW n \in Nat, StartSave(s, n)
  PROVE  /\ since' = [since EXCEPT ![s] = n]
         /\ cfg.path => save' = [save EXCEPT ![s] = [NoSave EXCEPT !.pc = "counters"]]
         /\ ~cfg.path => save' = save
         /\ \A t \in Savers \ {s} : save'[t] = save[t] /\ since'[t] = since[t]
         /\ since'[s] = n
         /\ save'[s] = IF cfg.path THEN [NoSave EXCEPT !.pc = "counters"] ELSE save[s]
BY DEF Types, StartSave

LEMMA PhasesStep ==
  ASSUME Inv, BackupNext, Types'
  PROVE  Phases'
<1> USE DEF Inv, dbVars, loadVars, loopVars, Running
<1>0. Types /\ Phases
  OBVIOUS
<1>00. /\ SinceLogged
       /\ \A t \in Savers : since[t] <= Len(log) /\ (save[t].pc # "idle" => since[t] > 0 /\ cfg.path)
  <2>1. SinceLogged
    BY DEF Phases, SinceLogged
  <2> QED
    BY <2>1 DEF SinceLogged
<1>1. ASSUME NEW s \in Savers, ReadMap(s) \/ Create(s) \/ Encode(s) PROVE Phases'
  <2>1. SaveStep(s)
    BY <1>1, IsSaveStep
  <2>2. Running
    BY <2>1, SaveFacts DEF Phases, SinceLogged, SaveStep
  <2>3. Store' = Store
    BY <2>1 DEF Store, SaveStep
  <2>4. /\ process = "saving" => s # "ticker"
        /\ process \in {"saving", "up"} => s # "final"
        /\ process # "saving" => s # "start"
    BY <2>1, SaveFacts DEF Phases, SinceLogged, SaveStep
  <2>5. \A t \in Savers : since'[t] <= Len(log') /\ (save'[t].pc # "idle" => since'[t] > 0 /\ cfg'.path)
    <3> SUFFICES ASSUME NEW t \in Savers
                 PROVE  since'[t] <= Len(log') /\ (save'[t].pc # "idle" => since'[t] > 0 /\ cfg'.path)
      OBVIOUS
    <3>1. since'[t] = since[t] /\ cfg' = cfg /\ log' = log /\ save[s].pc # "idle"
      BY <2>1 DEF SaveStep
    <3>2. since[t] <= Len(log) /\ (save[t].pc # "idle" => since[t] > 0 /\ cfg.path)
      BY <1>00
    <3>3. save'[t].pc # "idle" => save[t].pc # "idle"
      <4>1. CASE t = s
        BY <3>1, <4>1
      <4>2. CASE t # s
        BY <2>1, <4>2 DEF SaveStep
      <4> QED
        BY <4>1, <4>2
    <3> QED
      BY <3>1, <3>2, <3>3
  <2> QED
    BY <2>1, <2>2, <2>3, <2>4, <2>5 DEF Phases, SinceLogged, SaveStep, Savers
<1>2. CASE Start
  BY <1>2 DEF Start, Phases, SinceLogged
<1>02. CASE OpenFile
  BY <1>02 DEF OpenFile, Phases, SinceLogged
<1>3. ASSUME NEW i \in todo, LoadItem(i[1], i[2]) PROVE Phases'
  BY <1>3 DEF LoadItem, Phases, SinceLogged
<1>4. CASE NewStorage
  <2>1. Store' = Store /\ log' = <<Store>> /\ Len(log') = 1 /\ log'[1] = Store
    BY <1>4 DEF NewStorage, Store
  <2>2. /\ save = [s \in Savers |-> NoSave] /\ ~done /\ ~ticking /\ log = <<>>
        /\ \A s \in Savers : since[s] = 0 /\ save[s] = NoSave
    <3>1. Len(<<>>) = 0
      OBVIOUS
    <3>2. \A s \in Savers : since[s] <= 0 /\ since[s] \in Nat
      <4>1. log = <<>> /\ since \in [Savers -> Nat]
        BY <1>4 DEF NewStorage, Phases, SinceLogged, Types
      <4>2. \A s \in Savers : since[s] <= Len(log)
        BY <1>00
      <4> QED
        BY <3>1, <4>1, <4>2
    <3> QED
      BY <1>4, <3>2 DEF NewStorage, Phases, SinceLogged
  <2>3. CASE cfg.interval > 0
    BY <1>4, <2>1, <2>2, <2>3, SaveFacts DEF NewStorage, Phases, SinceLogged, Savers
  <2>4. CASE ~(cfg.interval > 0)
    <3>1. StartSave("start", 1) /\ process' = "saving" /\ ticking' = ticking /\ done' = done /\ cfg' = cfg
      BY <1>4, <2>4 DEF NewStorage
    <3>2. /\ \A t \in Savers \ {"start"} : save'[t] = NoSave /\ since'[t] = 0
          /\ since'["start"] = 1
          /\ ~cfg.path => save'["start"] = NoSave
      BY <2>2, <3>1, Starting DEF Savers
    <3> QED
      BY <2>1, <2>2, <3>1, <3>2, SaveFacts DEF Phases, SinceLogged, Savers
  <2> QED
    BY <2>3, <2>4
<1>5. CASE Listen
  <2>1. Store' = Store
    BY <1>5 DEF Listen, Store
  <2> QED
    BY <1>5, <2>1 DEF Listen, Phases, SinceLogged
<1>6. ASSUME NEW ms \in Writes, Write(ms) PROVE Phases'
  <2>1. PICK contents \in Contents : SetStore(contents) /\ log' = Append(log, contents)
    BY <1>6, BackupAssumption, StoreType, FoldType DEF Write
  <2>2. backend' = backend
    BY <1>6 DEF Write
  <2>3. Store' = contents
    BY <2>1, <2>2 DEF Store, SetStore
  <2>4. log \in Seq(Contents) /\ Len(log) \in Nat /\ Len(log') = Len(log) + 1
        /\ log'[Len(log')] = contents /\ log' # <<>>
    BY <2>1, AppendProperties, LenProperties, SMTT(40) DEF Types
  <2>5. \A s \in Savers : since[s] <= Len(log')
    <3>1. \A m, n \in Nat : m <= n => m <= n + 1
      OBVIOUS
    <3> QED
      <4>1. \A s \in Savers : since[s] \in Nat /\ since[s] <= Len(log)
        BY <1>00 DEF Types
      <4> QED
        BY <1>6, <2>4, <3>1, <4>1 DEF Write
  <2> QED
    <3>1. UNCHANGED <<cfg, process, done, ticking, save, since>> /\ process = "up"
      BY <1>6 DEF Write
    <3>2. \A s \in Savers : since'[s] <= Len(log') /\ (save'[s].pc # "idle" => since'[s] > 0 /\ cfg'.path)
      BY <1>00, <2>5, <3>1
    <3>3. log' # <<>> /\ log'[Len(log')] = Store'
      BY <2>3, <2>4
    <3> QED
      BY <3>1, <3>2, <3>3 DEF Phases, SinceLogged
<1>7. CASE Tick
  <2>1. /\ Len(log) \in Nat /\ Running /\ Len(log) > 0 /\ process # "saving"
    BY <1>7, LenProperties, EmptySeq DEF Tick, Phases, SinceLogged, Types
  <2>2. StartSave("ticker", Len(log)) /\ Store' = Store
    BY <1>7 DEF Tick, Store
  <2>3. /\ \A t \in Savers \ {"ticker"} : save'[t] = save[t] /\ since'[t] = since[t]
        /\ since'["ticker"] = Len(log)
        /\ ~cfg.path => save'["ticker"] = NoSave
    BY <1>7, <2>1, <2>2, Starting DEF Savers, Tick
  <2>4. \A t \in Savers : since'[t] <= Len(log') /\ (save'[t].pc # "idle" => since'[t] > 0 /\ cfg'.path)
    <3> SUFFICES ASSUME NEW t \in Savers
                 PROVE  since'[t] <= Len(log') /\ (save'[t].pc # "idle" => since'[t] > 0 /\ cfg'.path)
      OBVIOUS
    <3>1. log' = log /\ cfg' = cfg
      BY <1>7 DEF Tick
    <3>2. since[t] <= Len(log) /\ (save[t].pc # "idle" => since[t] > 0 /\ cfg.path)
      BY <1>00
    <3>3. CASE t = "ticker"
      BY <2>1, <2>3, <3>1, <3>3, SaveFacts
    <3>4. CASE t # "ticker"
      BY <2>3, <3>1, <3>2, <3>4
    <3> QED
      BY <3>3, <3>4
  <2> QED
    BY <1>7, <2>1, <2>2, <2>3, <2>4 DEF Tick, Phases, SinceLogged, Savers
<1>8. CASE BackupEnds
  <2>1. Store' = Store
    BY <1>8 DEF BackupEnds, Store
  <2> QED
    BY <1>8, <2>1 DEF BackupEnds, Phases, SinceLogged
<1>9. CASE Close
  <2>1. /\ Len(log) \in Nat /\ Running /\ Len(log) > 0 /\ save["final"] = NoSave
    BY <1>9, LenProperties, EmptySeq DEF Close, Phases, SinceLogged, Types
  <2>2. StartSave("final", Len(log)) /\ Store' = Store
    BY <1>9 DEF Close, Store
  <2>3. /\ \A t \in Savers \ {"final"} : save'[t] = save[t] /\ since'[t] = since[t]
        /\ since'["final"] = Len(log)
        /\ ~cfg.path => save'["final"] = NoSave
    BY <1>9, <2>1, <2>2, Starting DEF Savers, Close
  <2>4. \A t \in Savers : since'[t] <= Len(log') /\ (save'[t].pc # "idle" => since'[t] > 0 /\ cfg'.path)
    <3> SUFFICES ASSUME NEW t \in Savers
                 PROVE  since'[t] <= Len(log') /\ (save'[t].pc # "idle" => since'[t] > 0 /\ cfg'.path)
      OBVIOUS
    <3>1. log' = log /\ cfg' = cfg
      BY <1>9 DEF Close
    <3>2. since[t] <= Len(log) /\ (save[t].pc # "idle" => since[t] > 0 /\ cfg.path)
      BY <1>00
    <3>3. CASE t = "final"
      BY <2>1, <2>3, <3>1, <3>3, SaveFacts
    <3>4. CASE t # "final"
      BY <2>3, <3>1, <3>2, <3>4
    <3> QED
      BY <3>3, <3>4
  <2> QED
    BY <1>9, <2>1, <2>2, <2>3, <2>4 DEF Close, Phases, SinceLogged, Savers
<1>10. CASE Closed
  <2>1. Store' = Store
    BY <1>10 DEF Closed, Store
  <2> QED
    BY <1>10, <2>1 DEF Closed, Phases, SinceLogged
<1>11. CASE Gone
  <2>1. Len(<<>>) = 0 /\ \A s \in Savers : save'[s] = NoSave /\ since'[s] = 0
    BY <1>11 DEF Gone
  <2>2. \A s \in Savers : since'[s] <= Len(log') /\ save'[s].pc = "idle"
    BY <1>11, <2>1, SaveFacts DEF Gone
  <2> QED
    BY <1>11, <2>1, <2>2 DEF Gone, Phases, SinceLogged, Savers
<1>12. CASE Over
  <2>1. Store' = Store
    BY <1>12 DEF Over, backupVars, Store
  <2> QED
    BY <1>12, <2>1 DEF Over, backupVars, Phases, SinceLogged
<1> QED
  BY <1>1, <1>2, <1>02, <1>3, <1>4, <1>5, <1>6, <1>7, <1>8, <1>9, <1>10, <1>11, <1>12
     DEF BackupNext, Exit, Crash

LEMMA DatabaseStep ==
  ASSUME Inv, BackupNext
  PROVE  DatabaseInv'
<1> USE DEF Inv, dbVars, loadVars, loopVars, DatabaseInv, DatabaseIsReady
<1>0. Types /\ Phases
  OBVIOUS
<1>1. ASSUME NEW s \in Savers, ReadMap(s) \/ Create(s) \/ Encode(s) PROVE DatabaseInv'
  BY <1>1, IsSaveStep DEF SaveStep
<1>2. CASE Start
  <2>1. /\ backend' = "database" => tables' = {"gauge", "counter"} /\ cfg.database
        /\ open' <=> backend' = "database"
    BY <1>2 DEF Start, Connect
  <2> QED
    BY <1>2, <2>1 DEF Start
<1>02. CASE OpenFile
  BY <1>02 DEF OpenFile
<1>3. ASSUME NEW i \in todo, LoadItem(i[1], i[2]) PROVE DatabaseInv'
  BY <1>3 DEF LoadItem
<1>4. CASE NewStorage
  BY <1>4 DEF NewStorage
<1>5. CASE Listen
  BY <1>5 DEF Listen
<1>6. ASSUME NEW ms \in Writes, Write(ms) PROVE DatabaseInv'
  BY <1>6 DEF Write
<1>7. CASE Tick
  BY <1>7 DEF Tick
<1>8. CASE BackupEnds
  BY <1>8 DEF BackupEnds
<1>9. CASE Close
  BY <1>9 DEF Close
<1>10. CASE Closed
  BY <1>10 DEF Closed
<1>11. CASE Gone
  BY <1>11 DEF Gone
<1>12. CASE Over
  BY <1>12 DEF Over, backupVars
<1> QED
  BY <1>1, <1>2, <1>02, <1>3, <1>4, <1>5, <1>6, <1>7, <1>8, <1>9, <1>10, <1>11, <1>12
     DEF BackupNext, Exit, Crash
-----------------------------------------------------------------------------
(***************************************************************************)
(* What a save has read.                                                   *)
(***************************************************************************)
\* The log grows at its end: what was read from it stays in it.
LEMMA CutStays ==
  ASSUME NEW history \in Seq(Contents), NEW contents \in Contents, NEW from \in Nat,
         NEW read, read.pc # "idle" => from > 0,
         NEW excuse, IsCut(read, from, history, excuse)
  PROVE  IsCut(read, from, Append(history, contents), excuse)
<1> DEFINE longer == Append(history, contents)
<1>1. /\ Len(history) \in Nat /\ Len(longer) = Len(history) + 1
      /\ \A i \in 1 .. Len(history) : longer[i] = history[i]
  BY AppendProperties, LenProperties
<1>2. \A n \in Nat : \A i \in from .. n : i \in from .. n + 1 /\ (from > 0 => i \in 1 .. n)
  OBVIOUS
<1>3. \A n \in Nat : \A i \in from .. n : \A j \in i .. n :
        j \in i .. n + 1 /\ (from > 0 => j \in 1 .. n)
  OBVIOUS
<1> HIDE DEF longer
<1>4. ASSUME read.pc \in {"gauges", "create", "write"}
      PROVE  \E i \in from .. Len(longer) :
         /\ read.counters = IF "counters" \in read.lost THEN NoMap ELSE longer[i].counters
         /\ read.pc \in {"create", "write"} =>
              \E j \in i .. Len(longer) :
                read.gauges = IF "gauges" \in read.lost THEN NoMap ELSE longer[j].gauges
  <2>1. from > 0
    BY <1>4
  <2>2. PICK i \in from .. Len(history) :
         /\ read.counters = IF "counters" \in read.lost THEN NoMap ELSE history[i].counters
         /\ read.pc \in {"create", "write"} =>
              \E j \in i .. Len(history) :
                read.gauges = IF "gauges" \in read.lost THEN NoMap ELSE history[j].gauges
    BY <1>4 DEF IsCut
  <2>3. i \in from .. Len(longer) /\ longer[i] = history[i]
    BY <1>1, <1>2, <2>1
  <2>4. ASSUME read.pc \in {"create", "write"}
        PROVE  \E j \in i .. Len(longer) :
                 read.gauges = IF "gauges" \in read.lost THEN NoMap ELSE longer[j].gauges
    <3>1. PICK j \in i .. Len(history) :
            read.gauges = IF "gauges" \in read.lost THEN NoMap ELSE history[j].gauges
      BY <2>2, <2>4
    <3>2. j \in i .. Len(longer) /\ longer[j] = history[j]
      BY <1>1, <1>3, <2>1
    <3> QED
      BY <3>1, <3>2
  <2> QED
    BY <2>2, <2>3, <2>4
<1> QED
  BY <1>4 DEF IsCut, longer

\* A save that has not read anything is a cut of every log.
LEMMA FreshIsCut ==
  ASSUME NEW from, NEW history, NEW excuse
  PROVE  /\ IsCut(NoSave, from, history, excuse)
         /\ IsCut([NoSave EXCEPT !.pc = "counters"], from, history, excuse)
<1>1. NoSave = [NoSave EXCEPT !.pc = NoSave.pc]
  BY DEF NoSave
<1> DEFINE fresh == [NoSave EXCEPT !.pc = "counters"]
<1>2. fresh.pc = "counters" /\ fresh.lost = {} /\ fresh = [NoSave EXCEPT !.pc = fresh.pc]
  BY DEF NoSave
<1> HIDE DEF fresh
<1>3. IsCut(NoSave, from, history, excuse)
  BY <1>1, SaveFacts DEF IsCut
<1>4. IsCut(fresh, from, history, excuse)
  BY <1>2 DEF IsCut
<1> QED
  BY <1>3, <1>4 DEF fresh

\* Reading a map at its turn, or losing it.
LEMMA ReadIsCut ==
  ASSUME NEW read \in SaveStates, NEW history \in Seq(Contents), history # <<>>,
         NEW from \in Nat, from <= Len(history), NEW excuse,
         IsCut(read, from, history, excuse), read.pc \in Maps,
         NEW now, now = history[Len(history)],
         NEW next,
         \/ next = [read EXCEPT !.pc = "gauges", !.counters = now.counters] /\ read.pc = "counters"
         \/ next = [read EXCEPT !.pc = "create", !.gauges = now.gauges] /\ read.pc = "gauges"
         \/ next = [read EXCEPT !.pc = "gauges", !.lost = @ \cup {"counters"}]
               /\ read.pc = "counters" /\ excuse
         \/ next = [read EXCEPT !.pc = "create", !.lost = @ \cup {"gauges"}]
               /\ read.pc = "gauges" /\ excuse
  PROVE  IsCut(next, from, history, excuse)
<1> DEFINE n == Len(history)
<1>1. n \in Nat /\ n \in from .. n
  BY LenProperties
<1>2. \A i \in from .. n : n \in i .. n
  BY <1>1
<1>3. read.lost # {} => excuse
  BY DEF IsCut
<1>4. CASE read.pc = "counters"
  <2>1. read = [NoSave EXCEPT !.pc = "counters"]
    BY <1>4 DEF IsCut
  <2>2. read.counters = NoMap /\ read.gauges = NoMap /\ read.lost = {}
    BY <2>1 DEF NoSave
  <2>3. /\ next.pc = "gauges" /\ next.gauges = NoMap
        /\ \/ next.lost = {} /\ next.counters = now.counters
           \/ next.lost = {"counters"} /\ next.counters = NoMap /\ excuse
    BY <1>4, <2>2 DEF SaveStates
  <2> HIDE DEF n
  <2> QED
    BY <1>1, <2>3 DEF IsCut, n
<1>5. CASE read.pc = "gauges"
  <2>1. PICK i \in from .. n :
          read.counters = IF "counters" \in read.lost THEN NoMap ELSE history[i].counters
    BY <1>5 DEF IsCut
  <2>2. read.gauges = NoMap /\ "gauges" \notin read.lost
    BY <1>5 DEF IsCut
  <2>3. /\ next.pc = "create" /\ next.counters = read.counters
        /\ \/ next.lost = read.lost /\ next.gauges = now.gauges
           \/ next.lost = read.lost \cup {"gauges"} /\ next.gauges = NoMap /\ excuse
    BY <1>5, <2>2 DEF SaveStates
  <2>4. /\ next.counters = IF "counters" \in next.lost THEN NoMap ELSE history[i].counters
        /\ next.gauges = IF "gauges" \in next.lost THEN NoMap ELSE history[n].gauges
        /\ next.lost # {} => excuse
    BY <1>3, <2>1, <2>2, <2>3
  <2>5. i \in from .. n /\ n \in i .. n
    BY <1>2
  <2> HIDE DEF n
  <2> QED
    BY <2>3, <2>4, <2>5 DEF IsCut, n
<1> QED
  BY <1>4, <1>5 DEF Maps

LEMMA ExcuseStays ==
  ASSUME NEW read, NEW from, NEW history, NEW e1, NEW e2, e1 => e2,
         IsCut(read, from, history, e1)
  PROVE  IsCut(read, from, history, e2)
BY DEF IsCut

\* The save opens the file.
LEMMA OpenedIsCut ==
  ASSUME NEW read \in SaveStates, read.pc = "create", NEW from, NEW history, NEW excuse,
         IsCut(read, from, history, excuse)
  PROVE  IsCut([read EXCEPT !.pc = "write"], from, history, excuse)
<1> DEFINE next == [read EXCEPT !.pc = "write"]
<1>1. /\ next.pc = "write" /\ next.counters = read.counters /\ next.gauges = read.gauges
      /\ next.lost = read.lost
  BY DEF SaveStates
<1> HIDE DEF next
<1>2. IsCut(next, from, history, excuse)
  BY <1>1 DEF IsCut
<1> QED
  BY <1>2 DEF next

LEMMA CutStep ==
  ASSUME Inv, BackupNext, Types'
  PROVE  SavesAreCuts'
<1> USE DEF Inv, dbVars, loadVars, loopVars
<1>0. /\ Types /\ Phases
      /\ \A s \in Savers : IsCut(save[s], since[s], log, DatabaseFailed)
  BY DEF SavesAreCuts
<1>00. /\ failures \in Nat
       /\ SinceLogged
       /\ \A s \in Savers : /\ since[s] <= Len(log)
                            /\ save[s].pc # "idle" => since[s] > 0
                            /\ since[s] \in Nat /\ save[s] \in SaveStates
  <2>1. SinceLogged
    BY DEF Phases
  <2> QED
    BY <2>1 DEF SinceLogged, Types
\* Most steps leave the saves alone, or the log, and the excuse stays one.
<1>a. ASSUME UNCHANGED <<save, since, log>>, DatabaseFailed => DatabaseFailed' PROVE SavesAreCuts'
  <2>1. \A s \in Savers : IsCut(save[s], since[s], log, DatabaseFailed')
    BY <1>0, <1>a, ExcuseStays
  <2> QED
    BY <1>a, <2>1 DEF SavesAreCuts
<1>b. ASSUME UNCHANGED log, DatabaseFailed => DatabaseFailed', NEW s \in Savers,
             \A t \in Savers \ {s} : save'[t] = save[t] /\ since'[t] = since[t],
             IsCut(save'[s], since'[s], log, DatabaseFailed')
      PROVE  SavesAreCuts'
  <2> SUFFICES ASSUME NEW t \in Savers PROVE IsCut(save'[t], since'[t], log, DatabaseFailed')
    BY <1>b DEF SavesAreCuts
  <2>1. CASE t = s
    BY <1>b, <2>1
  <2>2. CASE t # s
    <3>1. IsCut(save[t], since[t], log, DatabaseFailed)
      BY <1>0
    <3>2. IsCut(save[t], since[t], log, DatabaseFailed')
      BY <1>b, <3>1, ExcuseStays
    <3> QED
      BY <1>b, <2>2, <3>2
  <2> QED
    BY <2>1, <2>2
<1>c. ASSUME NEW s \in Savers, SaveStep(s) PROVE DatabaseFailed => DatabaseFailed'
  BY <1>c, <1>00 DEF SaveStep, DatabaseFailed
<1>1. ASSUME NEW s \in Savers, ReadMap(s) PROVE SavesAreCuts'
  <2>1. SaveStep(s)
    BY <1>1, IsSaveStep
  <2>2. DatabaseFailed => DatabaseFailed'
    BY <1>c, <2>1
  <2> DEFINE read == save[s]
  <2>3. /\ read \in SaveStates /\ read.pc \in Maps /\ since[s] \in Nat /\ since[s] <= Len(log)
        /\ IsCut(read, since[s], log, DatabaseFailed')
    <3>1. IsCut(save[s], since[s], log, DatabaseFailed)
      BY <1>0
    <3>2. IsCut(save[s], since[s], log, DatabaseFailed')
      BY <2>2, <3>1, ExcuseStays
    <3> QED
      BY <1>00, <1>1, <3>2 DEF ReadMap
  <2>4. log \in Seq(Contents) /\ log # <<>> /\ Store = log[Len(log)]
    BY <2>1, <2>3, SaveFacts DEF Types, Phases, Running, Maps
  <2>5. \/ save'[s] = [read EXCEPT !.pc = "gauges", !.counters = Store.counters] /\ read.pc = "counters"
        \/ save'[s] = [read EXCEPT !.pc = "create", !.gauges = Store.gauges] /\ read.pc = "gauges"
        \/ save'[s] = [read EXCEPT !.pc = "gauges", !.lost = @ \cup {"counters"}]
              /\ read.pc = "counters" /\ DatabaseFailed'
        \/ save'[s] = [read EXCEPT !.pc = "create", !.lost = @ \cup {"gauges"}]
              /\ read.pc = "gauges" /\ DatabaseFailed'
    <3>1. save \in [Savers -> SaveStates]
      BY DEF Types
    <3>2. \/ save' = [save EXCEPT ![s].pc = "gauges", ![s].counters = Store.counters] /\ save[s].pc = "counters"
          \/ save' = [save EXCEPT ![s].pc = "create", ![s].gauges = Store.gauges] /\ save[s].pc = "gauges"
          \/ save' = [save EXCEPT ![s].pc = "gauges", ![s].lost = @ \cup {"counters"}]
                /\ save[s].pc = "counters" /\ DatabaseFailed'
          \/ save' = [save EXCEPT ![s].pc = "create", ![s].lost = @ \cup {"gauges"}]
                /\ save[s].pc = "gauges" /\ DatabaseFailed'
      <4> DEFINE map == save[s].pc
                 next == IF map = "counters" THEN "gauges" ELSE "create"
      <4>0. map \in {"counters", "gauges"}
        BY <1>1 DEF ReadMap, Maps
      <4>1. CASE save' = [save EXCEPT ![s].pc = next, ![s][map] = Store[map]]
        BY <4>0, <4>1
      <4>2. CASE /\ backend = "database" /\ (IF open THEN Fail ELSE UNCHANGED failures)
                 /\ save' = [save EXCEPT ![s].pc = next, ![s].lost = @ \cup {map}]
        <5>1. DatabaseFailed'
          BY <1>1, <1>00, <4>2 DEF ReadMap, DatabaseFailed, Fail
        <5> QED
          BY <4>0, <4>2, <5>1
      <4> QED
        BY <1>1, <4>1, <4>2 DEF ReadMap
    <3> QED
      BY <3>1, <3>2
  <2> HIDE DEF read
  <2>6. IsCut(save'[s], since[s], log, DatabaseFailed')
    BY <2>3, <2>4, <2>5, ReadIsCut
  <2> QED
    BY <1>b, <2>1, <2>2, <2>6 DEF SaveStep
<1>2. ASSUME NEW s \in Savers, Create(s) PROVE SavesAreCuts'
  <2>1. SaveStep(s)
    BY <1>2, IsSaveStep
  <2>2. DatabaseFailed => DatabaseFailed'
    BY <1>c, <2>1
  <2>3. /\ save[s] \in SaveStates /\ save[s].pc = "create"
        /\ IsCut(save[s], since[s], log, DatabaseFailed')
    <3>1. IsCut(save[s], since[s], log, DatabaseFailed)
      BY <1>0
    <3>2. IsCut(save[s], since[s], log, DatabaseFailed')
      BY <2>2, <3>1, ExcuseStays
    <3> QED
      BY <1>00, <1>2, <3>2 DEF Create
  <2>4. save'[s] = [save[s] EXCEPT !.pc = "write"] \/ save'[s] = NoSave
    BY <1>2 DEF Create, Types
  <2>5. IsCut(save'[s], since[s], log, DatabaseFailed')
    BY <2>3, <2>4, OpenedIsCut, FreshIsCut
  <2> QED
    BY <1>b, <2>1, <2>2, <2>5 DEF SaveStep
<1>3. ASSUME NEW s \in Savers, Encode(s) PROVE SavesAreCuts'
  <2>1. SaveStep(s)
    BY <1>3, IsSaveStep
  <2>2. DatabaseFailed => DatabaseFailed'
    BY <1>c, <2>1
  <2>3. save'[s] = NoSave
    BY <1>3 DEF Encode, Types
  <2>4. IsCut(save'[s], since[s], log, DatabaseFailed')
    BY <2>3, FreshIsCut
  <2> QED
    BY <1>b, <2>1, <2>2, <2>4 DEF SaveStep
<1>4. CASE Start
  <2>1. UNCHANGED <<save, since, log>> /\ \A s \in Savers : save[s] = NoSave
    BY <1>4 DEF Start, Phases, Running
  <2> QED
    BY <2>1, FreshIsCut DEF SavesAreCuts
<1>04. CASE OpenFile
  <2>1. UNCHANGED <<save, since, log>> /\ \A s \in Savers : save[s] = NoSave
    BY <1>04 DEF OpenFile, Phases, Running
  <2> QED
    BY <2>1, FreshIsCut DEF SavesAreCuts
<1>5. ASSUME NEW i \in todo, LoadItem(i[1], i[2]) PROVE SavesAreCuts'
  <2>1. UNCHANGED <<save, since, log, backend, open>> /\ (failures' = failures \/ failures' = failures + 1)
    BY <1>5 DEF LoadItem, Fail
  <2> QED
    BY <1>a, <1>00, <2>1 DEF DatabaseFailed
<1>6. CASE NewStorage
  <2>1. \A s \in Savers : save[s] = NoSave
    BY <1>6 DEF NewStorage, Phases, Running
  <2>2. \A s \in Savers : save'[s] = NoSave \/ save'[s] = [NoSave EXCEPT !.pc = "counters"]
    BY <1>6, <2>1 DEF NewStorage, StartSave, Types
  <2> QED
    BY <2>2, FreshIsCut DEF SavesAreCuts
<1>7. CASE Listen
  BY <1>7, <1>a DEF Listen, DatabaseFailed
<1>8. ASSUME NEW ms \in Writes, Write(ms) PROVE SavesAreCuts'
  <2>1. PICK contents \in Contents : log' = Append(log, contents)
    BY <1>8, BackupAssumption, StoreType, FoldType DEF Write
  <2>2. UNCHANGED <<save, since>> /\ (DatabaseFailed' <=> DatabaseFailed) /\ log \in Seq(Contents)
    BY <1>8 DEF Write, DatabaseFailed, Types
  <2>3. \A s \in Savers : IsCut(save[s], since[s], Append(log, contents), DatabaseFailed)
    <3> SUFFICES ASSUME NEW s \in Savers
                 PROVE  IsCut(save[s], since[s], Append(log, contents), DatabaseFailed)
      OBVIOUS
    <3>1. /\ since[s] \in Nat /\ (save[s].pc # "idle" => since[s] > 0)
          /\ IsCut(save[s], since[s], log, DatabaseFailed)
      BY <1>0, <1>00
    <3> QED
      BY <2>2, <3>1, CutStays
  <2>4. \A s \in Savers : IsCut(save[s], since[s], Append(log, contents), DatabaseFailed')
    BY <2>2, <2>3, ExcuseStays
  <2> QED
    BY <2>1, <2>2, <2>4 DEF SavesAreCuts
<1>9. ASSUME NEW s \in Savers, NEW n \in Nat, StartSave(s, n), save[s] = NoSave,
             UNCHANGED <<log, backend, open, failures>>
      PROVE  SavesAreCuts'
  <2>1. /\ \A t \in Savers \ {s} : save'[t] = save[t] /\ since'[t] = since[t]
        /\ save'[s] = NoSave \/ save'[s] = [NoSave EXCEPT !.pc = "counters"]
    BY <1>9, Starting
  <2>2. IsCut(save'[s], since'[s], log, DatabaseFailed')
    BY <2>1, FreshIsCut
  <2>3. DatabaseFailed => DatabaseFailed'
    BY <1>9 DEF DatabaseFailed
  <2> QED
    BY <1>9, <1>b, <2>1, <2>2, <2>3
<1>10. CASE Tick
  BY <1>9, <1>10, LenProperties DEF Tick, Savers, Types
<1>11. CASE BackupEnds
  BY <1>11, <1>a DEF BackupEnds, DatabaseFailed
<1>12. CASE Close
  BY <1>9, <1>12, LenProperties DEF Close, Savers, Types, Phases
<1>13. CASE Closed
  BY <1>13, <1>a DEF Closed, DatabaseFailed
<1>14. CASE Gone
  <2>1. \A s \in Savers : save'[s] = NoSave
    BY <1>14 DEF Gone
  <2> QED
    BY <2>1, FreshIsCut DEF SavesAreCuts
<1>15. CASE Over
  BY <1>15, <1>a DEF Over, backupVars, DatabaseFailed
<1> QED
  BY <1>1, <1>2, <1>04, <1>3, <1>4, <1>5, <1>6, <1>7, <1>8, <1>10, <1>11, <1>12, <1>13, <1>14, <1>15
     DEF BackupNext, Exit, Crash
-----------------------------------------------------------------------------
(***************************************************************************)
(* LoadData.                                                               *)
(***************************************************************************)
\* What the store becomes when an item is loaded that LoadData sees as seen.
LoadedItem(map, n, seen) ==
  LET m == ToStore(map, n, seen) IN IF m.delta = 0 THEN Store ELSE Write1(Store, m)

\* Unless the database refuses it, an item is in the store as in the file.
LEMMA ItemIsBack ==
  ASSUME Types, NEW map \in Maps, NEW n \in Names, <<map, n>> \in ItemsOf(file),
         Fits(Store, ToStore(map, n, Store[map][n]))
  PROVE  Back(file, LoadedItem(map, n, Store[map][n]), <<map, n>>)
<1> DEFINE seen == Store[map][n]
           m == ToStore(map, n, seen)
<1>1. /\ file.data \in Contents /\ Store \in Contents
      /\ map = "counters" => file.data.counters[n] # Nil
      /\ map = "gauges" => file.data.gauges[n] # Nil
  BY FileFacts, StoreType DEF Types, ItemsOf, Maps
<1>2. CASE map = "gauges"
  <2>1. /\ m.mtype = "gauge" /\ m.delta = Nil /\ m.id = n
        /\ m.value = file.data.gauges[n] /\ m.value # Nil
    BY <1>1, <1>2 DEF ToStore
  <2>2. Nil # 0
    BY MetricsAssumption
  <2>3. Put(Store, m) = [Store EXCEPT !.gauges[n] = file.data.gauges[n]]
    <3> HIDE DEF m
    <3> QED
      BY <2>1 DEF Put
  <2>4. Put(Store, m).gauges[n] = file.data.gauges[n]
    BY <1>1, <2>3 DEF Contents
  <2>5. LoadedItem(map, n, seen) = Put(Store, m)
    BY <2>1, <2>2 DEF LoadedItem, Write1
  <2> QED
    BY <1>2, <2>4, <2>5 DEF Back
<1>3. CASE map = "counters"
  <2> DEFINE want == file.data.counters[n]
  <2>1. want \in Int64 /\ seen \in Int64 \cup {Nil}
    BY <1>1, <1>3 DEF Contents
  <2>2. m.mtype = "counter" /\ m.delta = MissingTo(seen, want) /\ m.id = n
    BY <1>3 DEF ToStore
  <2>3. /\ MissingTo(seen, want) \in Int64
        /\ Wrap(OrZero(seen) + MissingTo(seen, want)) = want
        /\ MissingTo(seen, want) = 0 => OrZero(seen) = want
    <3> HIDE DEF want, seen
    <3>1. CASE seen = Nil
      <4>1. MissingTo(seen, want) = want /\ OrZero(seen) = 0
        BY <3>1 DEF MissingTo, OrZero
      <4>2. want \in Int
        BY <2>1, MetricsAssumption DEF Int64
      <4>3. Wrap(want) = want /\ 0 + want = want
        BY <2>1, <4>2, WrapFacts
      <4> QED
        BY <2>1, <4>1, <4>3
    <3>2. CASE seen # Nil
      <4>1. MissingTo(seen, want) = Wrap(want - seen) /\ OrZero(seen) = seen
        BY <3>2 DEF MissingTo, OrZero
      <4> QED
        BY <2>1, <3>2, <4>1, MissingFacts
    <3> QED
      BY <3>1, <3>2
  <2>4. CASE m.delta = 0
    BY <1>3, <2>2, <2>3, <2>4 DEF LoadedItem, Back
  <2>5. CASE m.delta # 0
    <3>1. m.delta # Nil
      BY <2>2, <2>3, StoreTypes
    <3>2. Put(Store, m) = [Store EXCEPT !.counters[n] = Wrap(OrZero(@) + m.delta)]
      <4> HIDE DEF m
      <4> QED
        BY <2>2, <3>1 DEF Put
    <3>3. Put(Store, m).counters[n] = want
      BY <1>1, <1>3, <2>2, <2>3, <3>2 DEF Contents
    <3>4. LoadedItem(map, n, seen) = Put(Store, m)
      BY <2>5 DEF LoadedItem, Write1
    <3>5. OrZero(want) = want
      BY <1>1, <1>3 DEF OrZero
    <3> QED
      BY <1>3, <3>3, <3>4, <3>5 DEF Back
  <2> QED
    BY <2>4, <2>5
<1> QED
  BY <1>2, <1>3 DEF Maps

\* Loading an item leaves every other one alone.
LEMMA OthersStay ==
  ASSUME Types, NEW map \in Maps, NEW n \in Names, <<map, n>> \in ItemsOf(file), NEW seen,
         NEW i \in ItemsOf(file), i # <<map, n>>, Back(file, Store, i)
  PROVE  Back(file, LoadedItem(map, n, seen), i)
<1> DEFINE m == ToStore(map, n, seen)
<1>1. /\ Store \in Contents /\ i[1] \in Maps /\ i[2] \in Names /\ i = <<i[1], i[2]>>
      /\ i[1] # map \/ i[2] # n
  BY StoreType DEF ItemsOf
<1>2. /\ m.id = n
      /\ map = "gauges" => m.mtype = "gauge"
      /\ map = "counters" => m.mtype = "counter"
  BY DEF ToStore, Maps
<1>3. /\ i[1] = "counters" => Put(Store, m).counters[i[2]] = Store.counters[i[2]]
      /\ i[1] = "gauges" => Put(Store, m).gauges[i[2]] = Store.gauges[i[2]]
  <2> HIDE DEF m
  <2>1. CASE map = "counters" /\ m.delta # Nil
    <3>1. Put(Store, m) = [Store EXCEPT !.counters[n] = Wrap(OrZero(@) + m.delta)]
      BY <1>2, <2>1 DEF Put
    <3> QED
      BY <1>1, <2>1, <3>1 DEF Contents
  <2>2. CASE map = "gauges" /\ m.value # Nil
    <3>1. Put(Store, m) = [Store EXCEPT !.gauges[n] = m.value]
      BY <1>2, <2>2 DEF Put
    <3> QED
      BY <1>1, <2>2, <3>1 DEF Contents
  <2>3. CASE ~(map = "counters" /\ m.delta # Nil) /\ ~(map = "gauges" /\ m.value # Nil)
    BY <1>2, <2>3 DEF Put, Maps
  <2> QED
    BY <2>1, <2>2, <2>3
<1>4. LoadedItem(map, n, seen) \in {Store, Put(Store, m)}
  BY DEF LoadedItem, Write1
<1> HIDE DEF m
<1> QED
  BY <1>1, <1>3, <1>4 DEF Back, Maps

\* What a step of LoadData does.
LEMMA LoadItemFacts ==
  ASSUME Types, NEW map \in Maps, NEW n \in Names, LoadItem(map, n)
  PROVE  /\ process = "loading" /\ <<map, n>> \in todo
         /\ todo' = todo \ {<<map, n>>}
         /\ UNCHANGED <<cfg, process, backend, file, before, unread>>
         /\ unlucky' \in {unlucky, unlucky \cup {<<map, n>>}}
         /\ \E contents \in {LoadedItem(map, n, Nil), LoadedItem(map, n, Store[map][n]), Store} :
              /\ Store' = contents
              /\ \/ unlucky' = unlucky \cup {<<map, n>>}
                 \/ /\ contents = LoadedItem(map, n, Store[map][n])
                    /\ Fits(Store, ToStore(map, n, Store[map][n]))
<1>1. UNCHANGED <<cfg, process, backend, file, before, unread>>
  BY DEF LoadItem, dbVars
<1>2. \A contents : SetStore(contents) => Store' = contents
  BY <1>1 DEF SetStore, Store
<1>3. \/ /\ SetStore(LoadedItem(map, n, Store[map][n]))
         /\ unlucky' = IF ~Fits(Store, ToStore(map, n, Store[map][n]))
                       THEN unlucky \cup {<<map, n>>} ELSE unlucky
      \/ /\ \E contents \in {LoadedItem(map, n, Nil), LoadedItem(map, n, Store[map][n]), Store} :
              SetStore(contents)
         /\ unlucky' = unlucky \cup {<<map, n>>}
  BY DEF LoadItem, LoadedItem
<1>4. \E contents \in {LoadedItem(map, n, Nil), LoadedItem(map, n, Store[map][n]), Store} :
         /\ SetStore(contents)
         /\ \/ unlucky' = unlucky \cup {<<map, n>>}
            \/ /\ contents = LoadedItem(map, n, Store[map][n])
               /\ Fits(Store, ToStore(map, n, Store[map][n]))
  BY <1>3
<1>5. \E contents \in {LoadedItem(map, n, Nil), LoadedItem(map, n, Store[map][n]), Store} :
         /\ Store' = contents
         /\ \/ unlucky' = unlucky \cup {<<map, n>>}
            \/ /\ contents = LoadedItem(map, n, Store[map][n])
               /\ Fits(Store, ToStore(map, n, Store[map][n]))
  BY <1>2, <1>4
<1>6. unlucky' \in {unlucky, unlucky \cup {<<map, n>>}}
  BY <1>3
<1>7. process = "loading" /\ <<map, n>> \in todo /\ todo' = todo \ {<<map, n>>}
  BY DEF LoadItem
<1> QED
  BY <1>1, <1>5, <1>6, <1>7

LEMMA LoadStep ==
  ASSUME Inv, BackupNext
  PROVE  LoadInv'
<1> USE DEF Inv, dbVars, loadVars, loopVars
<1>0. Types /\ Phases /\ LoadInv
  OBVIOUS
\* Everything but LoadData leaves the store alone until the server listens.
<1>a. ASSUME UNCHANGED <<cfg, process, backend, mem, rows, todo, unlucky, before, unread>>,
             process \in {"opening", "loading"} => file' = file
      PROVE  LoadInv'
  <2>1. Store' = Store
    BY <1>a DEF Store
  <2>2. CASE process = "loading"
    <3>1. /\ before' = file' /\ process' # "saving"
          /\ todo' \cup unlucky' \subseteq ItemsOf(file')
      BY <1>a, <2>2 DEF LoadInv
    <3>2. Restores' =>
            \A i \in ItemsOf(file') \ (todo' \cup unlucky') : Back(file', Store', i)
      BY <1>a, <2>1, <2>2 DEF LoadInv, Restores
    <3> QED
      BY <3>1, <3>2 DEF LoadInv
  <2>3. CASE process # "loading"
    BY <1>a, <2>1, <2>3 DEF LoadInv, Restores
  <2> QED
    BY <2>2, <2>3
<1>b. ASSUME process' \notin {"opening", "loading", "saving"} PROVE LoadInv'
  BY <1>b DEF LoadInv
<1>1. ASSUME NEW s \in Savers, ReadMap(s) \/ Create(s) \/ Encode(s) PROVE LoadInv'
  <2>1. SaveStep(s)
    BY <1>1, IsSaveStep
  <2>2. process \notin {"opening", "loading"}
    BY <2>1, SaveFacts DEF Phases, Running, SaveStep
  <2> QED
    BY <1>a, <2>1, <2>2 DEF SaveStep
<1>2. CASE Start
  BY <1>2 DEF Start, LoadInv
<1>02. CASE OpenFile
  <2>1. /\ process = "opening" /\ process' = "loading" /\ UNCHANGED <<before, file, cfg>>
        /\ unlucky' = {}
        /\ \/ todo' = (IF cfg.restore /\ cfg.path THEN ItemsOf(file) ELSE {}) /\ unread' = FALSE
           \/ todo' = {} /\ unread' = TRUE
    BY <1>02 DEF OpenFile, DatabaseInv
  <2>2. /\ before' = file'
        /\ todo' \cup unlucky' \subseteq ItemsOf(file')
        /\ Restores' => ItemsOf(file') \ (todo' \cup unlucky') = {}
    BY <2>1 DEF LoadInv, Restores
  <2> QED
    BY <2>1, <2>2 DEF LoadInv
<1>3. ASSUME NEW i \in todo, LoadItem(i[1], i[2]) PROVE LoadInv'
  <2> DEFINE map == i[1]
             n == i[2]
  <2>1. i \in ItemsOf(file) /\ map \in Maps /\ n \in Names /\ i = <<map, n>>
    BY <1>3 DEF LoadItem, LoadInv, ItemsOf
  <2> HIDE DEF map, n
  <2>2. LoadItem(map, n)
    BY <1>3 DEF map, n
  <2>3. /\ process = "loading" /\ todo' = todo \ {i}
        /\ UNCHANGED <<cfg, process, backend, file, before, unread>>
        /\ unlucky' \in {unlucky, unlucky \cup {i}}
    BY <2>1, <2>2, LoadItemFacts
  <2>4. PICK contents \in {LoadedItem(map, n, Nil), LoadedItem(map, n, Store[map][n]), Store} :
              /\ Store' = contents
              /\ \/ unlucky' = unlucky \cup {i}
                 \/ /\ contents = LoadedItem(map, n, Store[map][n])
                    /\ Fits(Store, ToStore(map, n, Store[map][n]))
    BY <2>1, <2>2, LoadItemFacts
  <2>5. /\ before = file /\ todo \cup unlucky \subseteq ItemsOf(file)
        /\ Restores => \A j \in ItemsOf(file) \ (todo \cup unlucky) : Back(file, Store, j)
    BY <2>3 DEF LoadInv
  <2>6. ASSUME Restores, NEW j \in ItemsOf(file) \ (todo' \cup unlucky')
        PROVE  Back(file, contents, j)
    <3>1. CASE j = i
      <4>1. contents = LoadedItem(map, n, Store[map][n]) /\ Fits(Store, ToStore(map, n, Store[map][n]))
        BY <2>4, <2>6, <3>1
      <4> QED
        BY <1>0, <2>1, <3>1, <4>1, ItemIsBack
    <3>2. CASE j # i
      <4>1. Back(file, Store, j)
        BY <2>3, <2>5, <2>6, <3>2
      <4>2. \A seen : Back(file, LoadedItem(map, n, seen), j)
        BY <1>0, <2>1, <3>2, <4>1, OthersStay
      <4> QED
        BY <2>4, <4>1, <4>2
    <3> QED
      BY <3>1, <3>2
  <2>7. /\ before' = file' /\ process' = "loading" /\ todo' \cup unlucky' \subseteq ItemsOf(file')
    BY <2>1, <2>3, <2>5
  <2>8. Restores' =>
          \A j \in ItemsOf(file') \ (todo' \cup unlucky') : Back(file', Store', j)
    BY <2>3, <2>4, <2>6 DEF Restores
  <2> QED
    BY <2>7, <2>8 DEF LoadInv
<1>4. CASE NewStorage
  <2>1. /\ process = "loading" /\ todo = {} /\ process' \in {"up", "saving"}
        /\ UNCHANGED <<cfg, before, unread, file, unlucky, todo>> /\ Store' = Store
    BY <1>4 DEF NewStorage, LoadDone, Store
  <2>2. Restores => \A i \in ItemsOf(before) \ unlucky : Back(before, Store, i)
    BY <2>1 DEF LoadInv
  <2>3. Restores' => \A i \in ItemsOf(before') \ unlucky' : Back(before', Store', i)
    BY <2>1, <2>2 DEF Restores
  <2> QED
    BY <2>1, <2>3 DEF LoadInv
<1>5. CASE Listen
  BY <1>5, <1>b DEF Listen
<1>6. ASSUME NEW ms \in Writes, Write(ms) PROVE LoadInv'
  BY <1>6, <1>b DEF Write
<1>7. CASE Tick
  BY <1>7, <1>a DEF Tick
<1>8. CASE BackupEnds
  BY <1>8, <1>a DEF BackupEnds
<1>9. CASE Close
  BY <1>9, <1>b DEF Close
<1>10. CASE Closed
  BY <1>10, <1>b DEF Closed
<1>11. CASE Gone
  BY <1>11, <1>b DEF Gone
<1>12. CASE Over
  BY <1>12, <1>a DEF Over, backupVars
<1> QED
  BY <1>1, <1>2, <1>02, <1>3, <1>4, <1>5, <1>6, <1>7, <1>8, <1>9, <1>10, <1>11, <1>12
     DEF BackupNext, Exit, Crash
-----------------------------------------------------------------------------
(***************************************************************************)
(* The save at the start, and why a file may be unusable.                  *)
(***************************************************************************)
LEMMA StartStep ==
  ASSUME Inv, BackupNext, Phases'
  PROVE  StartInv'
<1> USE DEF Inv, dbVars, loadVars, loopVars
<1>0. Types /\ Phases /\ StartInv /\ "start" \in Savers
  BY DEF Savers
\* Outside "saving" no such save is under way.
<1>a. ASSUME process' # "saving" PROVE StartInv'
  <2>1. save'["start"].pc = "idle"
    BY <1>a, SaveFacts DEF Phases
  <2> QED
    BY <2>1 DEF StartInv
<1>1. ASSUME NEW s \in Savers, ReadMap(s) \/ Create(s) \/ Encode(s), process' = "saving"
      PROVE  StartInv'
  <2>1. SaveStep(s)
    BY <1>1, IsSaveStep
  <2>2. s = "start" /\ Store' = Store
    <3>1. process = "saving" /\ s # "ticker" /\ s # "final"
      BY <1>1, <2>1, SaveFacts DEF Phases, SaveStep
    <3> QED
      BY <2>1, <3>1 DEF Savers, SaveStep, Store
  <2>3. save["start"] \in SaveStates /\ save \in [Savers -> SaveStates]
    BY <1>0 DEF Types
  <2>4. CASE ReadMap(s)
    <3> DEFINE map == save["start"].pc
               next == IF map = "counters" THEN "gauges" ELSE "create"
    <3>1. map \in {"counters", "gauges"}
      BY <2>2, <2>4 DEF ReadMap, Maps
    <3>2. \/ save' = [save EXCEPT !["start"].pc = next, !["start"][map] = Store[map]]
          \/ save' = [save EXCEPT !["start"].pc = next, !["start"].lost = @ \cup {map}]
      BY <2>2, <2>4 DEF ReadMap
    <3>3. \/ save'["start"] = [save["start"] EXCEPT !.pc = next, ![map] = Store[map]]
          \/ save'["start"] = [save["start"] EXCEPT !.pc = next, !.lost = @ \cup {map}]
      BY <1>0, <2>3, <3>2
    <3>4. CASE map = "counters"
      <4>1. save'["start"].pc = "gauges"
        BY <2>3, <3>3, <3>4 DEF SaveStates
      <4>2. save'["start"].lost = {} => save'["start"].counters = Store.counters
        <5>1. CASE save'["start"] = [save["start"] EXCEPT !.pc = "gauges", !.counters = Store.counters]
          BY <2>3, <5>1 DEF SaveStates
        <5>2. CASE save'["start"] = [save["start"] EXCEPT !.pc = "gauges", !.lost = @ \cup {"counters"}]
          <6>1. "counters" \in save'["start"].lost
            BY <2>3, <5>2 DEF SaveStates
          <6> QED
            BY <6>1
        <5> QED
          BY <3>3, <3>4, <5>1, <5>2
      <4> QED
        BY <2>2, <4>1, <4>2 DEF StartInv
    <3>5. CASE map = "gauges"
      <4>1. save'["start"].pc = "create" /\ save'["start"].counters = save["start"].counters
        BY <2>3, <3>3, <3>5 DEF SaveStates
      <4>2. save'["start"].lost = {} => save["start"].lost = {} /\ save'["start"].gauges = Store.gauges
        <5>1. CASE save'["start"] = [save["start"] EXCEPT !.pc = "create", !.gauges = Store.gauges]
          BY <2>3, <5>1 DEF SaveStates
        <5>2. CASE save'["start"] = [save["start"] EXCEPT !.pc = "create", !.lost = @ \cup {"gauges"}]
          <6>1. "gauges" \in save'["start"].lost
            BY <2>3, <5>2 DEF SaveStates
          <6> QED
            BY <6>1
        <5> QED
          BY <3>3, <3>5, <5>1, <5>2
      <4>3. save["start"].lost = {} => save["start"].counters = Store.counters
        BY <3>5 DEF StartInv
      <4> QED
        BY <2>2, <4>1, <4>2, <4>3 DEF StartInv
    <3> QED
      BY <3>1, <3>4, <3>5
  <2>5. CASE Create(s)
    <3>1. CASE save'["start"] = [save["start"] EXCEPT !.pc = "write"] /\ file' = Broken
      <4>1. /\ save'["start"].counters = save["start"].counters
            /\ save'["start"].gauges = save["start"].gauges
            /\ save'["start"].lost = save["start"].lost
        BY <2>3, <3>1 DEF SaveStates
      <4>2. save["start"].pc = "create"
        BY <2>2, <2>5 DEF Create
      <4>3. save["start"].lost = {} => /\ save["start"].counters = Store.counters
                                       /\ save["start"].gauges = Store.gauges
        BY <4>2 DEF StartInv
      <4> QED
        BY <2>2, <3>1, <4>1, <4>3 DEF StartInv
    <3>2. CASE save'["start"] = NoSave
      BY <3>2, SaveFacts DEF StartInv
    <3> QED
      BY <2>2, <2>3, <2>5, <3>1, <3>2 DEF Create
  <2>6. CASE Encode(s)
    <3>1. save'["start"] = NoSave
      BY <2>2, <2>3, <2>6 DEF Encode
    <3> QED
      BY <3>1, SaveFacts DEF StartInv
  <2> QED
    BY <1>1, <2>4, <2>5, <2>6
<1>2. CASE Start
  BY <1>2, <1>a DEF Start
<1>02. CASE OpenFile
  BY <1>02, <1>a DEF OpenFile
<1>3. ASSUME NEW i \in todo, LoadItem(i[1], i[2]) PROVE StartInv'
  BY <1>3, <1>a DEF LoadItem
<1>4. CASE NewStorage
  <2>1. save["start"] = NoSave
    BY <1>4 DEF NewStorage, Phases, Running, Savers
  <2>2. save'["start"].pc \in {"idle", "counters"}
    <3>1. CASE UNCHANGED save
      BY <2>1, <3>1, SaveFacts
    <3>2. CASE StartSave("start", 1)
      <4>1. save'["start"] = [NoSave EXCEPT !.pc = "counters"] \/ save'["start"] = NoSave
        BY <1>0, <2>1, <3>2, Starting
      <4> QED
        BY <4>1, SaveFacts DEF NoSave
    <3> QED
      BY <1>4, <3>1, <3>2 DEF NewStorage
  <2> QED
    BY <2>2 DEF StartInv
<1>5. CASE Listen
  BY <1>5, <1>a DEF Listen
<1>6. ASSUME NEW ms \in Writes, Write(ms) PROVE StartInv'
  BY <1>6, <1>a DEF Write
<1>7. CASE Tick
  BY <1>7, <1>a DEF Tick, Phases
<1>8. CASE BackupEnds
  BY <1>8, <1>a DEF BackupEnds, Phases
<1>9. CASE Close
  BY <1>9, <1>a DEF Close
<1>10. CASE Closed
  BY <1>10, <1>a DEF Closed
<1>11. CASE Gone
  BY <1>11, <1>a DEF Gone
<1>12. CASE Over
  BY <1>12 DEF Over, backupVars, StartInv, Store
<1>13. ASSUME NEW s \in Savers, ReadMap(s) \/ Create(s) \/ Encode(s) PROVE StartInv'
  BY <1>1, <1>13, <1>a
<1> QED
  BY <1>13, <1>2, <1>02, <1>3, <1>4, <1>5, <1>6, <1>7, <1>8, <1>9, <1>10, <1>11, <1>12
     DEF BackupNext, Exit, Crash

LEMMA CauseStep ==
  ASSUME Inv, BackupNext
  PROVE  BrokenHasCause'
<1> USE DEF Inv, dbVars, loadVars, loopVars
<1>0. Types /\ Phases /\ BrokenHasCause
  OBVIOUS
\* As long as no save that writes comes to an end.
<1>a. ASSUME UNCHANGED <<file, causes>>,
             \A s \in Savers : save[s].pc = "write" => save'[s].pc = "write"
      PROVE  BrokenHasCause'
  BY <1>a DEF BrokenHasCause
<1>1. ASSUME NEW s \in Savers, ReadMap(s) PROVE BrokenHasCause'
  <2>1. SaveStep(s) /\ save[s].pc # "write" /\ UNCHANGED <<file, causes>>
    BY <1>1, IsSaveStep DEF ReadMap, Maps
  <2>2. \A t \in Savers : save[t].pc = "write" => save'[t].pc = "write"
    BY <2>1 DEF SaveStep
  <2> QED
    BY <1>a, <2>1, <2>2
<1>2. ASSUME NEW s \in Savers, Create(s) PROVE BrokenHasCause'
  <2>1. SaveStep(s) /\ save[s].pc # "write" /\ UNCHANGED causes
    BY <1>2, IsSaveStep DEF Create
  <2>2. \A t \in Savers : save[t].pc = "write" => save'[t].pc = "write"
    BY <2>1 DEF SaveStep
  <2>3. UNCHANGED file \/ save' = [save EXCEPT ![s].pc = "write"]
    BY <1>2 DEF Create
  <2>4. CASE UNCHANGED file
    BY <1>a, <2>1, <2>2, <2>4
  <2>5. CASE save' = [save EXCEPT ![s].pc = "write"]
    <3>1. save'[s].pc = "write"
      BY <2>5 DEF Types, SaveStates
    <3> QED
      BY <3>1 DEF BrokenHasCause
  <2> QED
    BY <2>3, <2>4, <2>5
<1>3. ASSUME NEW s \in Savers, Encode(s) PROVE BrokenHasCause'
  <2>1. file' = Saved(Snapshot(s)) \/ causes' = causes \cup {"gauge"} \/ causes' = causes \cup {"disk"}
    BY <1>3 DEF Encode
  <2> QED
    BY <2>1 DEF BrokenHasCause, Saved
<1>4. CASE Start
  BY <1>4, <1>a DEF Start
<1>04. CASE OpenFile
  BY <1>04, <1>a DEF OpenFile
<1>5. ASSUME NEW i \in todo, LoadItem(i[1], i[2]) PROVE BrokenHasCause'
  BY <1>5, <1>a DEF LoadItem
<1>b. ASSUME NEW s \in Savers, NEW n \in Nat, StartSave(s, n), save[s] = NoSave,
             UNCHANGED <<file, causes>>
      PROVE  BrokenHasCause'
  <2>1. \A t \in Savers : save[t].pc = "write" => save'[t].pc = "write"
    BY <1>b, Starting, SaveFacts
  <2> QED
    BY <1>a, <1>b, <2>1
<1>6. CASE NewStorage
  <2>1. CASE UNCHANGED save
    BY <1>6, <1>a, <2>1 DEF NewStorage
  <2>2. CASE StartSave("start", 1)
    BY <1>6, <1>b, <2>2 DEF NewStorage, Savers, Phases, Running
  <2> QED
    BY <1>6, <2>1, <2>2 DEF NewStorage
<1>7. CASE Listen
  BY <1>7, <1>a DEF Listen
<1>8. ASSUME NEW ms \in Writes, Write(ms) PROVE BrokenHasCause'
  BY <1>8, <1>a DEF Write
<1>9. CASE Tick
  BY <1>9, <1>b, LenProperties DEF Tick, Savers, Types
<1>10. CASE BackupEnds
  BY <1>10, <1>a DEF BackupEnds
<1>11. CASE Close
  BY <1>11, <1>b, LenProperties DEF Close, Savers, Types, Phases
<1>12. CASE Closed
  BY <1>12, <1>a DEF Closed
<1>13. CASE Gone
  <2>1. CASE \E s \in Savers : save[s].pc = "write"
    BY <1>13, <2>1 DEF Gone, BrokenHasCause
  <2>2. CASE ~ \E s \in Savers : save[s].pc = "write"
    BY <1>13, <2>2 DEF Gone, BrokenHasCause
  <2> QED
    BY <2>1, <2>2
<1>14. CASE Over
  BY <1>14, <1>a DEF Over, backupVars
<1> QED
  BY <1>1, <1>2, <1>04, <1>3, <1>4, <1>5, <1>6, <1>7, <1>8, <1>9, <1>10, <1>11, <1>12, <1>13, <1>14
     DEF BackupNext, Exit, Crash
-----------------------------------------------------------------------------
(***************************************************************************)
(* The theorems.                                                           *)
(***************************************************************************)
LEMMA InvStutters == Inv /\ UNCHANGED backupVars => Inv'
<1> SUFFICES ASSUME Inv, UNCHANGED backupVars PROVE Inv'
  OBVIOUS
<1> USE DEF dbVars, loadVars, loopVars, backupVars
<1>1. Types' /\ Phases' /\ DatabaseInv'
  BY DEF Inv, Types, Phases, Running, Store, SinceLogged, DatabaseInv, DatabaseIsReady
<1>2. SavesAreCuts'
  BY DEF Inv, SavesAreCuts, DatabaseFailed
<1>3. LoadInv' /\ StartInv' /\ BrokenHasCause'
  <2>1. LoadInv'
    BY DEF Inv, LoadInv, Store, Restores
  <2>2. StartInv' /\ BrokenHasCause'
    BY DEF Inv, StartInv, BrokenHasCause, Store
  <2> QED
    BY <2>1, <2>2
<1> QED
  BY <1>1, <1>2, <1>3 DEF Inv

LEMMA InitInv == BackupInit => Inv
<1> SUFFICES ASSUME BackupInit PROVE Inv
  OBVIOUS
<1>1. Types
  BY InitTypes
<1>2. Phases /\ DatabaseInv
  <2>1. Len(<<>>) = 0
    OBVIOUS
  <2> QED
    BY <2>1, SaveFacts DEF BackupInit, Phases, Running, SinceLogged, DatabaseInv, DatabaseIsReady, Savers
<1>3. SavesAreCuts
  BY FreshIsCut DEF BackupInit, SavesAreCuts
<1>4. LoadInv /\ StartInv /\ BrokenHasCause
  BY SaveFacts DEF BackupInit, LoadInv, StartInv, BrokenHasCause, Savers, Missing
<1> QED
  BY <1>1, <1>2, <1>3, <1>4 DEF Inv

\* The inductive invariant holds in every reachable state.
LEMMA BackupCorrect == BackupSpec => []Inv
<1>1. Inv /\ [BackupNext]_backupVars => Inv'
  <2>1. ASSUME Inv, BackupNext PROVE Inv'
    <3>1. Types'
      BY <2>1, TypesStep
    <3>2. Phases'
      BY <2>1, <3>1, PhasesStep
    <3>3. DatabaseInv' /\ SavesAreCuts' /\ LoadInv' /\ StartInv' /\ BrokenHasCause'
      BY <2>1, <3>1, <3>2, DatabaseStep, CutStep, LoadStep, StartStep, CauseStep
    <3> QED
      BY <3>1, <3>2, <3>3 DEF Inv
  <2> QED
    BY <2>1, InvStutters
<1> QED
  BY <1>1, InitInv, PTL DEF BackupSpec

\* The parts of the server's storage fit together, through every start, failed
\* connection, save and crash (internal/storage/storage.go, internal/postgres).
THEOREM StorageCorrect == BackupSpec => []BackupInv
<1>1. Inv => BackupInv
  <2> SUFFICES ASSUME Inv PROVE BackupInv
    OBVIOUS
  <2>1. file \in Files /\ mem \in Contents /\ rows \in Contents /\ DatabaseIsReady
    BY DEF Inv, Types, DatabaseInv
  <2>2. \A s \in Savers : /\ save[s] \in SaveStates
                          /\ Snapshot(s) \in Contents
    BY DEF Inv, Types, SaveStates, Snapshot, Contents
  <2>3. \A s \in Savers : since[s] \in 0 .. Len(log)
    <3>1. SinceLogged /\ Len(log) \in Nat
      BY LenProperties DEF Inv, Phases, Types
    <3> QED
      BY <3>1 DEF SinceLogged, Inv, Types
  <2>4. todo \cup unlucky \subseteq ItemsOf(file) \/ process \notin {"loading"}
    BY DEF Inv, LoadInv
  <2>5. process = "down" => log = <<>> /\ ~done /\ ~ticking
    BY DEF Inv, Phases, Running
  <2>6. process \notin {"down", "opening", "loading"} => log # <<>> /\ log[Len(log)] = Store
    BY DEF Inv, Phases, Running
  <2>7. /\ process \in {"down", "opening", "loading", "saving", "up", "closing", "closed"}
        /\ backend \in {"memory", "database"}
        /\ {open, done, ticking, unread} \subseteq BOOLEAN
    BY DEF Inv, Types
  <2>8. file.state \in {"missing", "broken", "saved"} /\ (file.state = "saved" => file.data \in Contents)
    BY <2>1, FileFacts
  <2>9. \A s \in Savers : /\ save[s].pc \in {"idle", "counters", "gauges", "create", "write"}
                          /\ Snapshot(s) \in Contents
                          /\ save[s].lost \subseteq Maps
                          /\ since[s] \in 0 .. Len(log)
    BY <2>2, <2>3 DEF SaveStates
  <2> QED
    BY <2>1, <2>4, <2>5, <2>6, <2>7, <2>8, <2>9 DEF BackupInv, BackupTypeOK
<1> QED
  BY <1>1, BackupCorrect, PTL

\* A file that cannot be decoded is one a save is about to write, or something
\* happened to such a save (SaveData of internal/storage/filemanager).
THEOREM BrokenCorrect == BackupSpec => []BrokenHasCause
<1>1. Inv => BrokenHasCause
  BY DEF Inv
<1> QED
  BY <1>1, BackupCorrect, PTL

\* What a step that writes the file writes.
CutWritten ==
  file' # file /\ file'.state = "saved" =>
    \E s \in Savers : \E i, j \in since[s] .. Len(log) :
      /\ save[s].pc = "write"
      /\ i <= j
      /\ file'.data.counters = IF "counters" \in save[s].lost THEN NoMap ELSE log[i].counters
      /\ file'.data.gauges = IF "gauges" \in save[s].lost THEN NoMap ELSE log[j].gauges
      /\ save[s].lost # {} => backend = "database" /\ (failures > 0 \/ ~open)

LEMMA CutWrittenStep == Inv /\ [BackupNext]_backupVars => [CutWritten]_backupVars
<1> SUFFICES ASSUME Inv, BackupNext, file' # file, file'.state = "saved" PROVE CutWritten
  BY DEF CutWritten
<1>1. PICK s \in Savers : Encode(s)
  <2>1. \A s \in Savers : ~ReadMap(s) /\ ~Create(s)
    BY DEF ReadMap, Create, Broken
  <2>2. ~Start /\ ~OpenFile /\ ~NewStorage /\ ~Listen /\ ~Tick /\ ~BackupEnds /\ ~Close /\ ~Closed /\ ~Gone /\ ~Over
    BY DEF Start, OpenFile, NewStorage, Listen, Tick, BackupEnds, Close, Closed, Gone, Over, backupVars
  <2>3. /\ \A i \in todo : ~LoadItem(i[1], i[2])
        /\ \A ms \in Writes : ~Write(ms)
    BY DEF LoadItem, Write
  <2> QED
    BY <2>1, <2>2, <2>3 DEF BackupNext, Exit, Crash
<1>2. save[s].pc = "write" /\ file' = Saved(Snapshot(s))
  BY <1>1 DEF Encode, Broken
<1>3. IsCut(save[s], since[s], log, DatabaseFailed)
  BY DEF Inv, SavesAreCuts
<1>4. PICK i \in since[s] .. Len(log) :
         /\ save[s].counters = IF "counters" \in save[s].lost THEN NoMap ELSE log[i].counters
         /\ \E j \in i .. Len(log) :
              save[s].gauges = IF "gauges" \in save[s].lost THEN NoMap ELSE log[j].gauges
  BY <1>2, <1>3 DEF IsCut
<1>5. PICK j \in i .. Len(log) :
         save[s].gauges = IF "gauges" \in save[s].lost THEN NoMap ELSE log[j].gauges
  BY <1>4
<1>6. j \in since[s] .. Len(log) /\ i <= j
  <2>1. since[s] \in Nat /\ Len(log) \in Nat
    BY LenProperties DEF Inv, Types
  <2>2. \A m, n \in Nat : \A k \in m .. n : \A l \in k .. n : l \in m .. n /\ k <= l
    OBVIOUS
  <2> QED
    BY <2>1, <2>2
<1>7. save[s].lost # {} => backend = "database" /\ (failures > 0 \/ ~open)
  BY <1>3 DEF IsCut, DatabaseFailed
<1>8. file'.data.counters = save[s].counters /\ file'.data.gauges = save[s].gauges
  BY <1>2 DEF Saved, Snapshot
<1> QED
  BY <1>2, <1>4, <1>5, <1>6, <1>7, <1>8 DEF CutWritten

\* However many saves work on the file at once, and whatever clients write in
\* between, each file has counters and gauges the store had while its save ran,
\* the gauges not older than the counters (SaveData, RunBackup, Close).
THEOREM CutCorrect == BackupSpec => SavedIsCut
<1>1. BackupSpec => [][CutWritten]_backupVars
  BY BackupCorrect, CutWrittenStep, PTL DEF BackupSpec
<1> QED
  BY <1>1 DEF SavedIsCut, CutWritten

\* What holds when LoadData is through.
BroughtBack ==
  process = "loading" /\ process' \notin {"loading", "down"} /\ cfg.restore /\ cfg.path
      /\ ~unread =>
    \A i \in ItemsOf(file) \ unlucky :
      IF i[1] = "counters"
      THEN OrZero(Store.counters[i[2]]) = file.data.counters[i[2]]
      ELSE Store.gauges[i[2]] = file.data.gauges[i[2]]

LEMMA BroughtBackStep == Inv /\ [BackupNext]_backupVars => [BroughtBack]_backupVars
<1> SUFFICES ASSUME Inv, BackupNext, process = "loading", process' \notin {"loading", "down"},
                    cfg.restore, cfg.path, ~unread
             PROVE  \A i \in ItemsOf(file) \ unlucky : Back(file, Store, i)
  BY DEF BroughtBack, Back
<1>1. NewStorage
  <2>1. \A s \in Savers : ~ReadMap(s) /\ ~Create(s) /\ ~Encode(s)
    BY DEF ReadMap, Create, Encode
  <2>2. ~Start /\ ~OpenFile /\ ~Listen /\ ~Tick /\ ~BackupEnds /\ ~Close /\ ~Closed /\ ~Gone /\ ~Over
    BY DEF Start, OpenFile, Listen, Tick, BackupEnds, Close, Closed, Gone, Over, backupVars
  <2>3. /\ \A i \in todo : ~LoadItem(i[1], i[2])
        /\ \A ms \in Writes : ~Write(ms)
    BY DEF LoadItem, Write
  <2> QED
    BY <2>1, <2>2, <2>3 DEF BackupNext, Exit, Crash
<1>2. todo = {}
  BY <1>1 DEF NewStorage, LoadDone
<1> QED
  BY <1>2 DEF Inv, LoadInv, Restores

\* After a start with Restore every metric of the file has its value again, in
\* a database that already had another one too, except where the database
\* failed, if the disk did not fail when LoadData read the file.
THEOREM RestoreCorrect == BackupSpec => RestoreBringsBack
<1>1. BackupSpec => [][BroughtBack]_backupVars
  BY BackupCorrect, BroughtBackStep, PTL DEF BackupSpec
<1> QED
  BY <1>1 DEF RestoreBringsBack, BroughtBack

\* What the save at the start keeps.
BackupKept ==
  save["start"].pc = "write" /\ save'["start"].pc = "idle" /\ file'.state = "saved"
      /\ cfg.restore /\ save["start"].lost = {} /\ ~unread =>
    \A i \in ItemsOf(before) \ unlucky :
      IF i[1] = "counters"
      THEN OrZero(file'.data.counters[i[2]]) = before.data.counters[i[2]]
      ELSE file'.data.gauges[i[2]] = before.data.gauges[i[2]]

LEMMA BackupKeptStep == Inv /\ [BackupNext]_backupVars => [BackupKept]_backupVars
<1> SUFFICES ASSUME Inv, BackupNext, save["start"].pc = "write", save'["start"].pc = "idle",
                    file'.state = "saved", cfg.restore, save["start"].lost = {}, ~unread
             PROVE  BackupKept
  BY DEF BackupKept
<1>0. Types /\ Phases /\ LoadInv /\ StartInv /\ "start" \in Savers
  BY DEF Inv, Savers
<1>1. process = "saving" /\ cfg.path /\ file = Broken
  <2>1. SinceLogged /\ process = "saving"
    BY <1>0, SaveFacts DEF Phases
  <2> QED
    BY <1>0, <2>1 DEF SinceLogged, StartInv
<1>2. file' # file
  BY <1>1 DEF Broken
<1>3. PICK s \in Savers : Encode(s)
  <2>1. \A s \in Savers : ~ReadMap(s) /\ ~Create(s)
    BY <1>2 DEF ReadMap, Create, Broken
  <2>2. ~Start /\ ~OpenFile /\ ~NewStorage /\ ~Listen /\ ~Tick /\ ~BackupEnds /\ ~Close /\ ~Closed /\ ~Gone /\ ~Over
    BY <1>2 DEF Start, OpenFile, NewStorage, Listen, Tick, BackupEnds, Close, Closed, Gone, Over, backupVars
  <2>3. /\ \A i \in todo : ~LoadItem(i[1], i[2])
        /\ \A ms \in Writes : ~Write(ms)
    BY <1>2 DEF LoadItem, Write
  <2> QED
    BY <2>1, <2>2, <2>3 DEF BackupNext, Exit, Crash
<1>4. s = "start"
  BY <1>0, <1>1, <1>3, SaveFacts DEF Encode, Phases, Savers
<1>5. file' = Saved(Snapshot("start"))
  BY <1>2, <1>3, <1>4 DEF Encode, Broken, Saved
<1>6. file'.data.counters = Store.counters /\ file'.data.gauges = Store.gauges
  BY <1>0, <1>5 DEF StartInv, Saved, Snapshot
<1>7. \A i \in ItemsOf(before) \ unlucky : Back(before, Store, i)
  BY <1>0, <1>1 DEF LoadInv, Restores
<1> QED
  BY <1>6, <1>7 DEF BackupKept, Back

\* Nothing of the old file gets lost by the save at the start, except what the
\* database failed to load or to return, if the disk did not fail when the file
\* was read (NewStorage of internal/storage).
THEOREM StartCorrect == BackupSpec => StartKeepsBackup
<1>1. BackupSpec => [][BackupKept]_backupVars
  BY BackupCorrect, BackupKeptStep, PTL DEF BackupSpec
<1> QED
  BY <1>1 DEF StartKeepsBackup, BackupKept
=============================================================================
