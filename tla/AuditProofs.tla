----------------------------- MODULE AuditProofs -----------------------------
(***************************************************************************)
(* That the batch handlers never see each other's names in an array of the *)
(* pool, and that every event is recorded at most once, with as many names *)
(* as were sent: for every number of handlers, arrays and events and every *)
(* set of requests.                                                        *)
(***************************************************************************)
EXTENDS Audit, FiniteSetTheorems, SequenceTheorems, TLAPS

\* Whatever a slot of an array may hold, and the lists that clients send.
AnyName == (UNION {Range(r.names) : r \in Requests}) \cup {NoName}
Lists   == {r.names : r \in Requests}

LEMMA ListFacts ==
  /\ MaxNames \in Nat
  /\ \A l \in Lists : /\ l \in Seq(AnyName)
                      /\ Len(l) \in Nat /\ Len(l) <= MaxNames
                      /\ DOMAIN l = 1 .. Len(l)
<1>1. ASSUME NEW r \in Requests
      PROVE  r.names \in Seq(AnyName) /\ Len(r.names) \in Nat /\ DOMAIN r.names = 1 .. Len(r.names)
  <2>1. r.names \in Seq(Range(r.names))
    BY AuditAssumption
  <2>2. Range(r.names) \subseteq AnyName
    BY DEF AnyName
  <2> QED
    BY <2>1, <2>2, LenProperties, SeqMonotonic
<1>2. PICK r \in Requests : \A q \in Requests : Len(q.names) <= Len(r.names)
  BY AuditAssumption
<1> DEFINE longest == {Len(q.names) : q \in Requests}
<1>3. \E n \in longest : \A q \in Requests : Len(q.names) <= n
  BY <1>2
<1>4. MaxNames \in longest /\ \A q \in Requests : Len(q.names) <= MaxNames
  BY <1>3 DEF MaxNames
<1> QED
  BY <1>1, <1>4 DEF Lists
-----------------------------------------------------------------------------
(***************************************************************************)
(* The handlers and the arrays.                                            *)
(***************************************************************************)
Filling == {g \in Handlers : handler[g].pc = "fill"}

HandlerStates ==
  [pc : {"idle", "fill", "return"}, req : Requests \cup {Free.req}, arr : Arrays \cup {Own},
   filled : Nat]

HandlerTypes ==
  /\ array \in [Arrays -> [1 .. MaxNames -> AnyName]]
  /\ pool \subseteq Arrays
  /\ handler \in [Handlers -> HandlerStates]
  /\ \A h \in Handlers :
       /\ handler[h].pc = "idle" => handler[h] = Free
       /\ handler[h].pc # "idle" => handler[h].req \in Requests
       /\ handler[h].filled <= Len(handler[h].req.names)

Events == [arr : Arrays \cup {Own}, names : Lists]

\* The bound on the events also counts those that handlers are still filling.
EventsBound == Len(events) + Cardinality(Filling) <= MaxEvents

ProcessTypes ==
  /\ process \in {"up", "closing", "closed", "down"}
  /\ fileOpen \in BOOLEAN
  /\ locked \in {<<>>} \cup DOMAIN notes
  /\ dropped \subseteq DOMAIN notes

HandlerInv == HandlerTypes /\ ArrayHasOneHandler /\ SentEventIsRight

LEMMA HandlerFacts ==
  ASSUME HandlerTypes, NEW h \in Handlers
  PROVE  /\ handler[h].arr \in Arrays \cup {Own}
         /\ handler[h].filled \in Nat
         /\ handler[h].pc = "idle" => handler[h].arr = Own
         /\ handler[h].pc # "idle" => handler[h].req.names \in Lists
BY DEF HandlerTypes, HandlerStates, Free, Lists

LEMMA HandlerInit == AuditInit => HandlerInv
<1> SUFFICES ASSUME AuditInit PROVE HandlerInv
  OBVIOUS
<1>1. Free \in HandlerStates
  BY DEF Free, HandlerStates
<1>2. NoName \in AnyName
  BY DEF AnyName
<1>3. HandlerTypes
  <2>1. Free.filled <= Len(Free.req.names) /\ Free.pc = "idle"
    BY DEF Free
  <2> QED
    BY <1>1, <1>2, <2>1 DEF AuditInit, HandlerTypes
<1>4. ArrayHasOneHandler /\ SentEventIsRight
  BY DEF AuditInit, ArrayHasOneHandler, SentEventIsRight, Free
<1> QED
  BY <1>3, <1>4 DEF HandlerInv

LEMMA ArriveKeeps ==
  ASSUME HandlerInv, NEW h \in Handlers, NEW r \in Requests, Arrive(h, r)
  PROVE  HandlerInv'
<1> USE DEF HandlerInv
<1>1. PICK a \in IF r.batch THEN pool ELSE {Own} :
        /\ handler' = [handler EXCEPT ![h] = [pc |-> "fill", req |-> r, arr |-> a, filled |-> 0]]
        /\ pool' = pool \ {a}
  BY DEF Arrive
<1>2. a = Own \/ a \in pool
  BY <1>1
<1>3. a \in Arrays \cup {Own} /\ array' = array /\ handler[h].pc = "idle"
  BY <1>2 DEF HandlerTypes, Arrive
<1>4. Len(r.names) \in Nat
  BY ListFacts DEF Lists
<1>5. HandlerTypes'
  BY <1>1, <1>3, <1>4 DEF HandlerTypes, HandlerStates
<1>6. ArrayHasOneHandler'
  BY <1>1, <1>2, <1>3, HandlerFacts, AuditAssumption DEF ArrayHasOneHandler, HandlerTypes
<1>7. SentEventIsRight'
  BY <1>1, <1>3 DEF SentEventIsRight, HandlerTypes
<1> QED
  BY <1>5, <1>6, <1>7

\* The slot that is written belongs to the handler that writes it alone.
LEMMA AppendNameKeeps ==
  ASSUME HandlerInv, NEW h \in Handlers, AppendName(h)
  PROVE  HandlerInv'
<1> USE DEF HandlerInv
<1> DEFINE i == handler[h].filled + 1
           names == handler[h].req.names
           a == handler[h].arr
<1>1. /\ names \in Lists /\ a \in Arrays \cup {Own} /\ handler[h].filled \in Nat
      /\ i \in Nat /\ i <= Len(names)
      /\ handler' = [handler EXCEPT ![h].filled = i]
      /\ array' = IF a = Own THEN array ELSE [array EXCEPT ![a][i] = names[i]]
      /\ pool' = pool
  BY HandlerFacts DEF AppendName
<1>2. i \in 1 .. MaxNames /\ names[i] \in AnyName
  <2>1. i \in 1 .. Len(names)
    BY <1>1, ListFacts
  <2>2. names \in Seq(AnyName)
    BY <1>1, ListFacts
  <2> QED
    BY <1>1, <2>1, <2>2, ListFacts, ElementOfSeq
<1>3. /\ \A g \in Handlers : handler'[g].arr = handler[g].arr
      /\ \A g \in Handlers : handler'[g].req = handler[g].req
      /\ \A g \in Handlers \ {h} : handler'[g].filled = handler[g].filled
      /\ handler'[h].filled = i
  BY <1>1 DEF HandlerTypes, HandlerStates
<1>4. HandlerTypes'
  <2>1. handler' \in [Handlers -> HandlerStates]
    BY <1>1 DEF HandlerTypes, HandlerStates
  <2>2. array' \in [Arrays -> [1 .. MaxNames -> AnyName]]
    BY <1>1, <1>2 DEF HandlerTypes
  <2>3. \A g \in Handlers : handler'[g].pc = handler[g].pc
    BY <1>1 DEF HandlerTypes, HandlerStates
  <2>4. handler[h].pc = "fill"
    BY DEF AppendName
  <2> QED
    BY <1>1, <1>3, <2>1, <2>2, <2>3, <2>4 DEF HandlerTypes
<1>5. ArrayHasOneHandler'
  BY <1>1, <1>3 DEF ArrayHasOneHandler
<1>6. SentEventIsRight'
  <2> SUFFICES ASSUME NEW g \in Handlers, handler[g].arr # Own,
                      NEW j \in 1 .. handler'[g].filled
               PROVE  array'[handler[g].arr][j] = handler[g].req.names[j]
    BY <1>3 DEF SentEventIsRight
  <2>1. handler[g].arr \in Arrays
    BY HandlerFacts
  <2>2. CASE g = h
    <3>1. a # Own /\ a \in Arrays /\ array' = [array EXCEPT ![a][i] = names[i]]
      BY <1>1, <2>2
    <3>2. j = i \/ j \in 1 .. handler[h].filled
      BY <1>1, <1>3, <2>2
    <3>3. j \in 1 .. handler[h].filled => array[a][j] = names[j] /\ j # i
      BY <1>1, <2>2 DEF SentEventIsRight
    <3>4. j \in 1 .. MaxNames
      <4>1. Len(names) \in Nat /\ Len(names) <= MaxNames /\ MaxNames \in Nat
        BY <1>1, ListFacts
      <4> QED
        BY <1>1, <1>3, <2>2, <4>1
    <3>5. array'[a][j] = IF j = i THEN names[i] ELSE array[a][j]
      BY <1>2, <3>1, <3>4 DEF HandlerTypes
    <3> QED
      BY <2>2, <3>2, <3>3, <3>5
  <2>3. CASE g # h
    <3>1. handler[g].arr # a
      BY <2>3 DEF ArrayHasOneHandler
    <3>2. array'[handler[g].arr] = array[handler[g].arr]
      BY <1>1, <2>1, <3>1 DEF HandlerTypes
    <3> QED
      BY <1>3, <2>3, <3>2 DEF SentEventIsRight
  <2> QED
    BY <2>2, <2>3
<1> QED
  BY <1>4, <1>5, <1>6

LEMMA NotifyAllKeeps ==
  ASSUME HandlerInv, NEW h \in Handlers, NotifyAll(h)
  PROVE  HandlerInv'
<1> USE DEF HandlerInv
<1>1. /\ handler' = [handler EXCEPT ![h].pc = "return"] /\ handler[h].pc = "fill"
      /\ array' = array /\ pool' = pool
  BY DEF NotifyAll
<1>2. \A g \in Handlers : /\ handler'[g].arr = handler[g].arr
                          /\ handler'[g].req = handler[g].req
                          /\ handler'[g].filled = handler[g].filled
                          /\ g # h => handler'[g] = handler[g]
  BY <1>1 DEF HandlerTypes, HandlerStates
<1>3. HandlerTypes'
  <2>1. handler' \in [Handlers -> HandlerStates] /\ handler'[h].pc = "return"
    BY <1>1 DEF HandlerTypes, HandlerStates
  <2> QED
    BY <1>1, <1>2, <2>1 DEF HandlerTypes
<1>4. ArrayHasOneHandler'
  BY <1>1, <1>2 DEF ArrayHasOneHandler
<1>5. SentEventIsRight'
  BY <1>1, <1>2 DEF SentEventIsRight
<1> QED
  BY <1>3, <1>4, <1>5

LEMMA ReturnKeeps ==
  ASSUME HandlerInv, NEW h \in Handlers, Return(h)
  PROVE  HandlerInv'
<1> USE DEF HandlerInv
<1>1. /\ handler' = [handler EXCEPT ![h] = Free] /\ array' = array
      /\ pool' = pool \cup ({handler[h].arr} \ {Own})
  BY DEF Return
<1>2. Free \in HandlerStates /\ Free.arr = Own /\ Free.pc = "idle" /\ Free.filled = 0
      /\ Len(Free.req.names) = 0
  BY DEF Free, HandlerStates
<1>3. HandlerTypes'
  BY <1>1, <1>2, HandlerFacts DEF HandlerTypes
<1>4. ArrayHasOneHandler'
  BY <1>1, <1>2, HandlerFacts DEF ArrayHasOneHandler, HandlerTypes
<1>5. SentEventIsRight'
  BY <1>1, <1>2 DEF SentEventIsRight, HandlerTypes
<1> QED
  BY <1>3, <1>4, <1>5
-----------------------------------------------------------------------------
(***************************************************************************)
(* The events, the goroutines of NotifyAll and the records.                *)
(***************************************************************************)
NoteStates == [pc : {"marshal", "done"}, read : Seq(AnyName)]
Records    == [event : Nat, names : Seq(AnyName)]

\* What a goroutine has read of event e so far, or a record holds of it.
PartOf(names, e) ==
  /\ Len(names) <= Len(e.names)
  /\ e.arr = Own => \A i \in 1 .. Len(names) : names[i] = e.names[i]

NoteTypes ==
  /\ events \in Seq(Events)
  /\ notes \in [Observers \X DOMAIN events -> NoteStates]
  /\ records \in [Observers -> Seq(Records)]

\* A record is of an event that was sent, and its goroutine has finished.
RecordHasNote ==
  \A o \in Observers : \A i \in DOMAIN records[o] :
    /\ records[o][i].event \in DOMAIN events
    /\ notes[<<o, records[o][i].event>>].pc = "done"
    /\ Len(records[o][i].names) = Len(events[records[o][i].event].names)
    /\ PartOf(records[o][i].names, events[records[o][i].event])

RecordedOnce ==
  \A o \in Observers : \A i, j \in DOMAIN records[o] :
    i # j => records[o][i].event # records[o][j].event

NotesInv ==
  /\ NoteTypes
  /\ \A n \in DOMAIN notes : PartOf(notes[n].read, Event(n))
  /\ RecordHasNote
  /\ RecordedOnce

LEMMA NoteFacts ==
  ASSUME NotesInv, NEW n \in DOMAIN notes
  PROVE  /\ n[1] \in Observers /\ n[2] \in DOMAIN events /\ n = <<n[1], n[2]>>
         /\ notes[n] \in NoteStates
         /\ Event(n) \in Events
         /\ Len(notes[n].read) \in Nat
         /\ DOMAIN notes = Observers \X DOMAIN events
<1>1. DOMAIN notes = Observers \X DOMAIN events
  BY DEF NotesInv, NoteTypes
<1>2. n[1] \in Observers /\ n[2] \in DOMAIN events /\ n = <<n[1], n[2]>>
  BY <1>1
<1>3. notes[n] \in NoteStates
  BY <1>1 DEF NotesInv, NoteTypes
<1>4. Event(n) \in Events
  BY <1>2, LenProperties, ElementOfSeq DEF NotesInv, NoteTypes, Event
<1>5. Len(notes[n].read) \in Nat
  BY <1>3, LenProperties DEF NoteStates
<1> QED
  BY <1>1, <1>2, <1>3, <1>4, <1>5

LEMMA NotesInit == AuditInit => NotesInv
<1> SUFFICES ASSUME AuditInit PROVE NotesInv
  OBVIOUS
<1>1. events = <<>> /\ DOMAIN events = {} /\ events \in Seq(Events)
  BY EmptySeq, LenProperties DEF AuditInit
<1>2. notes \in [Observers \X DOMAIN events -> NoteStates] /\ DOMAIN notes = {}
  BY <1>1 DEF AuditInit
<1>3. records \in [Observers -> Seq(Records)] /\ \A o \in Observers : DOMAIN records[o] = {}
  BY EmptySeq, LenProperties DEF AuditInit
<1> QED
  BY <1>1, <1>2, <1>3 DEF NotesInv, NoteTypes, RecordHasNote, RecordedOnce

\* NotifyAll adds an event and its goroutines; the others do not see it.
LEMMA NotifyAllNotes ==
  ASSUME HandlerInv, NotesInv, NEW h \in Handlers, NotifyAll(h)
  PROVE  NotesInv'
<1> DEFINE e == [arr |-> handler[h].arr, names |-> handler[h].req.names]
<1>1. e \in Events
  BY HandlerFacts DEF HandlerInv, NotifyAll, Events
<1>2. events' = Append(events, e) /\ records' = records
  BY DEF NotifyAll
<1> HIDE DEF e
<1>3. events \in Seq(Events) /\ Len(events) \in Nat /\ DOMAIN events = 1 .. Len(events)
  BY LenProperties DEF NotesInv, NoteTypes
<1>4. /\ events' \in Seq(Events)
      /\ Len(events') = Len(events) + 1
      /\ \A k \in 1 .. Len(events) : events'[k] = events[k]
  BY <1>1, <1>2, <1>3, AppendProperties
<1>5. DOMAIN events' = 1 .. Len(events) + 1
  BY <1>4, LenProperties
<1>6. DOMAIN events \subseteq DOMAIN events' /\ \A k \in DOMAIN events : events'[k] = events[k]
  BY <1>3, <1>4, <1>5
<1> DEFINE dom == Observers \X DOMAIN events
           new == Observers \X {Len(events')}
           fresh == [pc |-> "marshal", read |-> <<>>]
<1>7. /\ DOMAIN notes = dom
      /\ notes' = [n \in DOMAIN notes \cup new |-> IF n \in DOMAIN notes THEN notes[n] ELSE fresh]
  BY DEF NotifyAll, NotesInv, NoteTypes
<1>8. dom \cup new = Observers \X DOMAIN events'
  BY <1>3, <1>4, <1>5
<1>9. fresh \in NoteStates /\ \A n \in dom : notes[n] \in NoteStates
  BY EmptySeq DEF NoteStates, NotesInv, NoteTypes
<1>10. NoteTypes'
  BY <1>2, <1>4, <1>7, <1>8, <1>9 DEF NotesInv, NoteTypes
<1>11. ASSUME NEW n \in DOMAIN notes' PROVE PartOf(notes'[n].read, Event(n)')
  <2>1. CASE n \in dom
    <3>1. notes'[n] = notes[n] /\ Event(n)' = Event(n)
      BY <1>6, <1>7, <2>1 DEF Event
    <3> QED
      BY <1>7, <2>1, <3>1 DEF NotesInv
  <2>2. CASE n \notin dom
    <3>1. notes'[n].read = <<>>
      BY <1>7, <1>11, <2>2
    <3>2. Event(n)' \in Events
      <4>1. n \in Observers \X DOMAIN events'
        BY <1>7, <1>8, <1>11
      <4> QED
        BY <1>4, <4>1, LenProperties, ElementOfSeq DEF Event
    <3>3. Len(Event(n)'.names) \in Nat
      BY <3>2, ListFacts DEF Events
    <3> QED
      BY <3>1, <3>3, EmptySeq DEF PartOf
  <2> QED
    BY <2>1, <2>2
<1>12. RecordHasNote'
  <2> SUFFICES ASSUME NEW o \in Observers, NEW i \in DOMAIN records[o]
               PROVE  /\ records[o][i].event \in DOMAIN events'
                      /\ notes'[<<o, records[o][i].event>>].pc = "done"
                      /\ Len(records[o][i].names) = Len(events'[records[o][i].event].names)
                      /\ PartOf(records[o][i].names, events'[records[o][i].event])
    BY <1>2 DEF RecordHasNote
  <2>1. /\ records[o][i].event \in DOMAIN events
        /\ notes[<<o, records[o][i].event>>].pc = "done"
        /\ Len(records[o][i].names) = Len(events[records[o][i].event].names)
        /\ PartOf(records[o][i].names, events[records[o][i].event])
    BY DEF NotesInv, RecordHasNote
  <2>2. notes'[<<o, records[o][i].event>>] = notes[<<o, records[o][i].event>>]
    BY <1>7, <2>1
  <2> QED
    BY <1>6, <2>1, <2>2
<1>13. RecordedOnce'
  BY <1>2 DEF NotesInv, RecordedOnce
<1> QED
  BY <1>10, <1>11, <1>12, <1>13 DEF NotesInv

\* The goroutine reads a name of the handler's own slice as it was sent, and any
\* name of an array that may have another owner by now.
LEMMA MarshalNameNotes ==
  ASSUME HandlerInv, NotesInv, NEW n \in DOMAIN notes, MarshalName(n)
  PROVE  NotesInv'
<1> DEFINE read == notes[n].read
           i == Len(read) + 1
           x == IF Event(n).arr = Own THEN Event(n).names[i] ELSE array[Event(n).arr][i]
<1>1. /\ notes' = [notes EXCEPT ![n].read = Append(read, x)]
      /\ events' = events /\ records' = records
      /\ i <= Len(Event(n).names)
  BY DEF MarshalName
<1>2. /\ read \in Seq(AnyName) /\ Len(read) \in Nat
      /\ Event(n) \in Events
      /\ notes[n] \in NoteStates
      /\ notes \in [DOMAIN notes -> NoteStates]
  BY NoteFacts DEF NoteStates, NotesInv, NoteTypes
<1>3. /\ Event(n).names \in Seq(AnyName) /\ Len(Event(n).names) \in Nat
      /\ Len(Event(n).names) <= MaxNames /\ MaxNames \in Nat
      /\ Event(n).arr \in Arrays \cup {Own}
  BY <1>2, ListFacts DEF Events
<1>4. i \in 1 .. Len(Event(n).names) /\ i \in 1 .. MaxNames
  BY <1>1, <1>2, <1>3
<1>5. x \in AnyName
  <2>1. CASE Event(n).arr = Own
    BY <1>3, <1>4, <2>1, ElementOfSeq
  <2>2. CASE Event(n).arr # Own
    BY <1>3, <1>4, <2>2 DEF HandlerInv, HandlerTypes
  <2> QED
    BY <2>1, <2>2
<1>6. /\ Append(read, x) \in Seq(AnyName)
      /\ Len(Append(read, x)) = i
      /\ \A j \in 1 .. Len(read) : Append(read, x)[j] = read[j]
      /\ Append(read, x)[i] = x
  BY <1>2, <1>5, AppendProperties
<1>7. /\ \A m \in DOMAIN notes : Event(m)' = Event(m)
      /\ \A m \in DOMAIN notes \ {n} : notes'[m] = notes[m]
      /\ notes'[n].read = Append(read, x)
      /\ \A m \in DOMAIN notes : notes'[m].pc = notes[m].pc
      /\ notes'[n] \in NoteStates
      /\ DOMAIN notes' = DOMAIN notes
  <2> HIDE DEF x
  <2> QED
    BY <1>1, <1>2, <1>6 DEF Event, NoteStates
<1>8. PartOf(read, Event(n))
  BY DEF NotesInv
<1>9. PartOf(Append(read, x), Event(n))
  <2>1. ASSUME Event(n).arr = Own, NEW j \in 1 .. i
        PROVE  Append(read, x)[j] = Event(n).names[j]
    <3>1. j = i \/ j \in 1 .. Len(read)
      BY <1>2
    <3> QED
      BY <1>6, <1>8, <2>1, <3>1 DEF PartOf
  <2> QED
    BY <1>1, <1>6, <2>1 DEF PartOf
<1> HIDE DEF x
<1>10. NoteTypes'
  BY <1>1, <1>2, <1>7 DEF NotesInv, NoteTypes
<1>11. \A m \in DOMAIN notes' : PartOf(notes'[m].read, Event(m)')
  BY <1>7, <1>9 DEF NotesInv
<1>12. RecordHasNote'
  <2>1. \A o \in Observers : \A k \in DOMAIN records[o] :
          <<o, records[o][k].event>> \in DOMAIN notes
    BY NoteFacts DEF NotesInv, RecordHasNote
  <2> QED
    BY <1>1, <1>7, <2>1 DEF NotesInv, RecordHasNote
<1>13. RecordedOnce'
  BY <1>1 DEF NotesInv, RecordedOnce
<1> QED
  BY <1>10, <1>11, <1>12, <1>13 DEF NotesInv

\* A goroutine that has read the whole event writes it once, or never.
LEMMA FinishNotes ==
  ASSUME NotesInv, NEW n \in DOMAIN notes, notes[n].pc = "marshal",
         Len(notes[n].read) = Len(Event(n).names),
         records' = records \/ records' = Written(n), Finish(n), events' = events
  PROVE  NotesInv'
<1>1. /\ n[1] \in Observers /\ n[2] \in DOMAIN events /\ n = <<n[1], n[2]>>
      /\ notes[n] \in NoteStates /\ notes[n].read \in Seq(AnyName)
      /\ DOMAIN notes = Observers \X DOMAIN events
      /\ notes \in [DOMAIN notes -> NoteStates]
  BY NoteFacts DEF NoteStates, NotesInv, NoteTypes
<1>2. /\ \A m \in DOMAIN notes : /\ Event(m)' = Event(m)
                                 /\ notes'[m].read = notes[m].read
                                 /\ notes'[m] \in NoteStates
                                 /\ notes[m].pc = "done" => notes'[m].pc = "done"
      /\ notes'[n].pc = "done"
      /\ DOMAIN notes' = DOMAIN notes
  BY <1>1 DEF Event, Finish, NoteStates
<1>3. notes' \in [DOMAIN notes -> NoteStates]
  BY <1>1 DEF Finish, NoteStates
<1>4. \A m \in DOMAIN notes' : PartOf(notes'[m].read, Event(m)')
  <2>1. \A m \in DOMAIN notes : PartOf(notes[m].read, Event(m))
    BY DEF NotesInv
  <2> QED
    BY <1>2, <2>1
<1>5. CASE records' = records
  <2>1. NoteTypes'
    BY <1>1, <1>5, <1>3 DEF NotesInv, NoteTypes
  <2>2. RecordHasNote'
    <3>1. \A o \in Observers : \A k \in DOMAIN records[o] :
            <<o, records[o][k].event>> \in DOMAIN notes
      BY <1>1 DEF NotesInv, RecordHasNote
    <3> QED
      BY <1>2, <1>5, <3>1 DEF NotesInv, RecordHasNote
  <2>3. RecordedOnce'
    BY <1>5 DEF NotesInv, RecordedOnce
  <2> QED
    BY <1>4, <2>1, <2>2, <2>3 DEF NotesInv
<1>6. CASE records' = Written(n)
  <2> DEFINE o == n[1]
             r == [event |-> n[2], names |-> notes[n].read]
             old == records[o]
             next == Append(old, r)
  <2>1. r \in Records /\ old \in Seq(Records)
    <3>1. n[2] \in Nat
      BY <1>1, LenProperties DEF NotesInv, NoteTypes
    <3> QED
      BY <1>1, <3>1 DEF NotesInv, NoteTypes, Records
  <2>2. /\ next \in Seq(Records)
        /\ DOMAIN old = 1 .. Len(old) /\ Len(old) \in Nat
        /\ DOMAIN next = 1 .. Len(old) + 1
        /\ \A i \in 1 .. Len(old) : next[i] = old[i]
        /\ next[Len(old) + 1] = r
    <3> HIDE DEF r, old
    <3> QED
      BY <2>1, LenProperties, AppendProperties
  <2>3. records' = [records EXCEPT ![o] = next]
    BY <1>6 DEF Written
  <2>4. r.event = n[2] /\ r.names = notes[n].read
    OBVIOUS
  <2> HIDE DEF r, next
  <2>5. \A q \in Observers : records'[q] = IF q = o THEN next ELSE records[q]
    BY <1>1, <2>3 DEF NotesInv, NoteTypes
  <2>6. \A i \in DOMAIN next : i = Len(old) + 1 \/ i \in DOMAIN old
    BY <2>2
  <2>7. \A i \in DOMAIN old : old[i].event # n[2]
    BY <1>1 DEF NotesInv, RecordHasNote
  <2>8. NoteTypes'
    BY <1>1, <1>3, <2>2, <2>3 DEF NotesInv, NoteTypes
  <2>9. RecordHasNote'
    <3> SUFFICES ASSUME NEW q \in Observers, NEW i \in DOMAIN records'[q]
                 PROVE  /\ records'[q][i].event \in DOMAIN events
                        /\ notes'[<<q, records'[q][i].event>>].pc = "done"
                        /\ Len(records'[q][i].names) = Len(events[records'[q][i].event].names)
                        /\ PartOf(records'[q][i].names, events[records'[q][i].event])
      BY DEF RecordHasNote
    <3>1. CASE q = o /\ i = Len(old) + 1
      <4>1. records'[q][i] = r
        BY <2>2, <2>5, <3>1
      <4>2. PartOf(notes[n].read, Event(n))
        BY DEF NotesInv
      <4> QED
        BY <1>1, <1>2, <2>4, <3>1, <4>1, <4>2 DEF Event
    <3>2. CASE ~(q = o /\ i = Len(old) + 1)
      <4>1. i \in DOMAIN records[q] /\ records'[q][i] = records[q][i]
        BY <2>2, <2>5, <2>6, <3>2
      <4>2. /\ records[q][i].event \in DOMAIN events
            /\ notes[<<q, records[q][i].event>>].pc = "done"
            /\ Len(records[q][i].names) = Len(events[records[q][i].event].names)
            /\ PartOf(records[q][i].names, events[records[q][i].event])
        BY <4>1 DEF NotesInv, RecordHasNote
      <4>3. <<q, records[q][i].event>> \in DOMAIN notes
        BY <1>1, <4>2
      <4> QED
        BY <1>2, <4>1, <4>2, <4>3
    <3> QED
      BY <3>1, <3>2
  <2>10. RecordedOnce'
    <3> SUFFICES ASSUME NEW q \in Observers,
                        NEW i \in DOMAIN records'[q], NEW j \in DOMAIN records'[q], i # j
                 PROVE  records'[q][i].event # records'[q][j].event
      BY DEF RecordedOnce
    <3>1. CASE q # o
      BY <2>5, <3>1 DEF NotesInv, RecordedOnce
    <3>2. CASE q = o
      <4>1. \A k \in DOMAIN old : next[k] = old[k] /\ next[k].event # n[2]
        BY <2>2, <2>7
      <4>2. next[Len(old) + 1].event = n[2]
        BY <2>2, <2>4
      <4>3. \A k, l \in DOMAIN old : k # l => next[k].event # next[l].event
        BY <1>1, <4>1 DEF NotesInv, RecordedOnce
      <4> QED
        BY <2>5, <2>6, <3>2, <4>1, <4>2, <4>3
    <3> QED
      BY <3>1, <3>2
  <2> QED
    BY <1>4, <2>8, <2>9, <2>10 DEF NotesInv
<1> QED
  BY <1>5, <1>6
-----------------------------------------------------------------------------
(***************************************************************************)
(* The bound on the events, and the process.                               *)
(***************************************************************************)
LEMMA FillingIsFinite == IsFiniteSet(Filling) /\ Cardinality(Filling) \in Nat
BY AuditAssumption, FS_Subset, FS_CardinalityType DEF Filling

LEMMA BoundInit == AuditInit => EventsBound
<1> SUFFICES ASSUME AuditInit PROVE EventsBound
  OBVIOUS
<1>1. Filling = {} /\ Len(events) = 0
  BY DEF AuditInit, Filling, Free
<1>2. Cardinality(Filling) = 0
  BY <1>1, FS_EmptySet
<1> QED
  BY <1>1, <1>2, AuditAssumption DEF EventsBound

\* A handler that starts takes one of the events left; NotifyAll uses it up.
LEMMA BoundStep ==
  ASSUME HandlerInv, NotesInv, EventsBound, NEW h \in Handlers,
         \/ \E r \in Requests : Arrive(h, r)
         \/ AppendName(h)
         \/ NotifyAll(h)
         \/ Return(h)
  PROVE  EventsBound'
<1>1. /\ IsFiniteSet(Filling) /\ Cardinality(Filling) \in Nat
      /\ Len(events) \in Nat
      /\ MaxEvents \in Nat
      /\ Len(events) + Cardinality(Filling) <= MaxEvents
  BY FillingIsFinite, AuditAssumption, LenProperties DEF NotesInv, NoteTypes, EventsBound
<1>2. handler \in [Handlers -> HandlerStates]
  BY DEF HandlerInv, HandlerTypes
<1>3. CASE \E r \in Requests : Arrive(h, r)
  <2>1. PICK r \in Requests : Arrive(h, r)
    BY <1>3
  <2>2. /\ Filling' = Filling \cup {h} /\ h \notin Filling
        /\ Len(events) + Cardinality(Filling) < MaxEvents
        /\ events' = events
    BY <1>2, <2>1 DEF Arrive, Filling
  <2>3. Cardinality(Filling') = Cardinality(Filling) + 1
    BY <1>1, <2>2, FS_AddElement
  <2> QED
    BY <1>1, <2>2, <2>3 DEF EventsBound
<1>4. CASE AppendName(h)
  <2>1. Filling' = Filling /\ events' = events
    BY <1>2, <1>4 DEF AppendName, Filling, HandlerStates
  <2> QED
    BY <2>1 DEF EventsBound
<1>5. CASE NotifyAll(h)
  <2>1. /\ Filling' = Filling \ {h} /\ h \in Filling
        /\ \E e \in Events : events' = Append(events, e)
    BY <1>2, <1>5, HandlerFacts DEF NotifyAll, Filling, HandlerStates, HandlerInv, Events
  <2>2. Cardinality(Filling') = Cardinality(Filling) - 1
    BY <1>1, <2>1, FS_RemoveElement
  <2>3. Len(events') = Len(events) + 1
    BY <2>1, AppendProperties DEF NotesInv, NoteTypes
  <2> QED
    BY <1>1, <2>2, <2>3 DEF EventsBound
<1>6. CASE Return(h)
  <2>1. Filling' = Filling /\ events' = events
    BY <1>2, <1>6 DEF Return, Filling, Free
  <2> QED
    BY <2>1 DEF EventsBound
<1> QED
  BY <1>3, <1>4, <1>5, <1>6
-----------------------------------------------------------------------------
(***************************************************************************)
(* Everything together.                                                    *)
(***************************************************************************)
AuditInv == HandlerInv /\ NotesInv /\ EventsBound /\ ProcessTypes

\* What only the observers' goroutines and the process change, and what they keep.
LEMMA HandlerFrame ==
  ASSUME HandlerInv, UNCHANGED <<array, pool, handler>>
  PROVE  HandlerInv'
BY DEF HandlerInv, HandlerTypes, ArrayHasOneHandler, SentEventIsRight

LEMMA NotesFrame ==
  ASSUME NotesInv, UNCHANGED <<events, notes, records>>
  PROVE  NotesInv'
BY DEF NotesInv, NoteTypes, RecordHasNote, RecordedOnce, Event

LEMMA BoundFrame ==
  ASSUME EventsBound, UNCHANGED <<events, handler>>
  PROVE  EventsBound'
BY DEF EventsBound, Filling

LEMMA ProcessFrame ==
  ASSUME ProcessTypes, UNCHANGED <<process, fileVars, dropped>>, DOMAIN notes \subseteq DOMAIN notes'
  PROVE  ProcessTypes'
BY DEF ProcessTypes, fileVars

LEMMA AuditStep == AuditInv /\ [AuditNext]_auditVars => AuditInv'
<1> SUFFICES ASSUME AuditInv, [AuditNext]_auditVars PROVE AuditInv'
  OBVIOUS
<1> USE DEF AuditInv
<1>1. ASSUME NEW h \in Handlers, NEW r \in Requests, Arrive(h, r) PROVE AuditInv'
  <2>1. UNCHANGED <<events, notes, records, process, fileVars, dropped>>
    BY <1>1 DEF Arrive
  <2> QED
    BY <1>1, <2>1, ArriveKeeps, NotesFrame, BoundStep, ProcessFrame
<1>2. ASSUME NEW h \in Handlers, AppendName(h) PROVE AuditInv'
  <2>1. UNCHANGED <<events, notes, records, process, fileVars, dropped>>
    BY <1>2 DEF AppendName
  <2> QED
    BY <1>2, <2>1, AppendNameKeeps, NotesFrame, BoundStep, ProcessFrame
<1>3. ASSUME NEW h \in Handlers, NotifyAll(h) PROVE AuditInv'
  <2>1. UNCHANGED <<process, fileVars, dropped>> /\ DOMAIN notes \subseteq DOMAIN notes'
    BY <1>3 DEF NotifyAll
  <2> QED
    BY <1>3, <2>1, NotifyAllKeeps, NotifyAllNotes, BoundStep, ProcessFrame
<1>4. ASSUME NEW h \in Handlers, Return(h) PROVE AuditInv'
  <2>1. UNCHANGED <<events, notes, records, process, fileVars, dropped>>
    BY <1>4 DEF Return
  <2> QED
    BY <1>4, <2>1, ReturnKeeps, NotesFrame, BoundStep, ProcessFrame
<1>5. ASSUME NEW n \in DOMAIN notes, MarshalName(n) PROVE AuditInv'
  <2>1. /\ UNCHANGED <<array, pool, handler, events, process, fileVars, dropped>>
        /\ DOMAIN notes \subseteq DOMAIN notes'
    BY <1>5 DEF MarshalName, NotesInv, NoteTypes
  <2> QED
    BY <1>5, <2>1, MarshalNameNotes, HandlerFrame, BoundFrame, ProcessFrame
<1>6. ASSUME NEW n \in DOMAIN notes, Record(n) \/ Drop(n) PROVE AuditInv'
  <2>1. /\ UNCHANGED <<array, pool, handler, events, process, fileOpen>>
        /\ notes[n].pc = "marshal"
        /\ Len(notes[n].read) = Len(Event(n).names)
        /\ records' = records \/ records' = Written(n)
        /\ dropped' = dropped \/ dropped' = dropped \cup {n}
        /\ Finish(n)
    BY <1>6 DEF Record, Drop, Ready, Marshalled
  <2>2. NotesInv'
    BY <2>1, FinishNotes
  <2>3. DOMAIN notes' = DOMAIN notes /\ (locked' = locked \/ locked' = <<>>)
    BY <2>1 DEF Finish, NotesInv, NoteTypes
  <2>4. ProcessTypes'
    BY <2>1, <2>3 DEF ProcessTypes
  <2> QED
    BY <2>1, <2>2, <2>4, HandlerFrame, BoundFrame
<1>7. ASSUME NEW n \in DOMAIN notes, Lock(n) PROVE AuditInv'
  <2>1. /\ UNCHANGED <<array, pool, handler, events, notes, records, process, fileOpen, dropped>>
        /\ locked' = n
    BY <1>7 DEF Lock
  <2>2. ProcessTypes'
    BY <2>1 DEF ProcessTypes
  <2> QED
    BY <2>1, <2>2, HandlerFrame, NotesFrame, BoundFrame
<1>8. ASSUME Shutdown \/ Close \/ Exit \/ Gone \/ UNCHANGED auditVars PROVE AuditInv'
  <2>1. UNCHANGED <<array, pool, handler, events, notes, records>> /\ ProcessTypes'
    BY <1>8 DEF Shutdown, Close, Exit, Gone, auditVars, fileVars, ProcessTypes
  <2> QED
    BY <2>1, HandlerFrame, NotesFrame, BoundFrame
<1> QED
  BY <1>1, <1>2, <1>3, <1>4, <1>5, <1>6, <1>7, <1>8 DEF AuditNext

\* AuditInv is inductive, and so it is an invariant.
LEMMA AuditCorrect == AuditSpec => []AuditInv
<1>1. AuditInit => AuditInv
  <2>1. AuditInit => ProcessTypes
    BY DEF AuditInit, ProcessTypes
  <2> QED
    BY <2>1, HandlerInit, NotesInit, BoundInit DEF AuditInv
<1> QED
  BY <1>1, AuditStep, PTL DEF AuditSpec

LEMMA TypesFollow == AuditInv => AuditTypeOK
<1> SUFFICES ASSUME AuditInv PROVE AuditTypeOK
  OBVIOUS
<1>1. HandlerTypes /\ NotesInv /\ EventsBound /\ ProcessTypes
  BY DEF AuditInv, HandlerInv
<1>2. ASSUME NEW h \in Handlers
      PROVE  /\ handler[h].pc \in {"idle", "fill", "return"}
             /\ handler[h].arr \in Arrays \cup {Own}
             /\ handler[h].filled \in 0 .. MaxNames
  <2>1. handler[h] \in HandlerStates /\ handler[h].filled <= Len(handler[h].req.names)
    BY <1>1 DEF HandlerTypes
  <2>2. CASE handler[h].pc = "idle"
    <3>1. handler[h].filled = 0
      BY <1>1, <2>2 DEF HandlerTypes, Free
    <3> QED
      BY <2>1, <3>1, ListFacts DEF HandlerStates
  <2>3. CASE handler[h].pc # "idle"
    <3>1. Len(handler[h].req.names) \in Nat /\ Len(handler[h].req.names) <= MaxNames
      BY <1>1, <2>3, HandlerFacts, ListFacts
    <3> QED
      BY <2>1, <3>1, ListFacts DEF HandlerStates
  <2> QED
    BY <2>2, <2>3
<1>3. Len(events) <= MaxEvents
  <2>1. Len(events) \in Nat /\ Cardinality(Filling) \in Nat /\ MaxEvents \in Nat
    BY <1>1, FillingIsFinite, AuditAssumption, LenProperties DEF NotesInv, NoteTypes
  <2> QED
    BY <1>1, <2>1 DEF EventsBound
<1>4. /\ DOMAIN notes \subseteq Observers \X DOMAIN events
      /\ \A n \in DOMAIN notes : notes[n].pc \in {"marshal", "done"}
  BY <1>1 DEF NotesInv, NoteTypes, NoteStates
<1> QED
  BY <1>1, <1>2, <1>3, <1>4 DEF AuditTypeOK, HandlerTypes, ProcessTypes

\* The batch handlers take the arrays of their events from a sync.Pool and give
\* them back when they return (handlers.go, stringSlicePool): two handlers never
\* fill the same array, and every event holds its own request's names when
\* NotifyAll gets it.
THEOREM ArrayCorrect == AuditSpec => []ArrayInv
<1>1. AuditInv => ArrayInv
  BY TypesFollow DEF AuditInv, HandlerInv, ArrayInv
<1> QED
  BY <1>1, AuditCorrect, PTL

LEMMA RecordsFollow == AuditInv => RecordsAreHonest
<1> SUFFICES ASSUME AuditInv, NEW o \in Observers
             PROVE  /\ \A i, j \in DOMAIN records[o] :
                         i # j => records[o][i].event # records[o][j].event
                    /\ \A i \in DOMAIN records[o] :
                         LET e == events[records[o][i].event]
                         IN  /\ Len(records[o][i].names) = Len(e.names)
                             /\ e.arr = Own => records[o][i].names = e.names
  BY DEF RecordsAreHonest
<1>1. \A i, j \in DOMAIN records[o] : i # j => records[o][i].event # records[o][j].event
  BY DEF AuditInv, NotesInv, RecordedOnce
<1>2. ASSUME NEW i \in DOMAIN records[o]
      PROVE  /\ Len(records[o][i].names) = Len(events[records[o][i].event].names)
             /\ events[records[o][i].event].arr = Own =>
                  records[o][i].names = events[records[o][i].event].names
  <2> DEFINE e == events[records[o][i].event]
             names == records[o][i].names
  <2>1. /\ records[o][i].event \in DOMAIN events
        /\ Len(names) = Len(e.names)
        /\ PartOf(names, e)
    BY DEF AuditInv, NotesInv, RecordHasNote
  <2>2. e \in Events /\ names \in Seq(AnyName)
    <3>1. events \in Seq(Events) /\ records[o] \in Seq(Records)
      BY DEF AuditInv, NotesInv, NoteTypes
    <3>2. events[records[o][i].event] \in Events
      BY <2>1, <3>1, LenProperties, ElementOfSeq
    <3>3. records[o][i] \in Records
      BY <3>1, LenProperties, ElementOfSeq
    <3> QED
      BY <3>2, <3>3 DEF Records
  <2>3. e.names \in Seq(AnyName)
    BY <2>2, ListFacts DEF Events
  <2>4. e.arr = Own => \A k \in 1 .. Len(names) : names[k] = e.names[k]
    BY <2>1 DEF PartOf
  <2> HIDE DEF e, names
  <2>5. e.arr = Own => names = e.names
    BY <2>1, <2>2, <2>3, <2>4, SeqEqual
  <2> QED
    BY <2>1, <2>5 DEF e, names
<1> QED
  BY <1>1, <1>2

\* An observer records an event at most once and with as many names as were
\* sent, and the event of a single metric with the name that was sent
\* (FileAuditObserver.Notify, URLAuditObserver.Notify), whatever the handlers do
\* to the array in the meantime.
THEOREM RecordsCorrect == AuditSpec => []RecordsAreHonest
BY AuditCorrect, RecordsFollow, PTL
==============================================================================
