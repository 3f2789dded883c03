--------------------------- MODULE ResetPoolProofs ---------------------------
(***************************************************************************)
(* That a structure of a Pool has at most one owner, that one somebody     *)
(* holds is changed behind the holder's back only over a link, that Get    *)
(* returns it without data of its last user, and that only a Reset that    *)
(* goes round in a circle does not end: for every set of goroutines,       *)
(* structures and packages the generator compiles methods for.             *)
(***************************************************************************)
EXTENDS ResetPool, SequenceTheorems, FiniteSetTheorems, WellFoundedInduction, TLAPS

\* What OneOwner needs to be inductive: what is being put was allocated, as a T.
PutWasMade ==
  \A u \in Users : Returning(u) \subseteq made /\ \A o \in Returning(u) : Kind[o] = struct

\* What OthersNeedLink needs: a structure that is being put is linked only as it
\* was when it was put, and the first call of its Reset went over such a link.
PutKeepsLinks ==
  \A u \in Users : stack[u] # <<>> =>
    /\ \A f \in Links(stack[u][1].obj) :
         <<stack[u][1].obj, val[stack[u][1].obj][f]>> \in kept
    /\ Len(stack[u]) > 1 => <<stack[u][1].obj, stack[u][2].obj>> \in kept

PoolInv == ResetPoolTypeOK /\ PutWasMade /\ OneOwner /\ PutKeepsLinks

(***************************************************************************)
(* What GetIsClean needs: no data but in the fields that carry it over, in *)
(* what the pool has, in what nobody got yet, and, of a structure that is  *)
(* being put, in the fields whose statement has run.                       *)
(***************************************************************************)
Clean(o, f) ==
  ~IsLink(o, f) /\ val[o][f] = "used" => f = "" \/ Carries(TypeOf(o, f), Tidy)

Unused == {o \in Objects : o \notin made \/ o \in pool \/ \E u \in Users : o \in got[u]}

UnusedIsClean == \A o \in Unused : \A f \in Fields(o) : Clean(o, f)

FirstBody(u)  == Body(stack[u][1].obj)
FieldsDone(u) ==
  {FirstBody(u)[i].field : i \in {j \in DOMAIN FirstBody(u) : j < stack[u][1].next}}

ResetSoFar == \A u \in Users : \A o \in Returning(u), f \in FieldsDone(u) : Clean(o, f)

GotIsHeld == \A u \in Users : got[u] \ {Nil} \subseteq held[u]

NilWasPut == Nil \in pool \/ (\E u \in Users : Nil \in got[u]) => nilPut

CleanInv == UnusedIsClean /\ ResetSoFar /\ GotIsHeld /\ NilWasPut

\* What FatalNeedsCircle needs: every stack follows links, and the one that
\* overflowed has more calls than structures were allocated.
StacksFollow ==
  \A u \in Users : \A k \in 1 .. Len(stack[u]) - 1 :
    Follows(stack[u], k) \/ stack[u][k].obj \in relinked

FatalStack == fatal => \E u \in Users : Len(stack[u]) > Cardinality(made)

WalkInv == StacksFollow /\ FatalStack

\* Links lead to structures that were allocated, and so do the calls over them.
StacksMade == \A u \in Users : \A i \in 1 .. Len(stack[u]) : stack[u][i].obj \in made
LinksMade  == \A o \in Objects : \A f \in Links(o) : val[o][f] \in made

MadeInv == StacksMade /\ LinksMade

\* The fields of the structures, as ResetPoolTypeOK has them.
FieldsOK ==
  /\ val = [o \in Objects |-> [f \in Fields(o) |-> val[o][f]]]
  /\ \A o \in Objects : \A f \in Fields(o) :
       val[o][f] \in IF IsLink(o, f) THEN Targets(o, f) ELSE {"zero", "used"}

\* Only the fields of one structure change.
LEMMA FieldsChange ==
  ASSUME ResetPoolTypeOK, NEW o \in Objects, NEW fields,
         fields = [f \in Fields(o) |-> fields[f]],
         \A f \in Fields(o) :
           fields[f] \in IF IsLink(o, f) THEN Targets(o, f) ELSE {"zero", "used"},
         val' = [val EXCEPT ![o] = fields]
  PROVE  FieldsOK' /\ val'[o] = fields /\ \A p \in Objects \ {o} : val'[p] = val[p]
<1>1. FieldsOK
  BY DEF ResetPoolTypeOK, FieldsOK
<1>2. DOMAIN val = Objects /\ \A p \in Objects : val[p] = [f \in Fields(p) |-> val[p][f]]
  BY <1>1 DEF FieldsOK
<1>3. val'[o] = fields /\ \A p \in Objects \ {o} : val'[p] = val[p]
  BY <1>2
<1>4. val' = [p \in Objects |-> val'[p]]
  BY <1>2
<1>5. \A p \in Objects : val'[p] = [f \in Fields(p) |-> val'[p][f]]
  BY <1>2, <1>3
<1>6. [p \in Objects |-> val'[p]] = [p \in Objects |-> [f \in Fields(p) |-> val'[p][f]]]
  BY <1>5
<1> QED
  BY <1>1, <1>3, <1>4, <1>6 DEF FieldsOK

\* The top of a stack that is not empty.
LEMMA TopFrame ==
  ASSUME ResetPoolTypeOK, NEW u \in Users, stack[u] # <<>>
  PROVE  /\ stack[u] \in Seq(Frames)
         /\ Len(stack[u]) \in Nat /\ Len(stack[u]) >= 1
         /\ Len(stack[u]) = 1 \/ Len(stack[u]) >= 2
         /\ DOMAIN stack[u] = 1 .. Len(stack[u])
         /\ \A i \in 1 .. Len(stack[u]) : stack[u][i] \in Frames
         /\ Top(u).obj \in Objects
<1>1. stack[u] \in Seq(Frames)
  BY DEF ResetPoolTypeOK
<1>2. Len(stack[u]) \in Nat /\ Len(stack[u]) # 0 /\ DOMAIN stack[u] = 1 .. Len(stack[u])
  BY <1>1, EmptySeq, LenProperties
<1>3. \A i \in 1 .. Len(stack[u]) : stack[u][i] \in Frames
  BY <1>1, <1>2, ElementOfSeq
<1>4. Top(u) \in Frames
  BY <1>2, <1>3 DEF Top
<1>5. \A n \in Nat : n # 0 => n >= 1 /\ (n = 1 \/ n >= 2)
  OBVIOUS
<1> QED
  BY <1>1, <1>2, <1>3, <1>4, <1>5 DEF Frames

\* Going on to the next statement changes nothing but the last frame's next.
LEMMA AdvancedFrames ==
  ASSUME ResetPoolTypeOK, NEW u \in Users, stack[u] # <<>>
  PROVE  /\ Advanced(u) \in [Users -> Seq(Frames)]
         /\ \A v \in Users \ {u} : Advanced(u)[v] = stack[v]
         /\ Len(Advanced(u)[u]) = Len(stack[u])
         /\ \A i \in 1 .. Len(stack[u]) : Advanced(u)[u][i].obj = stack[u][i].obj
<1> DEFINE n == Len(stack[u])
           top == [stack[u][n] EXCEPT !.next = @ + 1]
           s == [stack[u] EXCEPT ![n] = top]
<1>1. /\ stack[u] \in Seq(Frames)
      /\ n \in 1 .. n /\ n \in Nat
      /\ DOMAIN stack[u] = 1 .. n
      /\ \A i \in 1 .. n : stack[u][i] \in Frames
  BY TopFrame
<1>2. top \in Frames /\ top.obj = stack[u][n].obj
  BY <1>1 DEF Frames
<1>3. s \in Seq(Frames) /\ Len(s) = n
  BY <1>1, <1>2, ExceptSeq
<1>4. \A i \in 1 .. n : s[i].obj = stack[u][i].obj
  BY <1>1, <1>2
<1>5. Advanced(u) = [stack EXCEPT ![u] = s]
  BY DEF Advanced
<1>6. stack \in [Users -> Seq(Frames)]
  BY DEF ResetPoolTypeOK
<1> HIDE DEF s, n
<1> QED
  BY <1>3, <1>4, <1>5, <1>6 DEF n

\* A return takes the last frame away.
LEMMA PoppedFrames ==
  ASSUME ResetPoolTypeOK, NEW u \in Users, stack[u] # <<>>
  PROVE  /\ Popped(u) \in [Users -> Seq(Frames)]
         /\ \A v \in Users \ {u} : Popped(u)[v] = stack[v]
         /\ Len(Popped(u)[u]) = Len(stack[u]) - 1
         /\ \A i \in 1 .. Len(stack[u]) - 1 : Popped(u)[u][i] = stack[u][i]
         /\ Popped(u)[u] = <<>> <=> Len(stack[u]) = 1
         /\ Popped(u)[u] # <<>> => Popped(u)[u][1] = stack[u][1]
<1> DEFINE n == Len(stack[u])
           s == SubSeq(stack[u], 1, n - 1)
<1>1. stack[u] \in Seq(Frames) /\ n \in Nat /\ n >= 1
  BY TopFrame
<1>2. s \in Seq(Frames) /\ Len(s) = n - 1 /\ \A i \in 1 .. n - 1 : s[i] = stack[u][i]
  BY <1>1, SubSeqProperties
<1>3. Popped(u) = [stack EXCEPT ![u] = s]
  BY DEF Popped
<1>4. stack \in [Users -> Seq(Frames)]
  BY DEF ResetPoolTypeOK
<1>5. s = <<>> <=> n = 1
  <2>1. s = <<>> <=> Len(s) = 0
    BY <1>2, EmptySeq
  <2> HIDE DEF n, s
  <2> QED
    BY <1>1, <1>2, <2>1
<1>6. s # <<>> => s[1] = stack[u][1]
  <2> HIDE DEF n, s
  <2> QED
    BY <1>1, <1>2, <1>5
<1> HIDE DEF s
<1> QED
  BY <1>2, <1>3, <1>4, <1>5, <1>6

\* A call puts a frame on top.
LEMMA CalledFrames ==
  ASSUME ResetPoolTypeOK, NEW u \in Users, stack[u] # <<>>, NEW frame \in Frames,
         stack' = [Advanced(u) EXCEPT ![u] = Append(@, frame)]
  PROVE  /\ stack' \in [Users -> Seq(Frames)]
         /\ \A v \in Users \ {u} : stack'[v] = stack[v]
         /\ Len(stack'[u]) = Len(stack[u]) + 1
         /\ \A i \in 1 .. Len(stack[u]) : stack'[u][i].obj = stack[u][i].obj
         /\ stack'[u][Len(stack[u]) + 1] = frame
<1>1. /\ Advanced(u) \in [Users -> Seq(Frames)]
      /\ \A v \in Users \ {u} : Advanced(u)[v] = stack[v]
      /\ Len(Advanced(u)[u]) = Len(stack[u])
      /\ \A i \in 1 .. Len(stack[u]) : Advanced(u)[u][i].obj = stack[u][i].obj
  BY AdvancedFrames
<1> DEFINE s == Append(Advanced(u)[u], frame)
<1>2. /\ s \in Seq(Frames)
      /\ Len(s) = Len(stack[u]) + 1
      /\ \A i \in 1 .. Len(stack[u]) : s[i] = Advanced(u)[u][i]
      /\ s[Len(stack[u]) + 1] = frame
  BY <1>1, AppendProperties
<1>3. stack' = [Advanced(u) EXCEPT ![u] = s]
  OBVIOUS
<1> HIDE DEF s
<1> QED
  BY <1>1, <1>2, <1>3

\* A frame at the bottom is that of the structure that is being put.
LEMMA Bottom ==
  ASSUME ResetPoolTypeOK, NEW u \in Users, stack[u] # <<>>
  PROVE  Returning(u) = {stack[u][1].obj} /\ stack[u][1].obj \in Objects
BY TopFrame DEF Returning, Frames

-----------------------------------------------------------------------------
LEMMA PoolInit == ResetPoolInit => PoolInv
<1> SUFFICES ASSUME ResetPoolInit PROVE PoolInv
  OBVIOUS
<1>1. \A u \in Users : stack[u] = <<>> /\ Returning(u) = {} /\ held[u] = {}
  BY DEF ResetPoolInit, Returning
<1>3. ResetPoolTypeOK
  <2>1. val = [o \in Objects |-> [f \in Fields(o) |-> val[o][f]]]
    BY DEF ResetPoolInit, Fresh
  <2>2. \A o \in Objects : \A f \in Fields(o) :
          val[o][f] \in IF IsLink(o, f) THEN Targets(o, f) ELSE {"zero", "used"}
    BY DEF ResetPoolInit, Fresh, Targets
  <2>3. stack \in [Users -> Seq(Frames)]
    BY EmptySeq DEF ResetPoolInit
  <2> QED
    BY <2>1, <2>2, <2>3 DEF ResetPoolInit, ResetPoolTypeOK
<1>4. PutWasMade /\ OneOwner
  BY <1>1 DEF ResetPoolInit, PutWasMade, OneOwner
<1>5. PutKeepsLinks
  BY <1>1 DEF PutKeepsLinks
<1> QED
  BY <1>3, <1>4, <1>5 DEF PoolInv

\* Who has nothing to do with stacks, fields and links leaves the links as they
\* were put.
LEMMA LinksStay ==
  ASSUME PoolInv, UNCHANGED <<val, stack, kept>>
  PROVE  PutKeepsLinks' /\ \A u \in Users : Returning(u)' = Returning(u)
<1>1. \A o : Links(o)' = Links(o)
  BY DEF Links
<1> QED
  BY <1>1 DEF PoolInv, PutKeepsLinks, Returning

LEMMA GetKeepsInv ==
  ASSUME PoolInv, NEW u \in Users, NEW o,
         GetPooled(u, o) \/ GetNew(u, o) \/ Allocate(u, o)
  PROVE  PoolInv'
<1>1. PutKeepsLinks' /\ \A v \in Users : Returning(v)' = Returning(v)
  BY LinksStay DEF GetPooled, GetNew, Allocate
<1>2. /\ held' = [held EXCEPT ![u] = @ \cup ({o} \ {Nil})]
      /\ got' = [got EXCEPT ![u] = {o}] \/ got' = [got EXCEPT ![u] = {}]
      /\ made \subseteq made'
      /\ pool' \subseteq pool
      /\ o \notin pool'
      /\ o \in made' \cup {Nil}
      /\ UNCHANGED <<struct, val, stack, nilPut, relinked, fatal>>
  BY ResetPoolAssumption DEF PoolInv, ResetPoolTypeOK, GetPooled, GetNew, Allocate, Hands
<1>3. made' \subseteq Objects
  BY DEF PoolInv, ResetPoolTypeOK, GetPooled, GetNew, Allocate
<1>4. ResetPoolTypeOK'
  <2>1. held \in [Users -> SUBSET made] /\ got \in [Users -> SUBSET (made \cup {Nil})]
    BY DEF PoolInv, ResetPoolTypeOK
  <2>2. held' \in [Users -> SUBSET made']
    BY <1>2, <2>1
  <2>3. got' \in [Users -> SUBSET (made' \cup {Nil})]
    <3>1. CASE got' = [got EXCEPT ![u] = {o}]
      BY <1>2, <2>1, <3>1
    <3>2. CASE got' = [got EXCEPT ![u] = {}]
      BY <1>2, <2>1, <3>2
    <3> QED
      BY <1>2, <3>1, <3>2
  <2> QED
    BY <1>2, <1>3, <2>2, <2>3 DEF PoolInv, ResetPoolTypeOK
<1>5. \A v \in Users : o # Nil => o \notin Returning(v) /\ o \notin held[v]
  BY DEF PoolInv, ResetPoolTypeOK, OneOwner, PutWasMade, GetPooled, GetNew, Allocate
<1>6. PutWasMade'
  BY <1>1, <1>2 DEF PoolInv, PutWasMade
<1>7. OneOwner'
  BY <1>1, <1>2, <1>5 DEF PoolInv, ResetPoolTypeOK, OneOwner
<1> QED
  BY <1>1, <1>4, <1>6, <1>7 DEF PoolInv

LEMMA NilKeepsInv ==
  ASSUME PoolInv, (\E u \in Users : PutNil(u)) \/ (\E o : Drop(o))
  PROVE  PoolInv'
<1>1. PutKeepsLinks' /\ \A v \in Users : Returning(v)' = Returning(v)
  BY LinksStay DEF PutNil, Drop
<1>2. pool' \subseteq pool \cup {Nil} /\ UNCHANGED <<struct, made, held, val, stack, fatal>>
  BY DEF PutNil, Drop
<1>3. ResetPoolTypeOK'
  BY <1>2 DEF PoolInv, ResetPoolTypeOK, PutNil, Drop
<1>4. \A v \in Users : Nil \notin held[v] \cup Returning(v)
  BY ResetPoolAssumption DEF PoolInv, ResetPoolTypeOK, PutWasMade
<1>5. PutWasMade' /\ OneOwner'
  BY <1>1, <1>2, <1>4 DEF PoolInv, PutWasMade, OneOwner
<1> QED
  BY <1>1, <1>3, <1>5 DEF PoolInv

\* Writing to a structure one holds, and setting its links: nobody is putting
\* it.
LEMMA WriteKeepsInv ==
  ASSUME PoolInv, NEW u \in Users, NEW o,
         Use(u, o) \/ (\E f \in Fields(o), c \in held[u] \cup {Nil} : Link(u, o, f, c))
  PROVE  PoolInv'
<1>1. /\ o \in held[u] /\ o \in Objects
      /\ got' = [got EXCEPT ![u] = {}]
      /\ UNCHANGED <<struct, pool, made, held, stack, nilPut, kept, fatal>>
  BY DEF PoolInv, ResetPoolTypeOK, Use, Link
<1>2. \A v \in Users : Returning(v)' = Returning(v)
  BY <1>1 DEF Returning
<1>3. \A p \in Objects : p # o => val'[p] = val[p] /\ Links(p)' = Links(p)
  <2>1. DOMAIN val = Objects
    BY DEF PoolInv, ResetPoolTypeOK
  <2>2. \A p \in Objects : p # o => val'[p] = val[p]
    BY <2>1 DEF Use, Link
  <2> QED
    BY <2>2 DEF Links
<1>4. ResetPoolTypeOK'
  <2>1. val[o] = [f \in Fields(o) |-> val[o][f]]
    BY <1>1 DEF PoolInv, ResetPoolTypeOK
  <2>2. \A f \in Fields(o) :
          val[o][f] \in IF IsLink(o, f) THEN Targets(o, f) ELSE {"zero", "used"}
    BY <1>1 DEF PoolInv, ResetPoolTypeOK
  <2>3. FieldsOK'
    <3>1. CASE Use(u, o)
      <4> DEFINE fields == [f \in Fields(o) |-> IF IsLink(o, f) THEN val[o][f] ELSE "used"]
      <4>1. val' = [val EXCEPT ![o] = fields]
        BY <3>1 DEF Use
      <4>2. /\ fields = [f \in Fields(o) |-> fields[f]]
            /\ \A f \in Fields(o) :
                 fields[f] \in IF IsLink(o, f) THEN Targets(o, f) ELSE {"zero", "used"}
        BY <2>2
      <4> HIDE DEF fields
      <4> QED
        BY <1>1, <4>1, <4>2, FieldsChange DEF PoolInv
    <3>2. CASE \E f \in Fields(o), c \in held[u] \cup {Nil} : Link(u, o, f, c)
      <4>1. PICK f \in Fields(o), c \in held[u] \cup {Nil} : Link(u, o, f, c)
        BY <3>2
      <4> DEFINE fields == [val[o] EXCEPT ![f] = c]
      <4>2. val' = [val EXCEPT ![o] = fields] /\ IsLink(o, f) /\ c \in Targets(o, f)
        BY <4>1 DEF Link
      <4>3. /\ fields = [g \in Fields(o) |-> fields[g]]
            /\ \A g \in Fields(o) : fields[g] = IF g = f THEN c ELSE val[o][g]
        BY <2>1
      <4>4. \A g \in Fields(o) :
              fields[g] \in IF IsLink(o, g) THEN Targets(o, g) ELSE {"zero", "used"}
        BY <2>2, <4>2, <4>3
      <4> HIDE DEF fields
      <4> QED
        BY <1>1, <4>2, <4>3, <4>4, FieldsChange DEF PoolInv
    <3> QED
      BY <3>1, <3>2
  <2>5. got' \in [Users -> SUBSET (made' \cup {Nil})]
    BY <1>1 DEF PoolInv, ResetPoolTypeOK
  <2>4. relinked' \subseteq Objects
    BY <1>1 DEF PoolInv, ResetPoolTypeOK, Use, Link
  <2> QED
    BY <1>1, <2>3, <2>4, <2>5 DEF PoolInv, ResetPoolTypeOK, FieldsOK
<1>5. PutWasMade' /\ OneOwner'
  BY <1>1, <1>2 DEF PoolInv, PutWasMade, OneOwner
<1>6. PutKeepsLinks'
  <2> SUFFICES ASSUME NEW v \in Users, stack[v] # <<>>
               PROVE  /\ \A f \in Links(stack[v][1].obj)' :
                           <<stack[v][1].obj, val'[stack[v][1].obj][f]>> \in kept
                      /\ Len(stack[v]) > 1 =>
                           <<stack[v][1].obj, stack[v][2].obj>> \in kept
    BY <1>1 DEF PutKeepsLinks
  <2> DEFINE p == stack[v][1].obj
  <2>1. p \in Objects /\ p # o
    BY <1>1, Bottom DEF PoolInv, OneOwner
  <2>2. val'[p] = val[p] /\ Links(p)' = Links(p)
    BY <1>1, <1>3, <2>1
  <2>3. /\ \A f \in Links(p) : <<p, val[p][f]>> \in kept
        /\ Len(stack[v]) > 1 => <<p, stack[v][2].obj>> \in kept
    BY DEF PoolInv, PutKeepsLinks
  <2> QED
    BY <1>1, <2>2, <2>3
<1> QED
  BY <1>4, <1>5, <1>6 DEF PoolInv

\* Put, before its Reset: the structure changes hands, and its links are noted.
LEMMA PutKeepsInv ==
  ASSUME PoolInv, NEW u \in Users, NEW o, Put(u, o)
  PROVE  PoolInv'
<1> DEFINE frame == [obj |-> o, next |-> 1]
<1>1. /\ o \in held[u] /\ o \in Objects /\ o \in made /\ Kind[o] = struct
      /\ stack[u] = <<>>
      /\ held' = [held EXCEPT ![u] = @ \ {o}]
      /\ got' = [got EXCEPT ![u] = {}]
      /\ stack' = [stack EXCEPT ![u] = <<frame>>]
      /\ kept' = kept \cup {<<o, val[o][f]>> : f \in Links(o)}
      /\ UNCHANGED <<struct, pool, made, val, nilPut, relinked, fatal>>
  BY DEF PoolInv, ResetPoolTypeOK, Put, Free
<1>2. <<frame>> \in Seq(Frames) /\ <<frame>> # <<>> /\ Len(<<frame>>) = 1 /\ <<frame>>[1] = frame
  BY <1>1 DEF Frames
<1>3. \A v \in Users : stack'[v] = IF v = u THEN <<frame>> ELSE stack[v]
  BY <1>1 DEF PoolInv, ResetPoolTypeOK
<1>4. \A v \in Users : Returning(v)' = IF v = u THEN {o} ELSE Returning(v)
  <2> TAKE v \in Users
  <2>1. CASE v = u
    <3>1. stack'[v] # <<>> /\ stack'[v][1].obj = o
      BY <1>2, <1>3, <2>1
    <3> QED
      BY <2>1, <3>1 DEF Returning
  <2>2. CASE v # u
    BY <1>3, <2>2 DEF Returning
  <2> QED
    BY <2>1, <2>2
<1>5. ResetPoolTypeOK'
  <2>1. /\ held' \in [Users -> SUBSET made]
        /\ got' \in [Users -> SUBSET (made \cup {Nil})]
        /\ stack' \in [Users -> Seq(Frames)]
    BY <1>1, <1>2 DEF PoolInv, ResetPoolTypeOK
  <2> QED
    BY <1>1, <2>1 DEF PoolInv, ResetPoolTypeOK, Frames
<1>6. PutWasMade'
  BY <1>1, <1>4 DEF PoolInv, PutWasMade
<1>7. OneOwner'
  BY <1>1, <1>4 DEF PoolInv, ResetPoolTypeOK, OneOwner, Returning
<1>8. PutKeepsLinks'
  <2>1. \A p : Links(p)' = Links(p)
    BY <1>1 DEF Links
  <2> QED
    BY <1>1, <1>2, <1>3, <2>1 DEF PoolInv, PutKeepsLinks
<1> QED
  BY <1>5, <1>6, <1>7, <1>8 DEF PoolInv

\* What the steps inside Put's Reset have in common: the structure at the bottom
\* stays, and the one above it was reached over a link the first still had.
InsideReset(u) ==
  /\ stack[u] # <<>>
  /\ UNCHANGED <<struct, pool, made, held, got, nilPut, kept, relinked>>
  /\ fatal' \in BOOLEAN
  /\ stack' \in [Users -> Seq(Frames)]
  /\ \A v \in Users \ {u} : stack'[v] = stack[v]
  /\ stack'[u] # <<>>
  /\ stack'[u][1].obj = stack[u][1].obj
  /\ Len(stack'[u]) > 1 => <<stack'[u][1].obj, stack'[u][2].obj>> \in kept
  /\ val' = [p \in Objects |-> [f \in Fields(p) |-> val'[p][f]]]
  /\ \A p \in Objects : \A f \in Fields(p) :
       val'[p][f] = val[p][f] \/ (~IsLink(p, f) /\ val'[p][f] = "zero")

LEMMA ResetKeepsInv ==
  ASSUME PoolInv, NEW u \in Users, InsideReset(u)
  PROVE  PoolInv'
<1> USE DEF InsideReset
<1>1. ResetPoolTypeOK'
  <2>1. \A p \in Objects : \A f \in Fields(p) :
          val'[p][f] \in IF IsLink(p, f) THEN Targets(p, f) ELSE {"zero", "used"}
    BY DEF PoolInv, ResetPoolTypeOK
  <2> QED
    BY <2>1 DEF PoolInv, ResetPoolTypeOK
<1>3. \A v \in Users : Returning(v)' = Returning(v)
  BY DEF Returning
<1>4. PutWasMade' /\ OneOwner'
  BY <1>3 DEF PoolInv, PutWasMade, OneOwner
<1>5. \A p \in Objects : Links(p)' = Links(p) /\ \A f \in Links(p) : val'[p][f] = val[p][f]
  BY DEF Links, IsLink
<1>6. PutKeepsLinks'
  <2> SUFFICES ASSUME NEW v \in Users, stack'[v] # <<>>
               PROVE  /\ \A f \in Links(stack[v][1].obj)' :
                           <<stack'[v][1].obj, val'[stack'[v][1].obj][f]>> \in kept
                      /\ Len(stack'[v]) > 1 =>
                           <<stack'[v][1].obj, stack'[v][2].obj>> \in kept
    BY DEF PutKeepsLinks
  <2> DEFINE p == stack[v][1].obj
  <2>1. stack[v] # <<>> /\ stack'[v][1].obj = p
    OBVIOUS
  <2>2. p \in Objects
    BY <2>1, Bottom DEF PoolInv
  <2>3. \A f \in Links(p) : <<p, val[p][f]>> \in kept
    BY <2>1 DEF PoolInv, PutKeepsLinks
  <2>4. Len(stack'[v]) > 1 => <<stack'[v][1].obj, stack'[v][2].obj>> \in kept
    BY <2>1 DEF PoolInv, PutKeepsLinks
  <2>5. \A f \in Links(stack[v][1].obj)' : f \in Links(p) /\ val'[p][f] = val[p][f]
    BY <1>5, <2>1, <2>2
  <2> QED
    BY <2>1, <2>3, <2>4, <2>5
<1> QED
  BY <1>1, <1>4, <1>6 DEF PoolInv

LEMMA FieldKeepsInv ==
  ASSUME PoolInv, NEW u \in Users, ResetField(u)
  PROVE  PoolInv'
<1> DEFINE o == Top(u).obj
           f == Step(u).field
           fields == [val[o] EXCEPT ![f] = "zero"]
<1>1. /\ stack[u] # <<>>
      /\ stack' = Advanced(u)
      /\ val' = val \/ (~IsLink(o, f) /\ val' = [val EXCEPT ![o] = fields])
      /\ UNCHANGED <<struct, pool, made, held, got, nilPut, kept, relinked, fatal>>
  BY DEF ResetField, Running
<1>2. /\ Len(stack[u]) \in Nat /\ Len(stack[u]) >= 1
      /\ o \in Objects
  BY <1>1, TopFrame DEF PoolInv
<1>3. /\ stack' \in [Users -> Seq(Frames)]
      /\ \A v \in Users \ {u} : stack'[v] = stack[v]
      /\ Len(stack'[u]) = Len(stack[u])
      /\ \A i \in 1 .. Len(stack[u]) : stack'[u][i].obj = stack[u][i].obj
  BY <1>1, AdvancedFrames DEF PoolInv
<1>4. stack'[u] # <<>> /\ stack'[u][1].obj = stack[u][1].obj
  <2>1. Len(stack'[u]) # 0
    BY <1>2, <1>3
  <2> QED
    BY <1>2, <1>3, <2>1, EmptySeq
<1>5. Len(stack'[u]) > 1 => <<stack'[u][1].obj, stack'[u][2].obj>> \in kept
  <2> SUFFICES ASSUME Len(stack[u]) > 1
               PROVE  <<stack'[u][1].obj, stack'[u][2].obj>> \in kept
    BY <1>3
  <2>1. stack'[u][2].obj = stack[u][2].obj
    BY <1>2, <1>3
  <2> QED
    BY <1>1, <1>4, <2>1 DEF PoolInv, PutKeepsLinks
<1>6. /\ val' = [p \in Objects |-> [g \in Fields(p) |-> val'[p][g]]]
      /\ \A p \in Objects : \A g \in Fields(p) :
           val'[p][g] = val[p][g] \/ (~IsLink(p, g) /\ val'[p][g] = "zero")
  <2>1. FieldsOK /\ val[o] = [g \in Fields(o) |-> val[o][g]]
    BY <1>2 DEF PoolInv, ResetPoolTypeOK, FieldsOK
  <2>2. CASE val' = val
    BY <2>1, <2>2 DEF FieldsOK
  <2>3. CASE ~IsLink(o, f) /\ val' = [val EXCEPT ![o] = fields]
    <3>1. /\ fields = [g \in Fields(o) |-> fields[g]]
          /\ \A g \in Fields(o) : fields[g] = IF g = f THEN "zero" ELSE val[o][g]
      BY <2>1
    <3>2. \A g \in Fields(o) :
            fields[g] \in IF IsLink(o, g) THEN Targets(o, g) ELSE {"zero", "used"}
      BY <1>2, <2>1, <2>3, <3>1 DEF FieldsOK
    <3> HIDE DEF fields, f, o
    <3>3. FieldsOK' /\ val'[o] = fields /\ \A p \in Objects \ {o} : val'[p] = val[p]
      BY <1>2, <2>3, <3>1, <3>2, FieldsChange DEF PoolInv
    <3>4. ASSUME NEW p \in Objects, NEW g \in Fields(p)
          PROVE  val'[p][g] = val[p][g] \/ (~IsLink(p, g) /\ val'[p][g] = "zero")
      BY <2>3, <3>1, <3>3
    <3> QED
      BY <3>3, <3>4 DEF FieldsOK
  <2> QED
    BY <1>1, <2>2, <2>3
<1>7. InsideReset(u)
  BY <1>1, <1>3, <1>4, <1>5, <1>6 DEF InsideReset, PoolInv, ResetPoolTypeOK
<1> QED
  BY <1>7, ResetKeepsInv

LEMMA LinkedKeepsInv ==
  ASSUME PoolInv, NEW u \in Users, ResetLinked(u)
  PROVE  PoolInv'
<1> DEFINE o == Top(u).obj
           f == Step(u).field
           frame == [obj |-> Called(u), next |-> 1]
<1>1. /\ stack[u] # <<>>
      /\ IsLink(o, f) /\ Called(u) # Nil /\ Called(u) = val[o][f]
      /\ fatal' = fatal \/ fatal' = TRUE
      /\ stack' = stack \/ stack' = [Advanced(u) EXCEPT ![u] = Append(@, frame)]
      /\ UNCHANGED <<struct, pool, made, held, val, got, nilPut, kept, relinked>>
  BY DEF ResetLinked, Running, Called
<1>2. /\ Len(stack[u]) \in Nat /\ Len(stack[u]) >= 1
      /\ Len(stack[u]) = 1 \/ Len(stack[u]) >= 2
      /\ o \in Objects
  BY <1>1, TopFrame DEF PoolInv
<1>3. f \in Links(o) /\ frame \in Frames /\ fatal' \in BOOLEAN
  BY <1>1, <1>2 DEF PoolInv, ResetPoolTypeOK, Links, IsLink, Targets, Frames
<1>4. /\ val' = [p \in Objects |-> [g \in Fields(p) |-> val'[p][g]]]
      /\ val' = val
  BY <1>1 DEF PoolInv, ResetPoolTypeOK
<1>5. CASE stack' = stack
  <2>1. stack' \in [Users -> Seq(Frames)]
    BY <1>5 DEF PoolInv, ResetPoolTypeOK
  <2>2. Len(stack'[u]) > 1 => <<stack'[u][1].obj, stack'[u][2].obj>> \in kept
    BY <1>1, <1>5 DEF PoolInv, PutKeepsLinks
  <2>3. InsideReset(u)
    BY <1>1, <1>3, <1>4, <1>5, <2>1, <2>2 DEF InsideReset
  <2> QED
    BY <2>3, ResetKeepsInv
<1>6. CASE stack' = [Advanced(u) EXCEPT ![u] = Append(@, frame)]
  <2> HIDE DEF frame
  <2>1. /\ stack' \in [Users -> Seq(Frames)]
        /\ \A v \in Users \ {u} : stack'[v] = stack[v]
        /\ Len(stack'[u]) = Len(stack[u]) + 1
        /\ \A i \in 1 .. Len(stack[u]) : stack'[u][i].obj = stack[u][i].obj
        /\ stack'[u][Len(stack[u]) + 1] = frame
    BY <1>1, <1>3, <1>6, CalledFrames DEF PoolInv
  <2>2. stack'[u] # <<>> /\ stack'[u][1].obj = stack[u][1].obj
    <3>1. Len(stack'[u]) # 0
      BY <1>2, <2>1
    <3> QED
      BY <1>2, <2>1, <3>1, EmptySeq
  <2>3. <<stack'[u][1].obj, stack'[u][2].obj>> \in kept
    <3>1. CASE Len(stack[u]) = 1
      <4>1. stack'[u][1].obj = o /\ stack'[u][2].obj = val[o][f]
        BY <1>1, <2>1, <2>2, <3>1 DEF Top, frame
      <4>2. <<o, val[o][f]>> \in kept
        BY <1>1, <1>3, <3>1 DEF PoolInv, PutKeepsLinks, Top
      <4> QED
        BY <4>1, <4>2
    <3>2. CASE Len(stack[u]) >= 2
      <4>1. stack'[u][2].obj = stack[u][2].obj /\ Len(stack[u]) > 1
        BY <1>2, <2>1, <3>2
      <4> QED
        BY <1>1, <2>2, <4>1 DEF PoolInv, PutKeepsLinks
    <3> QED
      BY <1>2, <3>1, <3>2
  <2>4. InsideReset(u)
    BY <1>1, <1>3, <1>4, <2>1, <2>2, <2>3 DEF InsideReset
  <2> QED
    BY <2>4, ResetKeepsInv
<1> QED
  BY <1>1, <1>5, <1>6

\* A Reset returns; the last one gives the structure to the pool.
LEMMA ReturnKeepsInv ==
  ASSUME PoolInv, NEW u \in Users, ResetReturns(u)
  PROVE  PoolInv'
<1> DEFINE n == Len(stack[u])
<1>1. /\ stack[u] # <<>>
      /\ stack' = Popped(u)
      /\ pool' = IF n = 1 THEN pool \cup {Top(u).obj} ELSE pool
      /\ UNCHANGED <<struct, made, held, val, got, nilPut, kept, fatal>>
  BY DEF ResetReturns, Ended
<1>2. n \in Nat /\ n >= 1 /\ Returning(u) = {stack[u][1].obj}
  BY <1>1, TopFrame, Bottom DEF PoolInv
<1>3. /\ stack' \in [Users -> Seq(Frames)]
      /\ \A v \in Users \ {u} : stack'[v] = stack[v]
      /\ Len(stack'[u]) = n - 1
      /\ \A i \in 1 .. n - 1 : stack'[u][i] = stack[u][i]
      /\ stack'[u] = <<>> <=> n = 1
      /\ stack'[u] # <<>> => stack'[u][1] = stack[u][1]
  BY <1>1, PoppedFrames DEF PoolInv
<1>4. \A v \in Users : Returning(v)' = IF v = u /\ n = 1 THEN {} ELSE Returning(v)
  <2> TAKE v \in Users
  <2>1. CASE v # u
    BY <1>3, <2>1 DEF Returning
  <2>2. CASE v = u
    BY <1>1, <1>3, <2>2 DEF Returning
  <2> QED
    BY <2>1, <2>2
<1>5. pool' = pool \cup (Returning(u) \ Returning(u)')
  BY <1>1, <1>2, <1>4 DEF Top
<1>6. ResetPoolTypeOK'
  <2>1. pool' \subseteq made \cup {Nil} /\ \A o \in pool' \ {Nil} : Kind[o] = struct
    BY <1>5 DEF PoolInv, ResetPoolTypeOK, PutWasMade
  <2>2. relinked' \subseteq Objects
    BY DEF PoolInv, ResetPoolTypeOK, ResetReturns
  <2> QED
    BY <1>1, <1>3, <2>1, <2>2 DEF PoolInv, ResetPoolTypeOK
<1>7. PutWasMade'
  BY <1>1, <1>4 DEF PoolInv, PutWasMade
<1>8. OneOwner'
  BY <1>1, <1>4, <1>5 DEF PoolInv, OneOwner
<1>9. PutKeepsLinks'
  <2>1. \A p : Links(p)' = Links(p)
    BY <1>1 DEF Links
  <2>2. stack'[u] # <<>> => n > 1 /\ stack'[u][1] = stack[u][1]
                                /\ (Len(stack'[u]) > 1 => stack'[u][2] = stack[u][2])
    BY <1>2, <1>3
  <2> QED
    BY <1>1, <1>2, <1>3, <2>1, <2>2 DEF PoolInv, PutKeepsLinks
<1> QED
  BY <1>6, <1>7, <1>8, <1>9 DEF PoolInv

LEMMA PoolNext == PoolInv /\ [ResetPoolNext]_resetPoolVars => PoolInv'
<1> SUFFICES ASSUME PoolInv, [ResetPoolNext]_resetPoolVars PROVE PoolInv'
  OBVIOUS
<1>1. ASSUME NEW u \in Users, NEW o, GetPooled(u, o) \/ GetNew(u, o) \/ Allocate(u, o)
      PROVE  PoolInv'
  BY <1>1, GetKeepsInv
<1>2. ASSUME NEW u \in Users, PutNil(u) PROVE PoolInv'
  BY <1>2, NilKeepsInv
<1>3. ASSUME NEW o \in pool, Drop(o) PROVE PoolInv'
  BY <1>3, NilKeepsInv
<1>4. ASSUME NEW u \in Users, NEW o, Use(u, o) PROVE PoolInv'
  BY <1>4, WriteKeepsInv
<1>5. ASSUME NEW u \in Users, NEW o,
             \E f \in Fields(o), c \in held[u] \cup {Nil} : Link(u, o, f, c)
      PROVE  PoolInv'
  BY <1>5, WriteKeepsInv
<1>6. ASSUME NEW u \in Users, NEW o, Put(u, o) PROVE PoolInv'
  BY <1>6, PutKeepsInv
<1>7. ASSUME NEW u \in Users, ResetField(u) PROVE PoolInv'
  BY <1>7, FieldKeepsInv
<1>8. ASSUME NEW u \in Users, ResetLinked(u) PROVE PoolInv'
  BY <1>8, LinkedKeepsInv
<1>9. ASSUME NEW u \in Users, ResetReturns(u) PROVE PoolInv'
  BY <1>9, ReturnKeepsInv
<1>10. CASE UNCHANGED resetPoolVars
  <2>1. PutKeepsLinks' /\ \A v \in Users : Returning(v)' = Returning(v)
    BY <1>10, LinksStay DEF resetPoolVars
  <2> QED
    BY <1>10, <2>1 DEF PoolInv, ResetPoolTypeOK, PutWasMade, OneOwner, resetPoolVars
<1> QED
  BY <1>1, <1>2, <1>3, <1>4, <1>5, <1>6, <1>7, <1>8, <1>9, <1>10 DEF ResetPoolNext, Rest

LEMMA PoolAlways == ResetPoolSpec => []PoolInv
  BY PoolInit, PoolNext, PTL DEF ResetPoolSpec

-----------------------------------------------------------------------------
\* What is in the pool was allocated, and a field holds data or a link as its type
\* says, for every package the generator compiles a Reset for.
THEOREM ResetTypeCorrect == ResetPoolSpec => []ResetPoolTypeOK
<1>1. PoolInv => ResetPoolTypeOK
  BY DEF PoolInv
<1> QED
  BY <1>1, PoolAlways, PTL

\* "Thread-safe" (pool/README.md:12): a structure is in one place, a goroutine's
\* hands, a Put or the pool, and with one goroutine only.
THEOREM OwnerCorrect == ResetPoolSpec => []OneOwner
<1>1. PoolInv => OneOwner
  BY DEF PoolInv
<1> QED
  BY <1>1, PoolAlways, PTL

\* A structure somebody holds changes by its holder's writes, or by the Reset of
\* another one that was put while it was still linked.
THEOREM LinkCorrect == ResetPoolSpec => OthersNeedLink
<1>1. PoolInv /\ [ResetPoolNext]_resetPoolVars => [HeldChanges]_resetPoolVars
  <2> SUFFICES ASSUME PoolInv, ResetPoolNext, NEW u \in Users, NEW o \in held[u],
                      val'[o] # val[o]
               PROVE  \/ stack[u] = <<>> /\ stack' = stack
                      \/ \E v \in Users :
                           /\ Len(stack[v]) > 1
                           /\ Top(v).obj = o
                           /\ <<stack[v][1].obj, stack[v][2].obj>> \in kept
    BY DEF HeldChanges
  <2>1. val' # val
    OBVIOUS
  <2>2. PICK v \in Users :
          \/ \E p \in Objects : Use(v, p)
          \/ \E p \in held[v], c \in held[v] \cup {Nil} : \E f \in Fields(p) : Link(v, p, f, c)
          \/ ResetField(v)
    BY <2>1 DEF ResetPoolNext, GetPooled, GetNew, Allocate, Put, PutNil, ResetLinked, ResetReturns,
                Drop, Rest, resetPoolVars
  <2>3. CASE \E p \in Objects : Use(v, p)
    <3>1. PICK p \in Objects : Use(v, p)
      BY <2>3
    <3>2. p = o /\ o \in held[v]
      BY <3>1 DEF Use, PoolInv, ResetPoolTypeOK
    <3>3. v = u
      BY <3>2 DEF PoolInv, OneOwner
    <3> QED
      BY <3>1, <3>3 DEF Use, Free
  <2>4. CASE \E p \in held[v], c \in held[v] \cup {Nil} : \E f \in Fields(p) : Link(v, p, f, c)
    <3>1. PICK p \in held[v], c \in held[v] \cup {Nil} : \E f \in Fields(p) : Link(v, p, f, c)
      BY <2>4
    <3>2. p = o
      BY <3>1 DEF Link, PoolInv, ResetPoolTypeOK
    <3>3. v = u
      BY <3>2 DEF PoolInv, OneOwner
    <3> QED
      BY <3>1, <3>3 DEF Link, Free
  <2>5. CASE ResetField(v)
    <3>1. stack[v] # <<>> /\ Top(v).obj = o
      BY <2>5 DEF ResetField, Running, PoolInv, ResetPoolTypeOK
    <3>2. Returning(v) = {stack[v][1].obj} /\ o \notin Returning(v)
      BY <3>1, Bottom DEF PoolInv, OneOwner
    <3>3. Len(stack[v]) # 1
      BY <3>1, <3>2 DEF Top
    <3>4. Len(stack[v]) \in Nat /\ Len(stack[v]) >= 2
      BY <3>1, <3>3, TopFrame DEF PoolInv
    <3>5. \A n \in Nat : n >= 2 => n > 1
      OBVIOUS
    <3>6. Len(stack[v]) > 1
      BY <3>4, <3>5
    <3>7. <<stack[v][1].obj, stack[v][2].obj>> \in kept
      BY <3>1, <3>6 DEF PoolInv, PutKeepsLinks
    <3> QED
      BY <3>1, <3>6, <3>7
  <2> QED
    BY <2>2, <2>3, <2>4, <2>5
<1> QED
  BY <1>1, PoolAlways, PTL DEF ResetPoolSpec, OthersNeedLink
-----------------------------------------------------------------------------
(***************************************************************************)
(* Why a Reset that does not end goes round in a circle.                   *)
(***************************************************************************)
LEMMA MadeIsFinite ==
  ASSUME ResetPoolTypeOK
  PROVE  IsFiniteSet(made) /\ Cardinality(made) \in Nat
BY ResetPoolAssumption, FS_Subset, FS_CardinalityType DEF ResetPoolTypeOK

LinksAsBefore(o) == \A f \in Fields(o) : IsLink(o, f) => val'[o][f] = val[o][f]

\* A statement that empties a field of data leaves the links.
LEMMA EmptyingLeavesLinks ==
  ASSUME ResetPoolTypeOK, NEW o \in Objects, NEW f, ~IsLink(o, f),
         val' = [val EXCEPT ![o][f] = "zero"]
  PROVE  \A p \in Objects : LinksAsBefore(p)
<1>1. DOMAIN val = Objects /\ val[o] = [g \in Fields(o) |-> val[o][g]]
  BY DEF ResetPoolTypeOK
<1> DEFINE fields == [val[o] EXCEPT ![f] = "zero"]
<1>2. \A g \in Fields(o) : g # f => fields[g] = val[o][g]
  BY <1>1
<1>3. val' = [val EXCEPT ![o] = fields]
  OBVIOUS
<1> HIDE DEF fields
<1>4. val'[o] = fields /\ \A p \in Objects \ {o} : val'[p] = val[p]
  BY <1>1, <1>3
<1> QED
  BY <1>2, <1>4 DEF LinksAsBefore

\* A call stays explained by its link, or by the structure having been relinked.
LEMMA CallStays ==
  ASSUME StacksFollow,
         NEW v \in Users, NEW k \in 1 .. Len(stack[v]) - 1,
         stack'[v][k].obj = stack[v][k].obj,
         stack'[v][k + 1].obj = stack[v][k + 1].obj,
         stack[v][k].obj \in relinked => stack[v][k].obj \in relinked',
         \/ stack[v][k].obj \in relinked'
         \/ LinksAsBefore(stack[v][k].obj)
  PROVE  Follows(stack[v], k)' \/ stack'[v][k].obj \in relinked'
<1>1. PICK p, q : /\ p = stack[v][k].obj /\ q = stack[v][k + 1].obj
                  /\ p = stack'[v][k].obj /\ q = stack'[v][k + 1].obj
  OBVIOUS
<1>2. Follows(stack[v], k) \/ p \in relinked
  BY <1>1 DEF StacksFollow
<1>3. CASE p \in relinked'
  BY <1>1, <1>3
<1>4. CASE p \notin relinked'
  <2>1. \A f \in Fields(p) : IsLink(p, f) => val'[p][f] = val[p][f]
    BY <1>1, <1>4 DEF LinksAsBefore
  <2>2. PICK f \in Fields(p) : IsLink(p, f) /\ val[p][f] # Nil /\ val[p][f] = q
    BY <1>1, <1>2, <1>4 DEF Follows, Links
  <2>3. IsLink(p, f) /\ val'[p][f] # Nil /\ val'[p][f] = q
    BY <2>1, <2>2
  <2> QED
    BY <1>1, <2>3 DEF Follows, Links
<1> QED
  BY <1>3, <1>4

\* Who changes no links and no stacks leaves the calls as they are.
LEMMA WalkStays ==
  ASSUME WalkInv, UNCHANGED <<stack, fatal>>, relinked \subseteq relinked',
         fatal => made' = made,
         \A v \in Users : \A k \in 1 .. Len(stack[v]) - 1 :
           \/ stack[v][k].obj \in relinked'
           \/ LinksAsBefore(stack[v][k].obj)
  PROVE  WalkInv'
<1>1. StacksFollow'
  <2> SUFFICES ASSUME NEW v \in Users, NEW k \in 1 .. Len(stack[v]) - 1
               PROVE  Follows(stack[v], k)' \/ stack'[v][k].obj \in relinked'
    BY DEF StacksFollow
  <2> QED
    BY CallStays DEF WalkInv
<1>2. FatalStack'
  BY DEF WalkInv, FatalStack
<1> QED
  BY <1>1, <1>2 DEF WalkInv

\* What is linked and called was allocated, since links are set to what is held.
LEMMA MadeNext == PoolInv /\ MadeInv /\ [ResetPoolNext]_resetPoolVars => MadeInv'
<1> SUFFICES ASSUME PoolInv, MadeInv, [ResetPoolNext]_resetPoolVars PROVE MadeInv'
  OBVIOUS
<1>1. /\ DOMAIN val = Objects /\ made \subseteq Objects
      /\ stack \in [Users -> Seq(Frames)] /\ held \in [Users -> SUBSET made]
  BY DEF PoolInv, ResetPoolTypeOK
<1>2. ASSUME made \subseteq made', \A o \in Objects : LinksAsBefore(o),
             \A u \in Users : \A i \in 1 .. Len(stack'[u]) :
               \/ i \in 1 .. Len(stack[u]) /\ stack'[u][i].obj = stack[u][i].obj
               \/ stack'[u][i].obj \in made
      PROVE  MadeInv'
  <2>1. LinksMade'
    BY <1>2 DEF MadeInv, LinksMade, Links, LinksAsBefore
  <2>2. StacksMade'
    BY <1>2 DEF MadeInv, StacksMade
  <2> QED
    BY <2>1, <2>2 DEF MadeInv
<1>3. ASSUME made \subseteq made', UNCHANGED <<val, stack>> PROVE MadeInv'
  BY <1>2, <1>3 DEF LinksAsBefore
<1>4. ASSUME NEW u \in Users, NEW o, GetPooled(u, o) \/ GetNew(u, o) \/ Allocate(u, o) \/ PutNil(u)
      PROVE  MadeInv'
  BY <1>3, <1>4 DEF GetPooled, GetNew, Allocate, PutNil
<1>5. ASSUME NEW o, Drop(o) PROVE MadeInv'
  BY <1>3, <1>5 DEF Drop
<1>6. ASSUME NEW u \in Users, NEW o \in Objects, Use(u, o) PROVE MadeInv'
  <2>1. \A p \in Objects : LinksAsBefore(p)
    BY <1>1, <1>6 DEF Use, LinksAsBefore
  <2> QED
    BY <1>2, <1>6, <2>1 DEF Use
<1>7. ASSUME NEW u \in Users, NEW o \in held[u], NEW c \in held[u] \cup {Nil},
             NEW f \in Fields(o), Link(u, o, f, c)
      PROVE  MadeInv'
  <2>1. o \in Objects /\ c \in made \cup {Nil} /\ UNCHANGED <<made, stack>>
    BY <1>1, <1>7 DEF Link
  <2>2. \A p \in Objects : \A g : val'[p][g] = val[p][g] \/ (val'[p][g] = c)
    BY <1>1, <1>7, <2>1 DEF Link
  <2>3. LinksMade'
    BY <2>1, <2>2 DEF MadeInv, LinksMade, Links
  <2>4. StacksMade'
    BY <2>1 DEF MadeInv, StacksMade
  <2> QED
    BY <2>3, <2>4 DEF MadeInv
<1>8. ASSUME NEW u \in Users, NEW o \in Objects, Put(u, o) PROVE MadeInv'
  <2> DEFINE frame == [obj |-> o, next |-> 1]
  <2>1. /\ stack' = [stack EXCEPT ![u] = <<frame>>] /\ o \in made
        /\ UNCHANGED <<made, val>>
    BY <1>1, <1>8 DEF Put
  <2>2. Len(<<frame>>) = 1 /\ <<frame>>[1] = frame
    OBVIOUS
  <2>3. \A v \in Users : stack'[v] = IF v = u THEN <<frame>> ELSE stack[v]
    BY <1>1, <2>1
  <2> QED
    BY <1>2, <2>1, <2>2, <2>3 DEF LinksAsBefore
<1>9. ASSUME NEW u \in Users, ResetField(u) PROVE MadeInv'
  <2> DEFINE o == Top(u).obj
             f == Step(u).field
  <2>1. /\ stack[u] # <<>> /\ stack' = Advanced(u) /\ UNCHANGED made
        /\ val' = val \/ (~IsLink(o, f) /\ val' = [val EXCEPT ![o][f] = "zero"])
    BY <1>9 DEF ResetField, Running
  <2>2. o \in Objects
    BY <2>1, TopFrame DEF PoolInv
  <2>3. \A p \in Objects : LinksAsBefore(p)
    <3>1. CASE val' = val
      BY <3>1 DEF LinksAsBefore
    <3>2. CASE ~IsLink(o, f) /\ val' = [val EXCEPT ![o][f] = "zero"]
      BY <2>2, <3>2, EmptyingLeavesLinks DEF PoolInv
    <3> QED
      BY <2>1, <3>1, <3>2
  <2>4. ASSUME NEW v \in Users, NEW i \in 1 .. Len(stack'[v])
        PROVE  i \in 1 .. Len(stack[v]) /\ stack'[v][i].obj = stack[v][i].obj
    <3>1. /\ \A w \in Users \ {u} : stack'[w] = stack[w]
          /\ Len(stack'[u]) = Len(stack[u])
          /\ \A k \in 1 .. Len(stack[u]) : stack'[u][k].obj = stack[u][k].obj
      BY <2>1, AdvancedFrames DEF PoolInv
    <3> QED
      BY <3>1
  <2> QED
    BY <1>2, <2>1, <2>3, <2>4
<1>10. ASSUME NEW u \in Users, ResetLinked(u) PROVE MadeInv'
  <2> DEFINE frame == [obj |-> Called(u), next |-> 1]
  <2>1. /\ stack[u] # <<>> /\ UNCHANGED <<made, val>>
        /\ stack' = stack \/ stack' = [Advanced(u) EXCEPT ![u] = Append(@, frame)]
        /\ IsLink(Top(u).obj, Step(u).field) /\ Called(u) # Nil
    BY <1>10 DEF ResetLinked, Running
  <2>2. Top(u).obj \in Objects /\ Len(stack[u]) \in Nat
    BY <2>1, TopFrame DEF PoolInv
  <2>3. Called(u) \in made
    BY <2>1, <2>2 DEF MadeInv, LinksMade, Links, Called, IsLink
  <2>4. frame \in Frames
    BY <1>1, <2>3 DEF Frames
  <2>5. CASE stack' = stack
    BY <1>3, <2>1, <2>5
  <2>6. CASE stack' = [Advanced(u) EXCEPT ![u] = Append(@, frame)]
    <3> DEFINE n == Len(stack[u])
    <3> HIDE DEF frame
    <3>1. /\ \A v \in Users \ {u} : stack'[v] = stack[v]
          /\ Len(stack'[u]) = n + 1
          /\ \A i \in 1 .. n : stack'[u][i].obj = stack[u][i].obj
          /\ stack'[u][n + 1] = frame
      BY <2>1, <2>4, <2>6, CalledFrames DEF PoolInv
    <3>2. frame.obj \in made
      BY <2>3 DEF frame
    <3>3. n \in Nat
      BY <2>2
    <3> HIDE DEF n
    <3>4. \A i \in 1 .. n + 1 : i \in 1 .. n \/ i = n + 1
      BY <3>3
    <3> QED
      BY <1>2, <2>1, <3>1, <3>2, <3>4 DEF LinksAsBefore, n
  <2> QED
    BY <2>1, <2>5, <2>6
<1>11. ASSUME NEW u \in Users, ResetReturns(u) PROVE MadeInv'
  <2> DEFINE n == Len(stack[u])
  <2>1. stack[u] # <<>> /\ stack' = Popped(u) /\ UNCHANGED <<made, val>>
    BY <1>11 DEF ResetReturns, Ended
  <2>2. /\ \A v \in Users \ {u} : stack'[v] = stack[v]
        /\ Len(stack'[u]) = n - 1 /\ n \in Nat
        /\ \A i \in 1 .. n - 1 : stack'[u][i] = stack[u][i]
    BY <2>1, PoppedFrames, TopFrame DEF PoolInv
  <2> HIDE DEF n
  <2>3. 1 .. n - 1 \subseteq 1 .. n
    BY <2>2
  <2> QED
    BY <1>2, <2>1, <2>2, <2>3 DEF LinksAsBefore, n
<1>12. CASE UNCHANGED resetPoolVars
  BY <1>3, <1>12 DEF resetPoolVars
<1> QED
  BY <1>4, <1>5, <1>6, <1>7, <1>8, <1>9, <1>10, <1>11, <1>12 DEF ResetPoolNext, Rest

LEMMA MadeAlways == ResetPoolSpec => []MadeInv
<1>1. ResetPoolInit => MadeInv
  <2> SUFFICES ASSUME ResetPoolInit PROVE MadeInv
    OBVIOUS
  <2>1. \A u \in Users : 1 .. Len(stack[u]) = {}
    BY DEF ResetPoolInit
  <2>2. \A o \in Objects : Links(o) = {}
    BY DEF ResetPoolInit, Fresh, Links
  <2> QED
    BY <2>1, <2>2 DEF MadeInv, StacksMade, LinksMade
<1> QED
  BY <1>1, MadeNext, PoolAlways, PTL DEF ResetPoolSpec

LEMMA WriteKeepsWalk ==
  ASSUME PoolInv, WalkInv, NEW u \in Users, NEW o,
         Use(u, o) \/ (\E f \in Fields(o), c \in held[u] \cup {Nil} : Link(u, o, f, c))
  PROVE  WalkInv'
<1>1. o \in Objects /\ UNCHANGED <<stack, made, fatal>> /\ relinked \subseteq relinked'
  BY DEF PoolInv, ResetPoolTypeOK, Use, Link
<1>2. DOMAIN val = Objects
  BY DEF PoolInv, ResetPoolTypeOK
<1>3. ASSUME NEW v \in Users, NEW k \in 1 .. Len(stack[v]) - 1
      PROVE  \/ stack[v][k].obj \in relinked'
             \/ LinksAsBefore(stack[v][k].obj)
  <2>1. stack[v] \in Seq(Frames)
    BY DEF PoolInv, ResetPoolTypeOK
  <2>2. k \in DOMAIN stack[v] /\ stack[v][k] \in Frames
    BY <2>1, LenProperties, ElementOfSeq
  <2>3. PICK p \in Objects : p = stack[v][k].obj
    BY <2>2 DEF Frames
  <2>4. p \in Entered
    BY <2>2, <2>3 DEF Entered
  <2>5. CASE Use(u, o)
    <3>1. \A f \in Fields(p) : IsLink(p, f) => val'[p][f] = val[p][f]
      BY <1>1, <1>2, <2>5 DEF Use
    <3> QED
      BY <2>3, <3>1 DEF LinksAsBefore
  <2>6. CASE \E f \in Fields(o), c \in held[u] \cup {Nil} : Link(u, o, f, c)
    <3>1. p = o => p \in relinked'
      BY <2>4, <2>6 DEF Link
    <3>2. p # o => val'[p] = val[p]
      BY <1>1, <1>2, <2>6 DEF Link
    <3> QED
      BY <2>3, <3>1, <3>2 DEF LinksAsBefore
  <2> QED
    BY <2>5, <2>6
<1> QED
  BY <1>1, <1>3, WalkStays

LEMMA PutKeepsWalk ==
  ASSUME PoolInv, WalkInv, NEW u \in Users, NEW o, Put(u, o)
  PROVE  WalkInv'
<1> DEFINE frame == [obj |-> o, next |-> 1]
<1>1. /\ stack' = [stack EXCEPT ![u] = <<frame>>]
      /\ UNCHANGED <<made, val, relinked, fatal>>
      /\ ~fatal
  BY DEF Put, Free
<1>2. stack \in [Users -> Seq(Frames)]
  BY DEF PoolInv, ResetPoolTypeOK
<1>3. ASSUME NEW v \in Users, NEW k \in 1 .. Len(stack'[v]) - 1
      PROVE  Follows(stack[v], k)' \/ stack'[v][k].obj \in relinked'
  <2>1. v # u
    <3>1. Len(<<frame>>) = 1 /\ 1 .. 1 - 1 = {}
      OBVIOUS
    <3>2. v = u => stack'[v] = <<frame>>
      BY <1>1, <1>2
    <3> QED
      BY <3>1, <3>2
  <2>2. stack'[v] = stack[v]
    BY <1>1, <1>2, <2>1
  <2> QED
    BY <1>1, <2>2, CallStays DEF WalkInv, LinksAsBefore
<1>4. StacksFollow'
  BY <1>3 DEF StacksFollow
<1> QED
  BY <1>1, <1>4 DEF WalkInv, FatalStack

LEMMA FieldKeepsWalk ==
  ASSUME PoolInv, WalkInv, NEW u \in Users, ResetField(u)
  PROVE  WalkInv'
<1> DEFINE o == Top(u).obj
<1>1. /\ stack[u] # <<>>
      /\ stack' = Advanced(u)
      /\ \/ val' = val
         \/ ~IsLink(o, Step(u).field) /\ val' = [val EXCEPT ![o][Step(u).field] = "zero"]
      /\ UNCHANGED <<made, relinked, fatal>>
      /\ ~fatal
  BY DEF ResetField, Running
<1>2. /\ \A v \in Users \ {u} : stack'[v] = stack[v]
      /\ Len(stack'[u]) = Len(stack[u])
      /\ \A i \in 1 .. Len(stack[u]) : stack'[u][i].obj = stack[u][i].obj
  BY <1>1, AdvancedFrames DEF PoolInv
<1>3. \A p \in Objects : LinksAsBefore(p)
  <2>1. o \in Objects
    BY <1>1, TopFrame DEF PoolInv
  <2>2. CASE val' = val
    BY <2>2 DEF LinksAsBefore
  <2>3. CASE ~IsLink(o, Step(u).field) /\ val' = [val EXCEPT ![o][Step(u).field] = "zero"]
    BY <2>1, <2>3, EmptyingLeavesLinks DEF PoolInv
  <2> QED
    BY <1>1, <2>2, <2>3
<1>4. ASSUME NEW v \in Users, NEW k \in 1 .. Len(stack'[v]) - 1
      PROVE  Follows(stack[v], k)' \/ stack'[v][k].obj \in relinked'
  <2>1. stack[v] \in Seq(Frames) /\ Len(stack[v]) \in Nat /\ Len(stack'[v]) = Len(stack[v])
    BY <1>2, LenProperties DEF PoolInv, ResetPoolTypeOK
  <2>2. k \in 1 .. Len(stack[v]) - 1 /\ k \in 1 .. Len(stack[v]) /\ k + 1 \in 1 .. Len(stack[v])
    <3> DEFINE n == Len(stack[v])
    <3>1. k \in 1 .. n - 1 /\ n \in Nat
      BY <2>1
    <3> HIDE DEF n
    <3>2. k \in 1 .. n /\ k + 1 \in 1 .. n
      BY <3>1
    <3> QED
      BY <3>1, <3>2 DEF n
  <2>3. stack'[v][k].obj = stack[v][k].obj /\ stack'[v][k + 1].obj = stack[v][k + 1].obj
    BY <1>2, <2>2
  <2>4. stack[v][k].obj \in Objects
    <3>1. stack[v][k] \in Frames
      BY <2>1, <2>2, ElementOfSeq
    <3> QED
      BY <3>1 DEF Frames
  <2> QED
    BY <1>1, <1>3, <2>2, <2>3, <2>4, CallStays DEF WalkInv
<1>5. StacksFollow'
  BY <1>4 DEF StacksFollow
<1> QED
  BY <1>1, <1>5 DEF WalkInv, FatalStack

LEMMA LinkedKeepsWalk ==
  ASSUME PoolInv, MadeInv, WalkInv, NEW u \in Users, ResetLinked(u)
  PROVE  WalkInv'
<1> DEFINE o == Top(u).obj
           f == Step(u).field
           frame == [obj |-> Called(u), next |-> 1]
           n == Len(stack[u])
<1>1. /\ stack[u] # <<>>
      /\ IsLink(o, f) /\ Called(u) # Nil /\ Called(u) = val[o][f]
      /\ UNCHANGED <<made, val, relinked>>
      /\ ~fatal
  BY DEF ResetLinked, Running, Called
<1>2. /\ n \in Nat /\ n >= 1 /\ o \in Objects /\ o = stack[u][n].obj
      /\ \A v \in Users : Len(stack[v]) \in Nat
  BY <1>1, TopFrame, LenProperties DEF PoolInv, ResetPoolTypeOK, Top
<1>3. CASE n <= Cardinality(made)
  <2>1. /\ stack' = [Advanced(u) EXCEPT ![u] = Append(@, frame)]
        /\ UNCHANGED fatal
    BY <1>3 DEF ResetLinked
  <2>2. frame \in Frames
    BY <1>1, <1>2 DEF PoolInv, ResetPoolTypeOK, IsLink, Targets, Frames
  <2> HIDE DEF frame
  <2>3. /\ \A v \in Users \ {u} : stack'[v] = stack[v]
        /\ Len(stack'[u]) = n + 1
        /\ \A i \in 1 .. n : stack'[u][i].obj = stack[u][i].obj
        /\ stack'[u][n + 1] = frame
    BY <1>1, <2>1, <2>2, CalledFrames DEF PoolInv
  <2> HIDE DEF n
  <2>4. ASSUME NEW v \in Users, NEW k \in 1 .. Len(stack'[v]) - 1
        PROVE  Follows(stack[v], k)' \/ stack'[v][k].obj \in relinked'
    <3>1. CASE v = u /\ k = n
      <4>1. stack'[v][k].obj = o /\ stack'[v][k + 1].obj = val[o][f]
        BY <1>1, <1>2, <2>3, <3>1 DEF frame
      <4>2. PICK p, g : p = o /\ g = f
        OBVIOUS
      <4>3. /\ stack'[v][k].obj = p /\ stack'[v][k + 1].obj = val[p][g]
            /\ IsLink(p, g) /\ val[p][g] # Nil
        BY <1>1, <4>1, <4>2
      <4>4. /\ g \in Fields(p) /\ IsLink(p, g)
            /\ val'[p][g] # Nil /\ val'[p][g] = stack'[v][k + 1].obj
        BY <1>1, <4>3 DEF IsLink
      <4> QED
        BY <4>3, <4>4 DEF Follows, Links
    <3>2. CASE ~(v = u /\ k = n)
      <4>1. /\ k \in 1 .. Len(stack[v]) - 1
            /\ stack'[v][k].obj = stack[v][k].obj /\ stack'[v][k + 1].obj = stack[v][k + 1].obj
        <5>1. CASE v # u
          BY <2>3, <5>1
        <5>2. CASE v = u
          <6>1. k \in 1 .. n /\ k # n
            BY <1>2, <2>3, <3>2, <5>2
          <6>2. k \in 1 .. n - 1 /\ k \in 1 .. n /\ k + 1 \in 1 .. n
            BY <1>2, <6>1
          <6> QED
            BY <2>3, <5>2, <6>2 DEF n
        <5> QED
          BY <5>1, <5>2
      <4> QED
        BY <1>1, <4>1, CallStays DEF WalkInv, LinksAsBefore
    <3> QED
      BY <3>1, <3>2
  <2>5. StacksFollow'
    BY <2>4 DEF StacksFollow
  <2> QED
    BY <1>1, <2>1, <2>5 DEF WalkInv, FatalStack
<1>4. CASE ~(n <= Cardinality(made))
  <2>1. fatal' = TRUE /\ UNCHANGED stack
    BY <1>4 DEF ResetLinked
  <2>2. n > Cardinality(made)
    <3>1. Cardinality(made) \in Nat
      BY MadeIsFinite DEF PoolInv
    <3> HIDE DEF n
    <3> QED
      BY <1>2, <1>4, <3>1
  <2>3. FatalStack'
    BY <1>1, <2>1, <2>2 DEF FatalStack
  <2>4. StacksFollow'
    <3> SUFFICES ASSUME NEW v \in Users, NEW k \in 1 .. Len(stack[v]) - 1
                 PROVE  Follows(stack[v], k)' \/ stack'[v][k].obj \in relinked'
      BY <2>1 DEF StacksFollow
    <3> QED
      BY <1>1, <2>1, CallStays DEF WalkInv, LinksAsBefore
  <2> QED
    BY <2>3, <2>4 DEF WalkInv
<1> QED
  BY <1>3, <1>4

LEMMA ReturnKeepsWalk ==
  ASSUME PoolInv, WalkInv, NEW u \in Users, ResetReturns(u)
  PROVE  WalkInv'
<1>1. /\ stack[u] # <<>>
      /\ stack' = Popped(u)
      /\ relinked' = relinked \cap Entered'
      /\ UNCHANGED <<made, val, fatal>>
      /\ ~fatal
  BY DEF ResetReturns, Ended
<1>2. /\ stack' \in [Users -> Seq(Frames)]
      /\ \A v \in Users \ {u} : stack'[v] = stack[v]
      /\ Len(stack'[u]) = Len(stack[u]) - 1
      /\ \A i \in 1 .. Len(stack[u]) - 1 : stack'[u][i] = stack[u][i]
  BY <1>1, PoppedFrames DEF PoolInv
<1>3. ASSUME NEW v \in Users, NEW k \in 1 .. Len(stack'[v]) - 1
      PROVE  Follows(stack[v], k)' \/ stack'[v][k].obj \in relinked'
  <2>1. /\ k \in 1 .. Len(stack[v]) - 1
        /\ stack'[v][k] = stack[v][k] /\ stack'[v][k + 1] = stack[v][k + 1]
    <3>1. CASE v # u
      BY <1>2, <3>1
    <3>2. CASE v = u
      <4> DEFINE n == Len(stack[u])
      <4>1. n \in Nat /\ k \in 1 .. (n - 1) - 1
        BY <1>1, <1>2, <3>2, TopFrame DEF PoolInv
      <4> HIDE DEF n
      <4>2. k \in 1 .. n - 1 /\ k + 1 \in 1 .. n - 1
        BY <4>1
      <4> QED
        BY <1>2, <3>2, <4>2 DEF n
    <3> QED
      BY <3>1, <3>2
  <2>2. k \in DOMAIN stack'[v]
    <3> DEFINE n == Len(stack'[v])
    <3>1. n \in Nat /\ DOMAIN stack'[v] = 1 .. n /\ k \in 1 .. n - 1
      BY <1>2, LenProperties
    <3> HIDE DEF n
    <3> QED
      BY <3>1
  <2>3. stack'[v][k].obj \in Entered'
    BY <2>2 DEF Entered
  <2>4. stack[v][k].obj \in relinked => stack[v][k].obj \in relinked'
    BY <1>1, <2>1, <2>3
  <2> QED
    BY <1>1, <2>1, <2>4, CallStays DEF WalkInv, LinksAsBefore
<1>4. StacksFollow'
  BY <1>3 DEF StacksFollow
<1> QED
  BY <1>1, <1>4 DEF WalkInv, FatalStack

LEMMA WalkInit == ResetPoolInit => WalkInv
<1> SUFFICES ASSUME ResetPoolInit PROVE WalkInv
  OBVIOUS
<1>1. \A v \in Users : Len(stack[v]) = 0
  BY DEF ResetPoolInit
<1>2. 1 .. 0 - 1 = {}
  OBVIOUS
<1>3. StacksFollow
  BY <1>1, <1>2 DEF StacksFollow
<1> QED
  BY <1>3 DEF ResetPoolInit, WalkInv, FatalStack

LEMMA WalkNext == PoolInv /\ MadeInv /\ WalkInv /\ [ResetPoolNext]_resetPoolVars => WalkInv'
<1> SUFFICES ASSUME PoolInv, MadeInv, WalkInv, [ResetPoolNext]_resetPoolVars PROVE WalkInv'
  OBVIOUS
<1>1. ASSUME UNCHANGED <<stack, val, relinked, fatal>>, fatal => made' = made PROVE WalkInv'
  BY <1>1, WalkStays DEF LinksAsBefore
<1>2. ASSUME NEW u \in Users, NEW o,
             GetPooled(u, o) \/ GetNew(u, o) \/ Allocate(u, o) \/ PutNil(u)
      PROVE  WalkInv'
  BY <1>1, <1>2 DEF GetPooled, GetNew, Allocate, PutNil, Free
<1>3. ASSUME NEW o, Drop(o) PROVE WalkInv'
  BY <1>1, <1>3 DEF Drop
<1>4. ASSUME NEW u \in Users, NEW o,
             Use(u, o) \/ (\E f \in Fields(o), c \in held[u] \cup {Nil} : Link(u, o, f, c))
      PROVE  WalkInv'
  BY <1>4, WriteKeepsWalk
<1>5. CASE UNCHANGED resetPoolVars
  BY <1>1, <1>5 DEF resetPoolVars
<1> QED
  BY <1>2, <1>3, <1>4, <1>5, PutKeepsWalk, FieldKeepsWalk, LinkedKeepsWalk, ReturnKeepsWalk
  DEF ResetPoolNext, Rest

LEMMA WalkAlways == ResetPoolSpec => []WalkInv
  BY WalkInit, WalkNext, PoolAlways, MadeAlways, PTL DEF ResetPoolSpec

\* A Reset that does not end has come back to a structure it is in, over links
\* that are still there, or that were set while it ran.
THEOREM FatalCorrect == ResetPoolSpec => []FatalNeedsCircle
<1>1. PoolInv /\ MadeInv /\ WalkInv => FatalNeedsCircle
  <2> SUFFICES ASSUME PoolInv, MadeInv, WalkInv, fatal PROVE FatalNeedsCircle
    BY DEF FatalNeedsCircle
  <2>1. PICK u \in Users : Len(stack[u]) > Cardinality(made)
    BY DEF WalkInv, FatalStack
  <2> DEFINE n == Len(stack[u])
             f == [i \in 1 .. n |-> stack[u][i].obj]
  <2>2. stack[u] \in Seq(Frames) /\ n \in Nat /\ DOMAIN stack[u] = 1 .. n
    BY LenProperties DEF PoolInv, ResetPoolTypeOK
  <2>3. \A i \in 1 .. n : stack[u][i].obj \in made
    BY DEF MadeInv, StacksMade
  <2>4. /\ IsFiniteSet(1 .. n) /\ Cardinality(1 .. n) = n
        /\ Cardinality(made) \in Nat
    <3>1. Cardinality(1 .. n) = IF 1 > n THEN 0 ELSE n - 1 + 1
      BY <2>2, FS_Interval, SMTT(40)
    <3>2. Cardinality(made) \in Nat
      BY MadeIsFinite DEF PoolInv
    <3>3. IsFiniteSet(1 .. n)
      BY <2>2, FS_Interval
    <3> HIDE DEF n
    <3> QED
      BY <2>2, <3>1, <3>2, <3>3
  <2>5. Cardinality(made) < Cardinality(1 .. n)
    <3>1. n > Cardinality(made)
      BY <2>1
    <3> HIDE DEF n
    <3> QED
      BY <2>2, <2>4, <3>1
  <2>6. f \in [1 .. n -> made]
    BY <2>3
  <2> HIDE DEF n, f
  <2>7. \E x, y \in 1 .. n : x # y /\ f[x] = f[y]
    BY <2>4, <2>5, <2>6, MadeIsFinite, FS_PigeonHole DEF PoolInv
  <2>8. PICK i, j \in 1 .. n : i < j /\ f[i] = f[j]
    <3>1. PICK x, y \in 1 .. n : x # y /\ f[x] = f[y]
      BY <2>7
    <3>2. x < y \/ y < x
      BY <2>2, <3>1
    <3> QED
      BY <3>1, <3>2
  <2>9. stack[u][i].obj = stack[u][j].obj
    BY <2>8 DEF f
  <2>10. ASSUME NEW k \in i .. j - 1
         PROVE  Follows(stack[u], k) \/ stack[u][k].obj \in relinked
    <3>1. k \in 1 .. n - 1
      BY <2>2, <2>8
    <3> QED
      BY <3>1 DEF WalkInv, StacksFollow, n
  <2> QED
    BY <2>2, <2>8, <2>9, <2>10 DEF FatalNeedsCircle
<1> QED
  BY <1>1, PoolAlways, MadeAlways, WalkAlways, PTL
-----------------------------------------------------------------------------
(***************************************************************************)
(* What the loop of extractFields yields, by induction over the fields.    *)
(***************************************************************************)
LEMMA Induction ==
  ASSUME NEW T, 0 \in T, \A n \in Nat : n \in T => n + 1 \in T
  PROVE  Nat \subseteq T
<1> SUFFICES ASSUME Nat \ T # {} PROVE FALSE
  OBVIOUS
<1>1. PICK x \in Nat \ T : \A y \in Nat \ T : <<y, x>> \notin OpToRel(<, Nat)
  BY NatLessThanWellFounded, WFMin
<1>2. x # 0
  OBVIOUS
<1>3. x - 1 \in Nat /\ x - 1 < x
  BY <1>2
<1>4. x - 1 \in T
  BY <1>1, <1>3 DEF OpToRel
<1> QED
  BY <1>3, <1>4

LEMMA MaxFacts ==
  ASSUME NEW n \in Nat, NEW s \in SUBSET (1 .. n), s # {}
  PROVE  Max(s) \in s /\ \A y \in s : y <= Max(s)
<1> DEFINE T == {k \in Nat : \A r \in SUBSET (1 .. k) : r # {} => \E x \in r : \A y \in r : x >= y}
<1>1. 0 \in T
  <2>1. SUBSET (1 .. 0) = {{}}
    OBVIOUS
  <2> QED
    BY <2>1
<1>2. ASSUME NEW k \in Nat, k \in T PROVE k + 1 \in T
  <2> SUFFICES ASSUME NEW r \in SUBSET (1 .. k + 1), r # {}
               PROVE  \E x \in r : \A y \in r : x >= y
    OBVIOUS
  <2>1. CASE k + 1 \in r
    BY <2>1
  <2>2. CASE k + 1 \notin r
    <3>1. r \in SUBSET (1 .. k)
      BY <2>2
    <3> QED
      BY <1>2, <3>1
  <2> QED
    BY <2>1, <2>2
<1> HIDE DEF T
<1>3. n \in T
  BY <1>1, <1>2, Induction
<1>4. \E x \in s : \A y \in s : x >= y
  BY <1>3 DEF T
<1>5. Max(s) \in s /\ \A y \in s : Max(s) >= y
  BY <1>4 DEF Max
<1> QED
  BY <1>5

\* What Extracted chooses its function to satisfy, and that there is one.
Taken(fields, taken, i) ==
  IF fields[i].name = "" THEN taken ELSE Append(taken, fields[i])
Collects(g, fields, n) ==
  g = [s \in SUBSET (1 .. n) |->
         IF s = {} THEN <<>> ELSE Taken(fields, g[s \ {Max(s)}], Max(s))]

LEMMA CollectsExists ==
  ASSUME NEW fields, Len(fields) \in Nat
  PROVE  \E g : Collects(g, fields, Len(fields))
<1> DEFINE Unfolded(g, s) == IF s = {} THEN <<>> ELSE Taken(fields, g[s \ {Max(s)}], Max(s))
           T == {k \in Nat : \E g : Collects(g, fields, k)}
<1>1. 0 \in T
  <2>1. SUBSET (1 .. 0) = {{}}
    OBVIOUS
  <2>2. Collects([s \in SUBSET (1 .. 0) |-> <<>>], fields, 0)
    BY <2>1 DEF Collects
  <2> QED
    BY <2>2
<1>2. ASSUME NEW k \in Nat, k \in T PROVE k + 1 \in T
  <2>1. PICK g : Collects(g, fields, k)
    BY <1>2
  <2>2. \A s \in SUBSET (1 .. k) : g[s] = Unfolded(g, s)
    BY <2>1 DEF Collects
  <2> DEFINE h == [s \in SUBSET (1 .. k + 1) |->
                     IF k + 1 \in s THEN Taken(fields, g[s \ {k + 1}], k + 1) ELSE g[s]]
  <2>3. ASSUME NEW s \in SUBSET (1 .. k + 1) PROVE h[s] = Unfolded(h, s)
    <3>1. CASE k + 1 \in s
      <4>1. Max(s) = k + 1
        <5>1. k + 1 \in Nat /\ s # {}
          BY <3>1
        <5>2. Max(s) \in s /\ \A y \in s : y <= Max(s)
          BY <5>1, MaxFacts
        <5>3. Max(s) \in 1 .. k + 1 /\ k + 1 <= Max(s)
          BY <3>1, <5>2
        <5> QED
          BY <5>3
      <4>2. s \ {k + 1} \in SUBSET (1 .. k) /\ k + 1 \notin s \ {k + 1}
        OBVIOUS
      <4>3. h[s \ {k + 1}] = g[s \ {k + 1}]
        BY <4>2
      <4> QED
        BY <3>1, <4>1, <4>3
    <3>2. CASE k + 1 \notin s
      <4>1. s \in SUBSET (1 .. k)
        BY <3>2
      <4>2. /\ s \ {Max(s)} \in SUBSET (1 .. k + 1)
            /\ k + 1 \notin s \ {Max(s)}
        BY <3>2
      <4>3. h[s \ {Max(s)}] = g[s \ {Max(s)}]
        BY <4>2
      <4>4. h[s] = g[s]
        BY <3>2
      <4> QED
        BY <2>2, <4>1, <4>3, <4>4
    <3> QED
      BY <3>1, <3>2
  <2>4. Collects(h, fields, k + 1)
    <3>1. h = [s \in SUBSET (1 .. k + 1) |-> h[s]]
      OBVIOUS
    <3> HIDE DEF h
    <3>2. h = [s \in SUBSET (1 .. k + 1) |-> Unfolded(h, s)]
      BY <2>3, <3>1
    <3> QED
      BY <3>2 DEF Collects
  <2> QED
    BY <2>4
<1> HIDE DEF T
<1>3. Len(fields) \in T
  BY <1>1, <1>2, Induction
<1> QED
  BY <1>3 DEF T

\* What the loop has taken of the first k fields: of those with a name, each.
TakenOf(taken, fields, k) ==
  /\ taken \in Seq(ToSet(fields))
  /\ \A j \in DOMAIN taken : taken[j].name # ""
  /\ \A i \in 1 .. k : fields[i].name # "" => \E j \in DOMAIN taken : taken[j] = fields[i]

LEMMA TakenOneMore ==
  ASSUME NEW fields, NEW k \in Nat, NEW taken, TakenOf(taken, fields, k),
         k + 1 \in DOMAIN fields
  PROVE  TakenOf(Taken(fields, taken, k + 1), fields, k + 1)
<1>1. fields[k + 1] \in ToSet(fields)
  BY DEF ToSet
<1>2. \A i \in 1 .. k + 1 : i \in 1 .. k \/ i = k + 1
  OBVIOUS
<1>3. CASE fields[k + 1].name = ""
  BY <1>2, <1>3 DEF TakenOf, Taken
<1>4. CASE fields[k + 1].name # ""
  <2> DEFINE more == Append(taken, fields[k + 1])
             n == Len(taken)
  <2>1. /\ more \in Seq(ToSet(fields)) /\ Len(more) = n + 1
        /\ \A j \in 1 .. n : more[j] = taken[j]
        /\ more[n + 1] = fields[k + 1]
    <3>1. taken \in Seq(ToSet(fields))
      BY DEF TakenOf
    <3> QED
      BY <1>1, <3>1, AppendProperties
  <2>2. n \in Nat /\ DOMAIN taken = 1 .. n /\ DOMAIN more = 1 .. n + 1
    BY <2>1, LenProperties DEF TakenOf
  <2> HIDE DEF n, more
  <2>3. \A j \in 1 .. n + 1 : j \in 1 .. n \/ j = n + 1
    BY <2>2
  <2>4. n + 1 \in 1 .. n + 1 /\ 1 .. n \subseteq 1 .. n + 1
    BY <2>2
  <2>5. \A j \in DOMAIN more : more[j].name # ""
    BY <1>4, <2>1, <2>2, <2>3 DEF TakenOf
  <2>6. ASSUME NEW i \in 1 .. k + 1, fields[i].name # ""
        PROVE  \E j \in DOMAIN more : more[j] = fields[i]
    <3>1. CASE i = k + 1
      BY <2>1, <2>2, <2>4, <3>1
    <3>2. CASE i \in 1 .. k
      <4>1. PICK j \in DOMAIN taken : taken[j] = fields[i]
        BY <2>6, <3>2 DEF TakenOf
      <4> QED
        BY <2>1, <2>2, <2>4, <4>1
    <3> QED
      BY <1>2, <3>1, <3>2
  <2>7. TakenOf(more, fields, k + 1)
    BY <2>1, <2>5, <2>6 DEF TakenOf
  <2> QED
    BY <1>4, <2>7 DEF Taken, more
<1> QED
  BY <1>3, <1>4

\* The fields that get a statement: those with a name, and each of them.
LEMMA ExtractedFacts ==
  ASSUME NEW s, WellFormed(s)
  PROVE  TakenOf(Extracted(s), s.fields, Len(s.fields))
<1> DEFINE fields == s.fields
           n == Len(fields)
           Is(f) == f = [r \in SUBSET DOMAIN fields |->
                           IF r = {} THEN <<>>
                           ELSE IF fields[Max(r)].name = "" THEN f[r \ {Max(r)}]
                           ELSE Append(f[r \ {Max(r)}], fields[Max(r)])]
           g == CHOOSE f : Is(f)
<1>1. fields \in Seq(ToSet(fields)) /\ n \in Nat /\ DOMAIN fields = 1 .. n
  BY LenProperties DEF WellFormed
<1>2. Extracted(s) = g[DOMAIN fields]
  BY ONLY DEF Extracted, FoldLeft, MapThenFoldSet
<1>3. Collects(g, fields, n)
  <2>1. PICK f : Collects(f, fields, n)
    BY <1>1, CollectsExists
  <2>2. Is(f)
    BY <1>1, <2>1, ZenonT(40) DEF Collects, Taken
  <2>3. Is(g)
    BY <2>2
  <2> HIDE DEF g
  <2> QED
    BY <1>1, <2>3 DEF Collects, Taken
<1> HIDE DEF g
<1>4. \A r \in SUBSET (1 .. n) :
        g[r] = IF r = {} THEN <<>> ELSE Taken(fields, g[r \ {Max(r)}], Max(r))
  BY <1>3 DEF Collects
<1> DEFINE T == {k \in Nat : k <= n => TakenOf(g[1 .. k], fields, k)}
<1>5. 0 \in T
  <2>1. 1 .. 0 = {} /\ {} \in SUBSET (1 .. n)
    OBVIOUS
  <2>2. g[1 .. 0] = <<>>
    BY <1>4, <2>1
  <2>3. TakenOf(<<>>, fields, 0)
    BY <2>1, EmptySeq DEF TakenOf
  <2> QED
    BY <2>2, <2>3
<1>6. ASSUME NEW k \in Nat, k \in T PROVE k + 1 \in T
  <2> SUFFICES ASSUME k + 1 <= n PROVE TakenOf(g[1 .. k + 1], fields, k + 1)
    OBVIOUS
  <2>1. /\ 1 .. k + 1 \in SUBSET (1 .. n) /\ 1 .. k + 1 # {} /\ k + 1 \in 1 .. n
        /\ (1 .. k + 1) \ {k + 1} = 1 .. k
    BY <1>1
  <2>2. Max(1 .. k + 1) = k + 1
    <3>1. Max(1 .. k + 1) \in 1 .. k + 1 /\ \A y \in 1 .. k + 1 : y <= Max(1 .. k + 1)
      BY <1>1, <2>1, MaxFacts
    <3> QED
      BY <3>1
  <2>3. g[1 .. k + 1] = Taken(fields, g[1 .. k], k + 1)
    BY <1>4, <2>1, <2>2
  <2>4. TakenOf(g[1 .. k], fields, k)
    BY <1>1, <1>6
  <2> QED
    BY <1>1, <2>1, <2>3, <2>4, TakenOneMore
<1> HIDE DEF T
<1>7. n \in T
  BY <1>1, <1>5, <1>6, Induction
<1> QED
  BY <1>1, <1>2, <1>7 DEF T

\* The statements of a method: one for each field with a name, of its type.
LEMMA BodyFacts ==
  ASSUME NEW o \in Objects
  PROVE  /\ Len(Body(o)) \in Nat /\ DOMAIN Body(o) = 1 .. Len(Body(o))
         /\ \A i \in DOMAIN Body(o) :
              /\ Body(o)[i].field \in Fields(o)
              /\ Body(o)[i].type = TypeOf(o, Body(o)[i].field)
              /\ Body(o)[i].does = FieldReset(Body(o)[i].type)
              /\ Body(o)[i].type.node \in Nodes
              /\ Body(o)[i].type.node = "star" => Body(o)[i].type.elem.node \in Nodes
         /\ \A f \in Fields(o) \ {""} : \E i \in DOMAIN Body(o) : Body(o)[i].field = f
<1> DEFINE s == Package[Kind[o]]
           e == Extracted(s)
<1>1. Kind[o] \in DOMAIN Package /\ WellFormed(s)
  BY ResetPoolAssumption DEF Generated
<1>2. /\ Fields(o) = {s.fields[i].name : i \in DOMAIN s.fields}
      /\ \A f \in Fields(o) : TypeOf(o, f) = s.fields[CHOOSE i \in DOMAIN s.fields : s.fields[i].name = f].type
      /\ Body(o) = Method(s)
  BY <1>1 DEF Fields, TypeOf, Body, Types, Methods, Declared
<1>3. TakenOf(e, s.fields, Len(s.fields))
  BY <1>1, ExtractedFacts
<1>4. s.fields \in Seq(ToSet(s.fields)) /\ DOMAIN s.fields = 1 .. Len(s.fields)
  BY <1>1, LenProperties DEF WellFormed
<1>5. Len(e) \in Nat /\ DOMAIN e = 1 .. Len(e) /\ \A j \in DOMAIN e : e[j] \in ToSet(s.fields)
  BY <1>3, LenProperties, ElementOfSeq DEF TakenOf
<1> HIDE DEF e
<1>6. /\ DOMAIN Body(o) = DOMAIN e
      /\ \A j \in DOMAIN e : /\ Body(o)[j].field = e[j].name
                             /\ Body(o)[j].type = e[j].type
                             /\ Body(o)[j].does = FieldReset(e[j].type)
  BY <1>2 DEF Method, e
<1>7. Len(Body(o)) \in Nat /\ DOMAIN Body(o) = 1 .. Len(Body(o))
  <2>1. Body(o) = [j \in 1 .. Len(e) |-> Body(o)[j]]
    BY <1>2, <1>5 DEF Method, e
  <2>2. Len(Body(o)) = Len(e)
    BY <1>5, <2>1
  <2> QED
    BY <1>5, <1>6, <2>2
<1>8. ASSUME NEW j \in DOMAIN e
      PROVE  /\ e[j].name \in Fields(o)
             /\ e[j].type = TypeOf(o, e[j].name)
             /\ e[j].type.node \in Nodes
             /\ e[j].type.node = "star" => e[j].type.elem.node \in Nodes
  <2>1. PICK i \in DOMAIN s.fields : e[j] = s.fields[i]
    BY <1>5 DEF ToSet
  <2>2. e[j].name # ""
    BY <1>3 DEF TakenOf
  <2> DEFINE c == CHOOSE d \in DOMAIN s.fields : s.fields[d].name = e[j].name
  <2>3. c \in DOMAIN s.fields /\ s.fields[c].name = s.fields[i].name
    BY <2>1
  <2>4. c = i
    BY <1>1, <2>1, <2>2, <2>3 DEF WellFormed
  <2>5. /\ s.fields[i].type.node \in Nodes
        /\ s.fields[i].type.node = "star" => s.fields[i].type.elem.node \in Nodes
    BY <1>1 DEF WellFormed
  <2>6. e[j].name \in Fields(o)
    BY <1>2, <2>1
  <2>7. TypeOf(o, e[j].name) = s.fields[c].type
    BY <1>2, <2>6
  <2> HIDE DEF c
  <2> QED
    BY <2>1, <2>4, <2>5, <2>6, <2>7
<1>9. ASSUME NEW f \in Fields(o) \ {""} PROVE \E i \in DOMAIN Body(o) : Body(o)[i].field = f
  <2>1. PICK i \in DOMAIN s.fields : s.fields[i].name = f
    BY <1>2
  <2>2. PICK j \in DOMAIN e : e[j] = s.fields[i]
    BY <1>3, <1>4, <2>1 DEF TakenOf
  <2> QED
    BY <1>6, <2>1, <2>2
<1> QED
  BY <1>6, <1>7, <1>8, <1>9

LEMMA BodyIndex ==
  ASSUME NEW o \in Objects, NEW i \in DOMAIN Body(o)
  PROVE  i \in Nat /\ i >= 1 /\ i <= Len(Body(o))
<1> DEFINE n == Len(Body(o))
<1>1. n \in Nat /\ DOMAIN Body(o) = 1 .. n
  BY BodyFacts, Zenon
<1>2. i \in 1 .. n
  BY <1>1, Zenon
<1> HIDE DEF n
<1>3. i \in Nat /\ i >= 1 /\ i <= n
  BY <1>1, <1>2
<1> QED
  BY <1>3 DEF n

\* The statement of a field that carries nothing over empties it.
LEMMA EmptiesOrCarries ==
  ASSUME NEW t, NEW S, NEW step, step.type = t, step.does = FieldReset(t),
         t.node \in Nodes, t.node = "star" => t.elem.node \in Nodes,
         ~Carries(t, S)
  PROVE  Empties(step, S)
<1>1. CASE FieldReset(t) = "resetNested"
  <2>1. t.node # "star"
    BY <1>1 DEF FieldReset, PointerReset
  <2>2. t.node = "named"
    BY <1>1, <2>1 DEF FieldReset
  <2>3. t.name \notin Primitives
    BY <1>1, <2>2 DEF FieldReset, Text
  <2>4. t.name \in S
    BY <2>2, <2>3 DEF Carries
  <2> QED
    BY <1>1, <2>4 DEF Empties
<1>2. CASE FieldReset(t) = "resetPointee"
  <2>1. t.node = "star" /\ PointerReset(t.elem) = "resetPointee"
    BY <1>2 DEF FieldReset
  <2>2. Text(t.elem) \notin Primitives /\ Text(t.elem) # "[]" /\ Text(t.elem) # "map["
    BY <2>1 DEF PointerReset
  <2>3. t.elem.node \notin {"slice", "array", "map"}
    BY <2>2 DEF Text
  <2>4. t.elem.node = "named" => t.elem.name \notin Primitives
    BY <2>2 DEF Text
  <2>5. t.elem.node \in {"named", "star", "struct", "other"}
    BY <2>1, <2>3 DEF Nodes
  <2> QED
    BY <2>1, <2>4, <2>5 DEF Carries
<1>3. CASE FieldReset(t) # "resetNested" /\ FieldReset(t) # "resetPointee"
  BY <1>3 DEF Empties
<1> QED
  BY <1>1, <1>2, <1>3

\* What has no field that carries data over is empty after its Reset.
LEMMA TidyIsEmptied == Tidy \subseteq Emptied
<1> SUFFICES ASSUME NEW name \in Tidy PROVE name \in Emptied
  OBVIOUS
<1>1. PICK S \in SUBSET Generated : name \in S /\ TidyTogether(S)
  BY DEF Tidy
<1>2. ASSUME NEW m \in S, NEW i \in DOMAIN Package[m].fields
      PROVE  \E step \in ToSet(Method(Package[m])) :
               step.field = Package[m].fields[i].name /\ Empties(step, S)
  <2> DEFINE s == Package[m]
             f == s.fields[i]
             e == Extracted(s)
  <2>1. m \in DOMAIN Package /\ WellFormed(s)
    BY ResetPoolAssumption DEF Generated
  <2>2. f.name # "" /\ ~Carries(f.type, S)
    BY <1>1 DEF TidyTogether
  <2>3. TakenOf(e, s.fields, Len(s.fields)) /\ DOMAIN s.fields = 1 .. Len(s.fields)
    BY <2>1, ExtractedFacts, LenProperties DEF WellFormed
  <2> HIDE DEF e
  <2>4. PICK j \in DOMAIN e : e[j] = f
    BY <2>2, <2>3 DEF TakenOf
  <2> DEFINE step == Method(s)[j]
  <2>5. step = [field |-> e[j].name, type |-> e[j].type, does |-> FieldReset(e[j].type)]
    BY <2>4 DEF Method, e
  <2>6. step \in ToSet(Method(s))
    BY <2>4 DEF Method, ToSet, e
  <2>7. f.type.node \in Nodes /\ (f.type.node = "star" => f.type.elem.node \in Nodes)
    BY <2>1 DEF WellFormed
  <2> HIDE DEF step, f
  <2>8. step.field = f.name /\ step.type = f.type /\ step.does = FieldReset(f.type)
    BY <2>4, <2>5
  <2>9. Empties(step, S)
    BY <2>2, <2>7, <2>8, EmptiesOrCarries
  <2> QED
    BY <2>6, <2>8, <2>9 DEF f
<1>3. EmptiedTogether(S)
  BY <1>2 DEF EmptiedTogether
<1> QED
  BY <1>1, <1>3 DEF Emptied

\* A statement that leaves data where it is has a field that carries it over.
LEMMA WhatIsLeftCarries ==
  ASSUME NEW o \in Objects, NEW i \in DOMAIN Body(o), ~Empties(Body(o)[i], Emptied)
  PROVE  Carries(TypeOf(o, Body(o)[i].field), Tidy)
<1> DEFINE t == Body(o)[i].type
<1>1. /\ t = TypeOf(o, Body(o)[i].field)
      /\ Body(o)[i].does = FieldReset(t)
      /\ t.node \in Nodes
      /\ t.node = "star" => t.elem.node \in Nodes
  BY BodyFacts
<1>2. ~Empties(Body(o)[i], Tidy)
  BY TidyIsEmptied DEF Empties
<1> HIDE DEF t
<1> QED
  BY <1>1, <1>2, EmptiesOrCarries DEF t

-----------------------------------------------------------------------------
(***************************************************************************)
(* Why Get returns nothing of a structure's last user.                     *)
(***************************************************************************)
\* What is clean stays clean, if data is written nowhere but to zero.
LEMMA CleanStays ==
  ASSUME NEW o, NEW f, Clean(o, f), val'[o][f] = val[o][f] \/ val'[o][f] = "zero"
  PROVE  Clean(o, f)'
BY DEF Clean

LEMMA DoneFacts ==
  ASSUME PoolInv, NEW u \in Users, NEW o \in Returning(u)
  PROVE  o \in Objects /\ FieldsDone(u) \subseteq Fields(o)
<1>1. stack[u] # <<>> /\ o = stack[u][1].obj /\ o \in Objects
  BY TopFrame, Bottom DEF PoolInv, Returning
<1> QED
  BY <1>1, BodyFacts DEF FieldsDone, FirstBody

\* A stack that does not change leaves what is being put, and how far.
LEMMA SameStack ==
  ASSUME NEW u \in Users, stack'[u] = stack[u]
  PROVE  Returning(u)' = Returning(u) /\ FieldsDone(u)' = FieldsDone(u)
BY DEF Returning, FieldsDone, FirstBody

\* A step keeps what is clean, if it writes only zero to it and adds nothing to
\* what has to be.
LEMMA CleanKept ==
  ASSUME PoolInv, CleanInv, Unused' \subseteq Unused,
         \A o \in Unused' : \A f \in Fields(o) : val'[o][f] = val[o][f] \/ val'[o][f] = "zero",
         \A u \in Users : \A o \in Returning(u)', f \in FieldsDone(u)' :
           \/ /\ o \in Returning(u) /\ f \in FieldsDone(u)
              /\ val'[o][f] = val[o][f] \/ val'[o][f] = "zero"
           \/ Clean(o, f)'
  PROVE  UnusedIsClean' /\ ResetSoFar'
<1>1. ASSUME NEW o \in Unused', NEW f \in Fields(o) PROVE Clean(o, f)'
  <2>1. Clean(o, f) /\ (val'[o][f] = val[o][f] \/ val'[o][f] = "zero")
    BY DEF CleanInv, UnusedIsClean
  <2> QED
    BY <2>1, CleanStays
<1>2. ASSUME NEW u \in Users, NEW o \in Returning(u)', NEW f \in FieldsDone(u)'
      PROVE  Clean(o, f)'
  <2>1. CASE /\ o \in Returning(u) /\ f \in FieldsDone(u)
             /\ val'[o][f] = val[o][f] \/ val'[o][f] = "zero"
    <3>1. Clean(o, f)
      BY <2>1 DEF CleanInv, ResetSoFar
    <3> QED
      BY <2>1, <3>1, CleanStays
  <2> QED
    BY <2>1
<1> QED
  BY <1>1, <1>2 DEF UnusedIsClean, ResetSoFar

LEMMA GetKeepsClean ==
  ASSUME PoolInv, CleanInv, NEW u \in Users, NEW o,
         GetPooled(u, o) \/ GetNew(u, o) \/ Allocate(u, o)
  PROVE  CleanInv'
<1>1. /\ held' = [held EXCEPT ![u] = @ \cup ({o} \ {Nil})]
      /\ got' = [got EXCEPT ![u] = {o}] \/ got' = [got EXCEPT ![u] = {}]
      /\ UNCHANGED <<val, stack, nilPut>>
      /\ o \in pool \/ o \in Objects \ made
      /\ pool' \subseteq pool /\ made \subseteq made'
  BY ResetPoolAssumption DEF GetPooled, GetNew, Allocate, Hands
<1>2. held \in [Users -> SUBSET made] /\ got \in [Users -> SUBSET (made \cup {Nil})]
  BY DEF PoolInv, ResetPoolTypeOK
<1>3. \A v \in Users : /\ got'[v] \subseteq IF v = u THEN {o} ELSE got[v]
                       /\ held[v] \subseteq held'[v]
  BY <1>1, <1>2
<1>4. o \in held'[u] \/ o = Nil
  BY <1>1, <1>2
<1>5. Unused' \subseteq Unused
  BY <1>1, <1>3 DEF Unused
<1>6. GotIsHeld'
  BY <1>3, <1>4 DEF CleanInv, GotIsHeld
<1>7. NilWasPut'
  BY <1>1, <1>3, ResetPoolAssumption DEF CleanInv, NilWasPut
<1>8. UnusedIsClean' /\ ResetSoFar'
  BY <1>1, <1>5, SameStack, CleanKept
<1> QED
  BY <1>6, <1>7, <1>8 DEF CleanInv

LEMMA NilKeepsClean ==
  ASSUME PoolInv, CleanInv, (\E u \in Users : PutNil(u)) \/ (\E o : Drop(o))
  PROVE  CleanInv'
<1>1. /\ pool' \subseteq pool \cup {Nil}
      /\ UNCHANGED <<struct, made, held, val, stack>>
      /\ got' = got \/ \E u \in Users : got' = [got EXCEPT ![u] = {}]
      /\ nilPut' \/ (pool' \subseteq pool /\ nilPut' = nilPut)
  BY DEF PutNil, Drop
<1>2. got \in [Users -> SUBSET (made \cup {Nil})]
  BY DEF PoolInv, ResetPoolTypeOK
<1>3. \A v \in Users : got'[v] \subseteq got[v]
  BY <1>1, <1>2
<1>5. Unused' \subseteq Unused
  BY <1>1, <1>3, ResetPoolAssumption DEF Unused
<1>6. GotIsHeld'
  BY <1>1, <1>3 DEF CleanInv, GotIsHeld
<1>7. NilWasPut'
  BY <1>1, <1>3 DEF CleanInv, NilWasPut
<1>8. UnusedIsClean' /\ ResetSoFar'
  BY <1>1, <1>5, SameStack, CleanKept
<1> QED
  BY <1>6, <1>7, <1>8 DEF CleanInv

LEMMA PutKeepsClean ==
  ASSUME PoolInv, CleanInv, NEW u \in Users, NEW o, Put(u, o)
  PROVE  CleanInv'
<1> DEFINE frame == [obj |-> o, next |-> 1]
<1>1. /\ held' = [held EXCEPT ![u] = @ \ {o}]
      /\ got' = [got EXCEPT ![u] = {}]
      /\ stack' = [stack EXCEPT ![u] = <<frame>>]
      /\ UNCHANGED <<struct, pool, made, val, nilPut>>
  BY DEF Put
<1>2. /\ held \in [Users -> SUBSET made] /\ got \in [Users -> SUBSET (made \cup {Nil})]
      /\ stack \in [Users -> Seq(Frames)] /\ o \in Objects
  BY DEF PoolInv, ResetPoolTypeOK, Put
<1>3. \A v \in Users : /\ got'[v] = IF v = u THEN {} ELSE got[v]
                       /\ v # u => held'[v] = held[v] /\ stack'[v] = stack[v]
  BY <1>1, <1>2
<1>4. FieldsDone(u)' = {}
  <2>1. stack'[u][1].next = 1 /\ stack'[u][1].obj = o
    BY <1>1, <1>2
  <2>2. \A i \in DOMAIN Body(o) : ~(i < 1)
    <3>1. \A i \in DOMAIN Body(o) : i \in Nat /\ i >= 1
      BY <1>2, BodyIndex, Zenon
    <3> QED
      BY <3>1
  <2> QED
    BY <2>1, <2>2 DEF FieldsDone, FirstBody
<1>5. Unused' \subseteq Unused
  BY <1>1, <1>3 DEF Unused
<1>6. GotIsHeld'
  BY <1>3 DEF CleanInv, GotIsHeld
<1>7. NilWasPut'
  BY <1>1, <1>3 DEF CleanInv, NilWasPut
<1>8. ASSUME NEW v \in Users, NEW p \in Returning(v)', NEW f \in FieldsDone(v)'
      PROVE  p \in Returning(v) /\ f \in FieldsDone(v) /\ val'[p][f] = val[p][f]
  <2>1. v # u
    BY <1>4
  <2> QED
    BY <1>1, <1>3, <2>1, SameStack
<1>9. UnusedIsClean' /\ ResetSoFar'
  BY <1>1, <1>5, <1>8, CleanKept
<1> QED
  BY <1>6, <1>7, <1>9 DEF CleanInv

\* Writing to what one holds: that is in no pool, in no Put, and no longer what
\* the last Get returned.
LEMMA WriteKeepsClean ==
  ASSUME PoolInv, CleanInv, NEW u \in Users, NEW o,
         Use(u, o) \/ (\E f \in Fields(o), c \in held[u] \cup {Nil} : Link(u, o, f, c))
  PROVE  CleanInv'
<1>1. /\ o \in held[u]
      /\ got' = [got EXCEPT ![u] = {}]
      /\ UNCHANGED <<struct, pool, made, held, stack, nilPut>>
      /\ \A p \in Objects : p # o => val'[p] = val[p]
  <2>1. DOMAIN val = Objects
    BY DEF PoolInv, ResetPoolTypeOK
  <2> QED
    BY <2>1 DEF Use, Link
<1>2. /\ held \in [Users -> SUBSET made] /\ got \in [Users -> SUBSET (made \cup {Nil})]
      /\ made \subseteq Objects
  BY DEF PoolInv, ResetPoolTypeOK
<1>3. \A v \in Users : got'[v] = IF v = u THEN {} ELSE got[v]
  BY <1>1, <1>2
<1>4. o \notin Unused'
  <2>1. o \in made /\ o \notin pool /\ o # Nil
    BY <1>1, <1>2, ResetPoolAssumption DEF PoolInv, OneOwner
  <2>2. ASSUME NEW v \in Users, o \in got'[v] PROVE FALSE
    <3>1. v # u /\ o \in held[v]
      BY <1>3, <2>1, <2>2 DEF CleanInv, GotIsHeld
    <3> QED
      BY <1>1, <3>1 DEF PoolInv, OneOwner
  <2> QED
    BY <1>1, <2>1, <2>2 DEF Unused
<1>5. Unused' \subseteq Unused /\ Unused \subseteq Objects
  BY <1>1, <1>3 DEF Unused
<1>6. \A p \in Unused' : val'[p] = val[p]
  BY <1>1, <1>4, <1>5
<1>7. ASSUME NEW v \in Users, NEW p \in Returning(v)', NEW f \in FieldsDone(v)'
      PROVE  p \in Returning(v) /\ f \in FieldsDone(v) /\ val'[p][f] = val[p][f]
  <2>1. p \in Returning(v) /\ f \in FieldsDone(v)
    BY <1>1, SameStack
  <2>2. p \in Objects
    BY <1>2, <2>1 DEF PoolInv, PutWasMade
  <2>3. p # o
    BY <1>1, <2>1 DEF PoolInv, OneOwner
  <2> QED
    BY <1>1, <2>1, <2>2, <2>3
<1>8. UnusedIsClean' /\ ResetSoFar'
  BY <1>1, <1>5, <1>6, <1>7, CleanKept
<1>9. GotIsHeld' /\ NilWasPut'
  BY <1>1, <1>3 DEF CleanInv, GotIsHeld, NilWasPut
<1> QED
  BY <1>8, <1>9 DEF CleanInv

\* How far the Reset of the structure that is being put has come, after the
\* statement of the Reset that runs.
LEMMA AdvancedBottom ==
  ASSUME PoolInv, NEW u \in Users, stack[u] # <<>>
  PROVE  /\ Advanced(u)[u][1].obj = stack[u][1].obj
         /\ Advanced(u)[u][1].next = IF Len(stack[u]) = 1 THEN stack[u][1].next + 1
                                                         ELSE stack[u][1].next
<1> DEFINE n == Len(stack[u])
           top == [stack[u][n] EXCEPT !.next = @ + 1]
           s == [stack[u] EXCEPT ![n] = top]
<1>1. /\ stack[u] \in Seq(Frames) /\ n \in Nat /\ n >= 1 /\ DOMAIN stack[u] = 1 .. n
      /\ stack[u][n] \in Frames
  BY TopFrame DEF PoolInv
<1>2. top.next = stack[u][n].next + 1 /\ top.obj = stack[u][n].obj
  BY <1>1 DEF Frames
<1>3. 1 \in DOMAIN stack[u]
  <2> HIDE DEF n
  <2> QED
    BY <1>1
<1>4. s[1] = IF n = 1 THEN top ELSE stack[u][1]
  BY <1>3
<1>5. Advanced(u) = [stack EXCEPT ![u] = s]
  BY DEF Advanced
<1>6. Advanced(u)[u] = s
  <2>1. stack \in [Users -> Seq(Frames)]
    BY DEF PoolInv, ResetPoolTypeOK
  <2> HIDE DEF s
  <2> QED
    BY <1>5, <2>1
<1> HIDE DEF s, top, n
<1>7. CASE n = 1
  BY <1>2, <1>4, <1>6, <1>7 DEF n
<1>8. CASE n # 1
  BY <1>2, <1>4, <1>6, <1>8 DEF n
<1> QED
  BY <1>7, <1>8

\* A step inside a Reset: the structure that is being put has its field reset, if
\* it is its Reset that runs, and no other gets data.
LEMMA InsideKeepsClean ==
  ASSUME PoolInv, CleanInv, NEW u \in Users, stack[u] # <<>>,
         UNCHANGED <<struct, pool, made, held, got, nilPut>>,
         \A v \in Users \ {u} : stack'[v] = stack[v],
         stack'[u] # <<>>, stack'[u][1].obj = stack[u][1].obj,
         \A p \in Objects : \A f \in Fields(p) : val'[p][f] = val[p][f] \/ val'[p][f] = "zero",
         \/ stack'[u][1].next = stack[u][1].next
         \/ /\ stack'[u][1].next = stack[u][1].next + 1
            /\ \A i \in DOMAIN FirstBody(u) : i = stack[u][1].next =>
                 \A p \in Returning(u), f \in {FirstBody(u)[i].field} : Clean(p, f)'
  PROVE  CleanInv'
<1>1. FirstBody(u)' = FirstBody(u) /\ stack[u][1].obj \in Objects
  BY Bottom DEF FirstBody, PoolInv
<1>2. Unused' = Unused /\ Unused \subseteq Objects
  BY DEF Unused
<1>3. ASSUME NEW v \in Users, NEW p \in Returning(v)', NEW f \in FieldsDone(v)'
      PROVE  \/ /\ p \in Returning(v) /\ f \in FieldsDone(v)
                /\ val'[p][f] = val[p][f] \/ val'[p][f] = "zero"
             \/ Clean(p, f)'
  <2>1. p \in Returning(v)
    <3>1. CASE v = u
      BY <3>1 DEF Returning
    <3>2. CASE v # u
      BY <3>2, SameStack
    <3> QED
      BY <3>1, <3>2
  <2>2. p \in Objects
    BY <2>1 DEF PoolInv, PutWasMade, ResetPoolTypeOK
  <2>3. CASE f \in FieldsDone(v)
    <3>1. f \in Fields(p)
      BY <2>1, <2>3, DoneFacts
    <3> QED
      BY <2>1, <2>2, <2>3, <3>1
  <2>4. CASE f \notin FieldsDone(v)
    <3>1. v = u
      BY <2>4, SameStack
    <3>2. PICK i \in DOMAIN FirstBody(u) : i < stack'[u][1].next /\ f = FirstBody(u)[i].field
      BY <1>1, <3>1 DEF FieldsDone
    <3>3. ~(i < stack[u][1].next)
      BY <2>4, <3>1, <3>2 DEF FieldsDone
    <3>4. i \in Nat
      BY <1>1, BodyIndex, Zenon DEF FirstBody
    <3>5. stack[u][1].next \in Nat
      BY TopFrame DEF PoolInv, Frames
    <3>6. i = stack[u][1].next
      BY <3>2, <3>3, <3>4, <3>5
    <3>7. stack'[u][1].next # stack[u][1].next
      BY <3>2, <3>3
    <3> QED
      BY <2>1, <3>1, <3>2, <3>6, <3>7
  <2> QED
    BY <2>3, <2>4
<1>4. UnusedIsClean' /\ ResetSoFar'
  BY <1>2, <1>3, CleanKept
<1>5. GotIsHeld' /\ NilWasPut'
  BY DEF CleanInv, GotIsHeld, NilWasPut
<1> QED
  BY <1>4, <1>5 DEF CleanInv

LEMMA FieldKeepsClean ==
  ASSUME PoolInv, CleanInv, NEW u \in Users, ResetField(u)
  PROVE  CleanInv'
<1> DEFINE o == Top(u).obj
           i == Top(u).next
           f == Step(u).field
<1>1. /\ stack[u] # <<>>
      /\ stack' = Advanced(u)
      /\ val' = IF ~IsLink(o, f) /\ Empties(Step(u), Emptied)
                THEN [val EXCEPT ![o][f] = "zero"] ELSE val
      /\ UNCHANGED <<struct, pool, made, held, got, nilPut>>
  BY DEF ResetField, Running
<1>2. /\ Len(stack[u]) \in Nat /\ Len(stack[u]) >= 1 /\ o \in Objects
      /\ DOMAIN val = Objects /\ val[o] = [g \in Fields(o) |-> val[o][g]]
      /\ Returning(u) = {stack[u][1].obj}
  BY <1>1, TopFrame, Bottom DEF PoolInv, ResetPoolTypeOK
<1>3. /\ \A v \in Users \ {u} : stack'[v] = stack[v]
      /\ Len(stack'[u]) = Len(stack[u]) /\ stack'[u] \in Seq(Frames)
      /\ stack'[u][1].obj = stack[u][1].obj
      /\ stack'[u][1].next = IF Len(stack[u]) = 1 THEN stack[u][1].next + 1
                                                  ELSE stack[u][1].next
  BY <1>1, AdvancedFrames, AdvancedBottom DEF PoolInv
<1>4. stack'[u] # <<>>
  BY <1>2, <1>3, EmptySeq
<1>5. \A p \in Objects : \A g \in Fields(p) : val'[p][g] = val[p][g] \/ val'[p][g] = "zero"
  <2>1. CASE val' = val
    BY <2>1
  <2>2. CASE val' = [val EXCEPT ![o][f] = "zero"]
    BY <1>2, <2>2
  <2> QED
    BY <1>1, <2>1, <2>2
<1>6. ASSUME Len(stack[u]) = 1, NEW j \in DOMAIN FirstBody(u), j = stack[u][1].next,
             NEW p \in Returning(u), NEW g \in {FirstBody(u)[j].field}
      PROVE  Clean(p, g)'
  <2>1. p = o /\ g = f /\ j = i /\ FirstBody(u) = Body(o) /\ Step(u) = Body(o)[j]
    BY <1>2, <1>6 DEF Top, Step, FirstBody
  <2>2. g \in Fields(o)
    BY <1>2, <2>1, BodyFacts
  <2>3. CASE IsLink(o, g)
    BY <2>1, <2>3 DEF Clean
  <2>4. CASE ~IsLink(o, g) /\ Empties(Body(o)[j], Emptied)
    <3>1. val' = [val EXCEPT ![p][g] = "zero"]
      BY <1>1, <2>1, <2>4
    <3>2. val'[p][g] = "zero"
      BY <1>2, <2>1, <2>2, <3>1
    <3> QED
      BY <3>2 DEF Clean
  <2>5. CASE ~Empties(Body(o)[j], Emptied)
    <3>1. Carries(TypeOf(o, g), Tidy)
      BY <1>2, <2>1, <2>5, WhatIsLeftCarries
    <3> QED
      BY <2>1, <3>1 DEF Clean
  <2> QED
    BY <2>3, <2>4, <2>5
<1>7. CASE Len(stack[u]) = 1
  <2>1. stack'[u][1].next = stack[u][1].next + 1
    BY <1>3, <1>7
  <2> HIDE DEF o, i, f
  <2>2. \A j \in DOMAIN FirstBody(u) : j = stack[u][1].next =>
          \A p \in Returning(u), g \in {FirstBody(u)[j].field} : Clean(p, g)'
    BY <1>6, <1>7
  <2> QED
    BY <1>1, <1>3, <1>4, <1>5, <2>1, <2>2, InsideKeepsClean
<1>8. CASE Len(stack[u]) # 1
  <2>1. stack'[u][1].next = stack[u][1].next
    BY <1>3, <1>8
  <2> HIDE DEF o, i, f
  <2> QED
    BY <1>1, <1>3, <1>4, <1>5, <2>1, InsideKeepsClean
<1> QED
  BY <1>7, <1>8

LEMMA LinkedKeepsClean ==
  ASSUME PoolInv, CleanInv, NEW u \in Users, ResetLinked(u)
  PROVE  CleanInv'
<1> DEFINE f == Step(u).field
           frame == [obj |-> Called(u), next |-> 1]
<1>1. /\ stack[u] # <<>> /\ IsLink(Top(u).obj, f) /\ Called(u) # Nil /\ Called(u) = val[Top(u).obj][f]
      /\ stack' = stack \/ stack' = [Advanced(u) EXCEPT ![u] = Append(@, frame)]
      /\ UNCHANGED <<struct, pool, made, held, val, got, nilPut>>
  BY DEF ResetLinked, Running, Called
<1>2. /\ Len(stack[u]) \in Nat /\ Len(stack[u]) >= 1 /\ Top(u).obj \in Objects
      /\ Returning(u) = {stack[u][1].obj}
  BY <1>1, TopFrame, Bottom DEF PoolInv
<1>3. \A p \in Objects : \A g \in Fields(p) : val'[p][g] = val[p][g] \/ val'[p][g] = "zero"
  BY <1>1
<1>4. CASE stack' = stack
  <2>1. stack'[u][1].next = stack[u][1].next /\ stack'[u] # <<>>
        /\ stack'[u][1].obj = stack[u][1].obj /\ \A v \in Users \ {u} : stack'[v] = stack[v]
    BY <1>1, <1>4
  <2> QED
    BY <1>1, <1>3, <2>1, InsideKeepsClean
<1>5. CASE stack' = [Advanced(u) EXCEPT ![u] = Append(@, frame)]
  <2>1. frame \in Frames
    BY <1>1, <1>2 DEF PoolInv, ResetPoolTypeOK, IsLink, Targets, Frames
  <2> HIDE DEF frame
  <2>2. /\ stack' \in [Users -> Seq(Frames)]
        /\ \A v \in Users \ {u} : stack'[v] = stack[v]
        /\ Len(stack'[u]) = Len(stack[u]) + 1
    BY <1>1, <1>5, <2>1, CalledFrames DEF PoolInv
  <2>3. stack'[u] # <<>>
    BY <1>2, <2>2, EmptySeq
  <2>4. /\ Advanced(u) \in [Users -> Seq(Frames)]
        /\ Len(Advanced(u)[u]) = Len(stack[u])
    BY <1>1, AdvancedFrames DEF PoolInv
  <2>5. stack'[u][1] = Advanced(u)[u][1]
    <3>1. stack'[u] = Append(Advanced(u)[u], frame)
      BY <1>5, <2>4
    <3>2. \A n \in Nat : n >= 1 => 1 \in 1 .. n
      OBVIOUS
    <3>3. 1 \in 1 .. Len(Advanced(u)[u])
      BY <1>2, <2>4, <3>2
    <3> QED
      BY <2>1, <2>4, <3>1, <3>3, AppendProperties
  <2>6. /\ stack'[u][1].obj = stack[u][1].obj
        /\ stack'[u][1].next = IF Len(stack[u]) = 1 THEN stack[u][1].next + 1
                                                    ELSE stack[u][1].next
    BY <1>1, <2>5, AdvancedBottom
  <2>7. CASE Len(stack[u]) = 1
    <3>1. ASSUME NEW j \in DOMAIN FirstBody(u), j = stack[u][1].next,
                 NEW p \in Returning(u), NEW g \in {FirstBody(u)[j].field}
          PROVE  Clean(p, g)'
      <4>1. g = f /\ p = Top(u).obj
        BY <1>2, <2>7, <3>1 DEF Top, Step, FirstBody
      <4>2. IsLink(p, g)
        BY <1>1, <4>1
      <4> QED
        BY <4>2 DEF Clean
    <3>2. stack'[u][1].next = stack[u][1].next + 1
      BY <2>6, <2>7
    <3> HIDE DEF f
    <3> QED
      BY <1>1, <1>3, <2>2, <2>3, <2>6, <3>1, <3>2, InsideKeepsClean
  <2>8. CASE Len(stack[u]) # 1
    <3>1. stack'[u][1].next = stack[u][1].next
      BY <2>6, <2>8
    <3> HIDE DEF f
    <3> QED
      BY <1>1, <1>3, <2>2, <2>3, <2>6, <3>1, InsideKeepsClean
  <2> QED
    BY <2>7, <2>8
<1> QED
  BY <1>1, <1>4, <1>5

\* When the Reset of the structure that is being put returns, every field with a
\* name had its statement.
LEMMA ReturnKeepsClean ==
  ASSUME PoolInv, CleanInv, NEW u \in Users, ResetReturns(u)
  PROVE  CleanInv'
<1> DEFINE n == Len(stack[u])
<1>1. /\ stack[u] # <<>> /\ Top(u).next > Len(Body(Top(u).obj))
      /\ stack' = Popped(u)
      /\ pool' = IF n = 1 THEN pool \cup {Top(u).obj} ELSE pool
      /\ UNCHANGED <<struct, made, held, val, got, nilPut>>
  BY DEF ResetReturns, Ended
<1>2. /\ n \in Nat /\ n >= 1 /\ Returning(u) = {stack[u][1].obj}
      /\ stack[u][1].obj \in Objects /\ Nil \notin Objects
      /\ \A i \in 1 .. n : stack[u][i] \in Frames
  BY <1>1, TopFrame, Bottom, ResetPoolAssumption DEF PoolInv, ResetPoolTypeOK
<1>3. /\ \A v \in Users \ {u} : stack'[v] = stack[v]
      /\ stack'[u] = <<>> <=> n = 1
      /\ stack'[u] # <<>> => stack'[u][1] = stack[u][1]
  BY <1>1, PoppedFrames DEF PoolInv
<1> DEFINE o == stack[u][1].obj
<1>5. ASSUME n = 1, NEW f \in Fields(o) PROVE Clean(o, f)
  <2>1. CASE f = ""
    BY <2>1 DEF Clean
  <2>2. CASE f # ""
    <3>1. PICK i \in DOMAIN Body(o) : Body(o)[i].field = f
      BY <1>2, <2>2, BodyFacts
    <3>2. stack[u][1].next > Len(Body(o)) /\ stack[u][1].next \in Nat
      BY <1>1, <1>2, <1>5 DEF Top, Frames
    <3>3. i < stack[u][1].next
      <4>1. i \in Nat /\ i <= Len(Body(o))
        BY <1>2, BodyIndex, Zenon
      <4>2. Len(Body(o)) \in Nat
        BY <1>2, BodyFacts, Zenon
      <4> QED
        BY <3>2, <4>1, <4>2
    <3>4. f \in FieldsDone(u)
      BY <3>1, <3>3 DEF FieldsDone, FirstBody
    <3> QED
      BY <1>2, <3>4 DEF CleanInv, ResetSoFar
  <2> QED
    BY <2>1, <2>2
<1>6. ASSUME NEW p, NEW f, Clean(p, f) PROVE Clean(p, f)'
  BY <1>1, <1>6, CleanStays
<1>7. UnusedIsClean'
  <2> SUFFICES ASSUME NEW p \in Unused', NEW f \in Fields(p) PROVE Clean(p, f)'
    BY DEF UnusedIsClean
  <2>1. p \in Unused \/ (n = 1 /\ p = o)
    BY <1>1 DEF Unused, Top
  <2>2. Clean(p, f)
    BY <1>5, <2>1 DEF CleanInv, UnusedIsClean
  <2> QED
    BY <1>6, <2>2
<1>8. ResetSoFar'
  <2> SUFFICES ASSUME NEW v \in Users, NEW p \in Returning(v)', NEW f \in FieldsDone(v)'
               PROVE  Clean(p, f)'
    BY DEF ResetSoFar
  <2>1. p \in Returning(v) /\ f \in FieldsDone(v)
    <3>1. CASE v = u
      <4>1. stack'[u] # <<>> /\ stack[u] # <<>>
        BY <1>1, <3>1 DEF Returning
      <4>2. stack'[u][1] = stack[u][1]
        BY <1>3, <4>1
      <4>3. Returning(v)' = Returning(v)
        BY <3>1, <4>1, <4>2 DEF Returning
      <4>4. FieldsDone(v)' = FieldsDone(v)
        BY <3>1, <4>2 DEF FieldsDone, FirstBody
      <4> QED
        BY <4>3, <4>4
    <3>2. CASE v # u
      BY <1>1, <1>3, <3>2, SameStack
    <3> QED
      BY <3>1, <3>2
  <2>2. Clean(p, f)
    BY <2>1 DEF CleanInv, ResetSoFar
  <2> QED
    BY <1>6, <2>2
<1>9. GotIsHeld' /\ NilWasPut'
  <2>1. Nil \in pool' => Nil \in pool
    BY <1>1, <1>2 DEF Top
  <2> QED
    BY <1>1, <2>1 DEF CleanInv, GotIsHeld, NilWasPut
<1> QED
  BY <1>7, <1>8, <1>9 DEF CleanInv

LEMMA CleanInit == ResetPoolInit => CleanInv
<1> SUFFICES ASSUME ResetPoolInit PROVE CleanInv
  OBVIOUS
<1>1. \A v \in Users : Returning(v) = {} /\ got[v] = {} /\ held[v] = {}
  BY DEF ResetPoolInit, Returning
<1>2. \A o \in Objects : \A f \in Fields(o) : ~IsLink(o, f) => val[o][f] = "zero"
  BY DEF ResetPoolInit, Fresh
<1>3. UnusedIsClean
  BY <1>2 DEF UnusedIsClean, Unused, Clean
<1>4. ResetSoFar /\ GotIsHeld /\ NilWasPut
  BY <1>1 DEF ResetSoFar, GotIsHeld, NilWasPut, ResetPoolInit
<1> QED
  BY <1>3, <1>4 DEF CleanInv

LEMMA CleanNext == PoolInv /\ CleanInv /\ [ResetPoolNext]_resetPoolVars => CleanInv'
<1> SUFFICES ASSUME PoolInv, CleanInv, [ResetPoolNext]_resetPoolVars PROVE CleanInv'
  OBVIOUS
<1>1. ASSUME NEW u \in Users, NEW o, GetPooled(u, o) \/ GetNew(u, o) \/ Allocate(u, o)
      PROVE  CleanInv'
  BY <1>1, GetKeepsClean
<1>2. ASSUME NEW u \in Users, PutNil(u) PROVE CleanInv'
  BY <1>2, NilKeepsClean
<1>3. ASSUME NEW o, Drop(o) PROVE CleanInv'
  BY <1>3, NilKeepsClean
<1>4. ASSUME NEW u \in Users, NEW o,
             Use(u, o) \/ (\E f \in Fields(o), c \in held[u] \cup {Nil} : Link(u, o, f, c))
      PROVE  CleanInv'
  BY <1>4, WriteKeepsClean
<1>5. CASE UNCHANGED resetPoolVars
  <2>1. UNCHANGED <<struct, pool, made, held, val, stack, got, nilPut>>
    BY <1>5 DEF resetPoolVars
  <2>2. Unused' = Unused
    BY <2>1 DEF Unused
  <2>3. UnusedIsClean' /\ ResetSoFar'
    BY <2>1, <2>2, SameStack, CleanKept
  <2> QED
    BY <2>1, <2>3 DEF CleanInv, GotIsHeld, NilWasPut
<1> QED
  BY <1>1, <1>2, <1>3, <1>4, <1>5, PutKeepsClean, FieldKeepsClean, LinkedKeepsClean,
     ReturnKeepsClean
  DEF ResetPoolNext, Rest

LEMMA CleanAlways == ResetPoolSpec => []CleanInv
  BY CleanInit, CleanNext, PoolAlways, PTL DEF ResetPoolSpec

\* What Get returns has no data of its last user (pool.go:78), but in fields whose
\* type has no Reset; and it is nil only if somebody has put nil.
THEOREM CleanCorrect == ResetPoolSpec => []GetIsClean
<1>1. PoolInv /\ CleanInv => GetIsClean
  <2> SUFFICES ASSUME PoolInv, CleanInv, NEW u \in Users, NEW o \in Objects \cup {Nil}, o \in got[u]
               PROVE  IF o = Nil THEN nilPut
                      ELSE \A f \in Fields(o) : ~IsLink(o, f) /\ val[o][f] = "used" =>
                             f = "" \/ Carries(TypeOf(o, f), Tidy)
    BY DEF GetIsClean
  <2>1. CASE o = Nil
    BY <2>1 DEF CleanInv, NilWasPut
  <2>2. CASE o # Nil
    <3>1. o \in Unused
      BY <2>2 DEF Unused
    <3> QED
      BY <2>2, <3>1 DEF CleanInv, UnusedIsClean, Clean
  <2> QED
    BY <2>1, <2>2
<1> QED
  BY <1>1, PoolAlways, CleanAlways, PTL
=============================================================================
