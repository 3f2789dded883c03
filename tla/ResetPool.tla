------------------------------ MODULE ResetPool ------------------------------
(***************************************************************************)
(* pool.Pool (internal/pool): a sync.Pool of structures whose generated    *)
(* Reset method runs in Put, statement by statement, in the goroutine that *)
(* gives the structure back.                                               *)
(*                                                                         *)
(* A Reset follows the pointers to other structures and leaves them where  *)
(* they are, so that two structures stay linked when both are in the pool. *)
(* Goroutines write to what Get gave them and put it back once; they may   *)
(* link the structures they hold, also to structures of other types that   *)
(* they allocate themselves, and may put nil.                              *)
(***************************************************************************)
EXTENDS ResetGen, Integers, FiniteSets

CONSTANTS Users,    \* the goroutines that use the pool
          Objects,  \* bound: the structures that can be allocated
          Kind,     \* the name of the type of each of them
          Pooled,   \* the names of the structures to make pools of
          Nil

\* A pointer to a structure with a generated Reset.
PointsToGenerated(t) ==
  t.node = "star" /\ t.elem.node = "named" /\ t.elem.name \in Generated

\* The links of a structure are fields of its own: a structure nested in it by
\* value has none.
NestedHasNoLinks ==
  \A name \in Generated : \A i \in DOMAIN Package[name].fields :
    LET t == Package[name].fields[i].type
    IN  t.node = "named" /\ t.name \in Generated =>
          \A j \in DOMAIN Package[t.name].fields :
            ~PointsToGenerated(Package[t.name].fields[j].type)

ASSUME ResetPoolAssumption ==
  /\ Nil \notin Objects
  /\ IsFiniteSet(Objects)
  /\ Pooled \subseteq Generated
  /\ \A name \in DOMAIN Package : WellFormed(Package[name])
  /\ \A name \in Generated : Compiles(Package[name])
  /\ Kind \in [Objects -> Generated]
  /\ NestedHasNoLinks

VARIABLES
  struct,  \* the name of the structure T of this Pool[T]
  pool,    \* what is in the sync.Pool
  made,    \* the structures that were allocated
  held,    \* the structures each goroutine has
  val,     \* val[o]: the fields of o, "zero", "used" or a structure
  stack,   \* the calls of Reset each goroutine is in: [obj, next statement]
  got,     \* what each goroutine's last Get returned, if it was the last call
  nilPut,  \* history: somebody has put nil
  kept,    \* history: the links <<from, to>> that were there when from was put
  relinked, \* history: of what is being reset, that which had a link set meanwhile
  fatal    \* a goroutine's stack has overflowed

resetPoolVars == <<struct, pool, made, held, val, stack, got, nilPut, kept, relinked, fatal>>

\* The type of each field, and the body of the generated method.
Types   == [name \in DOMAIN Package |-> Declared(Package[name])]
Methods == [name \in DOMAIN Package |-> Method(Package[name])]

Fields(o)    == DOMAIN Types[Kind[o]]
TypeOf(o, f) == Types[Kind[o]][f]
Body(o)      == Methods[Kind[o]]
IsLink(o, f) == f \in Fields(o) /\ f # "" /\ PointsToGenerated(TypeOf(o, f))
Frames       == [obj : Objects, next : Nat]
Fresh(o)     == [f \in Fields(o) |-> IF IsLink(o, f) THEN Nil ELSE "zero"]

\* What a link may be: nil, or a structure of the type it points to.
Targets(o, f) == {Nil} \cup {c \in Objects : Kind[c] = TypeOf(o, f).elem.name}

ResetPoolInit ==
  /\ struct \in Pooled
  /\ pool = {}
  /\ made = {}
  /\ held = [u \in Users |-> {}]
  /\ val = [o \in Objects |-> Fresh(o)]
  /\ stack = [u \in Users |-> <<>>]
  /\ got = [u \in Users |-> {}]
  /\ nilPut = FALSE
  /\ kept = {}
  /\ relinked = {}
  /\ fatal = FALSE

Free(u) == ~fatal /\ stack[u] = <<>>

\* The structures that some goroutine is in the Reset of.
Entered == UNION {{stack[u][i].obj : i \in DOMAIN stack[u]} : u \in Users}

\* Faulty variant: what Get returns is used although it may be nil.
HandsNil(u, o) ==
  /\ held' = [held EXCEPT ![u] = @ \cup {o}]
  /\ got' = [got EXCEPT ![u] = {o}]

Hands(u, o) ==
  /\ held' = [held EXCEPT ![u] = @ \cup ({o} \ {Nil})]
  /\ got' = [got EXCEPT ![u] = {o}]

\* Faulty variant: the pool forgets to remove what it hands out.
GetPooledKeeps(u, o) ==
  /\ Free(u)
  /\ o \in pool
  /\ Hands(u, o)
  /\ UNCHANGED <<struct, pool, made, val, stack, nilPut, kept, relinked, fatal>>

(***************************************************************************)
(* Get: anything in the pool, or a new structure, also when the pool is    *)
(* not empty; and the pool may drop what it has.                           *)
(***************************************************************************)
GetPooled(u, o) ==
  /\ Free(u)
  /\ o \in pool
  /\ pool' = pool \ {o}
  /\ Hands(u, o)
  /\ UNCHANGED <<struct, made, val, stack, nilPut, kept, relinked, fatal>>

GetNew(u, o) ==
  /\ Free(u)
  /\ o \in Objects \ made
  /\ Kind[o] = struct
  /\ made' = made \cup {o}
  /\ Hands(u, o)
  /\ UNCHANGED <<struct, pool, val, stack, nilPut, kept, relinked, fatal>>

Drop(o) ==
  /\ ~fatal
  /\ o \in pool
  /\ pool' = pool \ {o}
  /\ UNCHANGED <<struct, made, held, val, stack, got, nilPut, kept, relinked, fatal>>

(***************************************************************************)
(* What a goroutine does with a structure it holds: it writes to all       *)
(* fields, or sets the links, to what it has or to a new structure of      *)
(* another type.                                                           *)
(***************************************************************************)
Allocate(u, o) ==
  /\ Free(u)
  /\ o \in Objects \ made
  /\ Kind[o] # struct
  /\ \E p \in held[u] : \E f \in Fields(p) : IsLink(p, f) /\ o \in Targets(p, f)
  /\ made' = made \cup {o}
  /\ held' = [held EXCEPT ![u] = @ \cup {o}]
  /\ got' = [got EXCEPT ![u] = {}]
  /\ UNCHANGED <<struct, pool, val, stack, nilPut, kept, relinked, fatal>>

Use(u, o) ==
  /\ Free(u)
  /\ o \in held[u]
  /\ val' = [val EXCEPT ![o] = [f \in Fields(o) |-> IF IsLink(o, f) THEN @[f] ELSE "used"]]
  /\ got' = [got EXCEPT ![u] = {}]
  /\ UNCHANGED <<struct, pool, made, held, stack, nilPut, kept, relinked, fatal>>

Link(u, o, f, c) ==
  /\ Free(u)
  /\ o \in held[u]
  /\ IsLink(o, f)
  /\ c \in (held[u] \cup {Nil}) \cap Targets(o, f)
  /\ val' = [val EXCEPT ![o][f] = c]
  /\ got' = [got EXCEPT ![u] = {}]
  /\ relinked' = relinked \cup ({o} \cap Entered)
  /\ UNCHANGED <<struct, pool, made, held, stack, nilPut, kept, fatal>>

(***************************************************************************)
(* Put.                                                                    *)
(***************************************************************************)
Links(o) == {f \in Fields(o) : IsLink(o, f) /\ val[o][f] # Nil}

\* Faulty variant: the structure is in the pool before it is reset.
PutEarly(u, o) ==
  /\ Free(u)
  /\ o \in held[u] /\ Kind[o] = struct
  /\ held' = [held EXCEPT ![u] = @ \ {o}]
  /\ got' = [got EXCEPT ![u] = {}]
  /\ stack' = [stack EXCEPT ![u] = <<[obj |-> o, next |-> 1]>>]
  /\ kept' = kept \cup {<<o, val[o][f]>> : f \in Links(o)}
  /\ pool' = pool \cup {o}
  /\ UNCHANGED <<struct, made, val, nilPut, relinked, fatal>>

\* Put calls obj.Reset(), and the goroutine no longer has the structure.
Put(u, o) ==
  /\ Free(u)
  /\ o \in held[u] /\ Kind[o] = struct
  /\ held' = [held EXCEPT ![u] = @ \ {o}]
  /\ got' = [got EXCEPT ![u] = {}]
  /\ stack' = [stack EXCEPT ![u] = <<[obj |-> o, next |-> 1]>>]
  /\ kept' = kept \cup {<<o, val[o][f]>> : f \in Links(o)}
  /\ UNCHANGED <<struct, pool, made, val, nilPut, relinked, fatal>>

\* Reset returns at once, and nil goes into the pool: a nil pointer in an
\* interface is not the nil that sync.Pool ignores.
PutNil(u) ==
  /\ Free(u)
  /\ ~nilPut
  /\ nilPut' = TRUE
  /\ got' = [got EXCEPT ![u] = {}]
  /\ pool' = pool \cup {Nil}
  /\ UNCHANGED <<struct, made, held, val, stack, kept, relinked, fatal>>

Top(u)  == stack[u][Len(stack[u])]
Step(u) == Body(Top(u).obj)[Top(u).next]
Popped(u) == [stack EXCEPT ![u] = SubSeq(@, 1, Len(@) - 1)]
Advanced(u) == [stack EXCEPT ![u][Len(stack[u])].next = @ + 1]

\* Whether goroutine u has statements left in the method it is in.
Running(u) == stack[u] # <<>> /\ Top(u).next <= Len(Body(Top(u).obj))
Ended(u)   == stack[u] # <<>> /\ Top(u).next > Len(Body(Top(u).obj))

\* One statement that is not a call of Reset on another structure of the pool.
ResetField(u) ==
  /\ ~fatal
  /\ Running(u)
  /\ LET f == Step(u).field  o == Top(u).obj
     IN  /\ IsLink(o, f) => val[o][f] = Nil
         /\ val' = IF ~IsLink(o, f) /\ Empties(Step(u), Emptied)
                   THEN [val EXCEPT ![o][f] = "zero"] ELSE val
  /\ stack' = Advanced(u)
  /\ UNCHANGED <<struct, pool, made, held, got, nilPut, kept, relinked, fatal>>

\* Faulty variant: the method calls itself on its own receiver.
CalledSelf(u) == IF val[Top(u).obj][Step(u).field] = Nil THEN Nil ELSE Top(u).obj

Called(u) == val[Top(u).obj][Step(u).field]

\* The call of Reset on the structure a link leads to.  A stack with more calls
\* than structures were allocated has one of them twice.  Bound: the calls that go
\* round in a circle are taken to overflow the stack there, which ends the process.
ResetLinked(u) ==
  /\ ~fatal
  /\ Running(u)
  /\ IsLink(Top(u).obj, Step(u).field) /\ Called(u) # Nil
  /\ IF Len(stack[u]) <= Cardinality(made)
     THEN /\ stack' = [Advanced(u) EXCEPT ![u] = Append(@, [obj |-> Called(u), next |-> 1])]
          /\ UNCHANGED fatal
     ELSE /\ fatal' = TRUE
          /\ UNCHANGED stack
  /\ UNCHANGED <<struct, pool, made, held, val, got, nilPut, kept, relinked>>

\* A Reset returns: to the Reset that called it, or to Put, which gives the
\* structure to the sync.Pool.
ResetReturns(u) ==
  /\ ~fatal
  /\ Ended(u)
  /\ stack' = Popped(u)
  /\ pool' = IF Len(stack[u]) = 1 THEN pool \cup {Top(u).obj} ELSE pool
  /\ relinked' = relinked \cap Entered'
  /\ UNCHANGED <<struct, made, held, val, got, nilPut, kept, fatal>>

\* The process is gone, or the goroutines have nothing left to do.
Rest == UNCHANGED resetPoolVars

ResetPoolNext ==
  \/ \E u \in Users :
       \/ \E o \in pool : GetPooled(u, o)
       \/ \E o \in Objects : GetNew(u, o) \/ Allocate(u, o) \/ Use(u, o) \/ Put(u, o)
       \/ \E o \in held[u], c \in held[u] \cup {Nil} : \E f \in Fields(o) : Link(u, o, f, c)
       \/ PutNil(u)
       \/ ResetField(u) \/ ResetLinked(u) \/ ResetReturns(u)
  \/ \E o \in pool : Drop(o)
  \/ Rest

ResetPoolSpec == ResetPoolInit /\ [][ResetPoolNext]_resetPoolVars
-----------------------------------------------------------------------------
ResetPoolTypeOK ==
  /\ struct \in Pooled
  /\ made \subseteq Objects
  /\ pool \subseteq made \cup {Nil}
  /\ held \in [Users -> SUBSET made]
  /\ \A o \in pool \ {Nil} : Kind[o] = struct
  /\ val = [o \in Objects |-> [f \in Fields(o) |-> val[o][f]]]
  /\ \A o \in Objects : \A f \in Fields(o) :
       val[o][f] \in IF IsLink(o, f) THEN Targets(o, f) ELSE {"zero", "used"}
  /\ stack \in [Users -> Seq(Frames)]
  /\ got \in [Users -> SUBSET (made \cup {Nil})]
  /\ relinked \subseteq Objects
  /\ {nilPut, fatal} \subseteq BOOLEAN

\* The structure of one call has a link to the structure of the next.
Follows(calls, k) == \E f \in Links(calls[k].obj) : val[calls[k].obj][f] = calls[k + 1].obj

\* What a goroutine is putting back: no longer its own, not yet the pool's.
Returning(u) == IF stack[u] = <<>> THEN {} ELSE {stack[u][1].obj}

\* "Thread-safe" (pool/README.md:12): a structure has at most one owner, a
\* goroutine that got it, one that is putting it back, or the pool, however
\* Get, Put and the pool's own dropping interleave.
OneOwner ==
  /\ \A u \in Users : (held[u] \cup Returning(u)) \cap pool = {} /\ held[u] \cap Returning(u) = {}
  /\ \A u, v \in Users : u # v =>
       (held[u] \cup Returning(u)) \cap (held[v] \cup Returning(v)) = {}

\* The types a field of which may carry data from one user to the next, when the
\* structures of S carry none: a named type, or a pointer to one, without a Reset, a
\* nested structure that carries some, a pointer to anything but a structure, a
\* slice, a map or a basic type.
Carries(t, S) ==
  \/ t.node = "named" /\ t.name \notin Primitives \cup S
  \/ /\ t.node = "star"
     /\ \/ t.elem.node = "named" /\ t.elem.name \notin Primitives
        \/ t.elem.node \in {"star", "struct", "other"}

\* The structures that carry nothing: no embedded field, and no field that carries.
TidyTogether(S) ==
  \A name \in S : \A i \in DOMAIN Package[name].fields :
    Package[name].fields[i].name # "" /\ ~Carries(Package[name].fields[i].type, S)

Tidy == {name \in Generated : \E S \in SUBSET Generated : name \in S /\ TidyTogether(S)}

\* Get returns a structure without data of its last user (pool.go:78, "it must
\* be in the initial state"), in every field that does not carry over; or nil,
\* if somebody has put nil, although Put "just returns" then (pool.go:93).
GetIsClean ==
  \A u \in Users, o \in Objects \cup {Nil} : o \in got[u] =>
    IF o = Nil THEN nilPut
    ELSE \A f \in Fields(o) :
           ~IsLink(o, f) /\ val[o][f] = "used" => f = "" \/ Carries(TypeOf(o, f), Tidy)

HeldChanges ==
  \A u \in Users : \A o \in held[u] : val'[o] # val[o] =>
    \/ stack[u] = <<>> /\ stack' = stack
    \/ \E v \in Users :
         /\ Len(stack[v]) > 1
         /\ Top(v).obj = o
         /\ <<stack[v][1].obj, stack[v][2].obj>> \in kept

\* A structure a goroutine holds is changed without its writing to it in one way
\* only: by a Reset that some Put of another structure came to over links, the
\* first of them a link the structure put still had.  (Reset leaves links where they are,
\* so that Get may return structures that are linked already.)
OthersNeedLink == [][HeldChanges]_resetPoolVars

\* Reset ends, unless the links lead in a circle: it has come back to a structure
\* it is in already, each call by a link that is still there, or that the holder
\* of the structure has set while the structure was being reset.
FatalNeedsCircle ==
  fatal => \E u \in Users : \E i, j \in DOMAIN stack[u] :
    /\ i < j
    /\ stack[u][i].obj = stack[u][j].obj
    /\ \A k \in i .. j - 1 : Follows(stack[u], k) \/ stack[u][k].obj \in relinked
=============================================================================
