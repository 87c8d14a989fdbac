--------------------------- MODULE Storage_proofs ---------------------------
(***************************************************************************)
(* What the rest of mcast is built from, for any number of variables,      *)
(* addresses and threads: a Status owns its array alone and says what it   *)
(* was given, the memory of an ObjectCache has one owner, the ring and the *)
(* queue of blocks are sequences, whatever their positions wrapped to, the *)
(* stopwatch tells the time that passed, and every jump between contexts   *)
(* arrives with the registers of the context it goes to.                   *)
(***************************************************************************)
EXTENDS Status, ObjectCache, BlockQueue, Timer, Context,
        FiniteSetTheorems, SequenceTheorems, TLAPS

-----------------------------------------------------------------------------
(* Status                                                                  *)

ArrayContents == [state : States, size : Nat, text : Nat]

StatusTypeOK ==
    /\ state_ \in [Statuses -> Arrays \cup {Null}]
    /\ DOMAIN heap \in SUBSET Arrays
    /\ heap \in [DOMAIN heap -> ArrayContents]
    /\ meant \in [Statuses -> [state : States \cup {"OK"}, text : Nat]]

\* What a variable was given is in its array, or it was given nothing.
MeantInv ==
    \A v \in Statuses :
        IF state_[v] = Null THEN meant[v] = OKMeant
        ELSE /\ heap[state_[v]].state = meant[v].state
             /\ heap[state_[v]].size = meant[v].text
             /\ heap[state_[v]].size <= heap[state_[v]].text

\* Every array has one owner, who has it allocated.
OwnerInv ==
    /\ \A v \in Statuses : state_[v] # Null => state_[v] \in DOMAIN heap
    /\ \A v, w \in Statuses : state_[v] # Null /\ state_[v] = state_[w] => v = w
    /\ \A a \in DOMAIN heap : \E v \in Statuses : state_[v] = a

StatusInv == StatusTypeOK /\ OwnerInv /\ MeantInv

\* The length byte never says more than the text has.
LEMMA LengthByte ==
    ASSUME NEW n \in Nat
    PROVE  n % ByteMod \in Nat /\ n % ByteMod <= n
BY StatusAssumption

LEMMA StatusInvImplies == StatusInv => StatusSaysWhatWasMeant
<1> SUFFICES ASSUME StatusInv PROVE StatusSaysWhatWasMeant
  OBVIOUS
<1>1. ArraysHaveOneOwner
  <2>1. \A v, w \in Statuses : v # w /\ ~ IsOK(v) => state_[v] # state_[w]
    BY DEF StatusInv, OwnerInv, IsOK
  <2>2. Null \notin DOMAIN heap
    BY StatusAssumption DEF StatusInv, StatusTypeOK
  <2>3. {state_[v] : v \in Statuses} \ {Null} = DOMAIN heap
    BY <2>2 DEF StatusInv, OwnerInv
  <2> QED
    BY <2>1, <2>3 DEF ArraysHaveOneOwner
<1>2. ASSUME NEW v \in Statuses
      PROVE  /\ StateValue(v) = meant[v].state
             /\ ErrorText(v) = meant[v].text
             /\ ~ IsOK(v) => ErrorTextSize(v) <= heap[state_[v]].text
  BY DEF StatusInv, MeantInv, StateValue, ErrorText, ErrorTextSize, IsOK, OKMeant
<1> QED
  BY <1>1, <1>2 DEF StatusSaysWhatWasMeant

\* A variable that is given a new array frees its old one.
LEMMA NewArrayKeeps ==
    ASSUME StatusInv, NEW v \in Statuses, NEW a \in Arrays \ DOMAIN heap,
           NEW x \in ArrayContents, x.size <= x.text,
           NEW m \in [state : States \cup {"OK"}, text : Nat],
           x.state = m.state, x.size = m.text,
           heap' = Allocate(Without(heap, v), a, x),
           state_' = [state_ EXCEPT ![v] = a],
           meant' = [meant EXCEPT ![v] = m]
    PROVE  StatusInv'
<1> USE DEF StatusInv
<1>1. /\ DOMAIN heap' = (DOMAIN heap \ {state_[v]}) \cup {a}
      /\ heap'[a] = x
      /\ \A b \in DOMAIN heap : b # state_[v] => heap'[b] = heap[b]
  BY DEF Without, Allocate
<1>2. /\ state_'[v] = a /\ meant'[v] = m
      /\ \A w \in Statuses : w # v => state_'[w] = state_[w] /\ meant'[w] = meant[w]
  BY DEF StatusTypeOK
<1>3. a # Null
  BY StatusAssumption
<1>4. StatusTypeOK'
  <2>1. heap' = [b \in DOMAIN heap' |-> heap'[b]]
    BY DEF Allocate
  <2>2. \A b \in DOMAIN heap' : b \in Arrays /\ heap'[b] \in ArrayContents
    BY <1>1 DEF StatusTypeOK
  <2>3. heap' \in [DOMAIN heap' -> ArrayContents]
    BY <2>1, <2>2
  <2> QED
    BY <2>2, <2>3 DEF StatusTypeOK
<1>5. OwnerInv'
  BY <1>1, <1>2, <1>3 DEF OwnerInv
<1>6. MeantInv'
  BY <1>1, <1>2, <1>3 DEF MeantInv, OwnerInv
<1> QED
  BY <1>4, <1>5, <1>6

LEMMA ConstructKeeps ==
    ASSUME StatusInv, NEW v \in Statuses, NEW s \in UsedStates, NEW size \in TextSizes,
           NEW a \in Arrays, Construct(v, s, size, a)
    PROVE  StatusInv'
<1>1. s \in States /\ size \in Nat
  BY UsedStatesAssumption, StatusAssumption
<1>2. size % ByteMod \in Nat /\ size % ByteMod <= size
  BY <1>1, LengthByte
<1> DEFINE x == NewArray(s, size)
           m == [state |-> s, text |-> size % ByteMod]
<1>3. /\ x \in ArrayContents /\ x.size <= x.text
      /\ m \in [state : States \cup {"OK"}, text : Nat]
      /\ x.state = m.state /\ x.size = m.text
  BY <1>1, <1>2 DEF NewArray, ArrayContents
<1>4. /\ a \in Arrays \ DOMAIN heap
      /\ heap' = Allocate(Without(heap, v), a, x)
      /\ state_' = [state_ EXCEPT ![v] = a]
      /\ meant' = [meant EXCEPT ![v] = m]
  BY DEF Construct
<1> HIDE DEF x, m
<1> QED
  BY <1>3, <1>4, NewArrayKeeps

\* A variable that becomes OK frees its array.
LEMMA FreeArrayKeeps ==
    ASSUME StatusInv, NEW v \in Statuses,
           heap' = Without(heap, v),
           state_' = [state_ EXCEPT ![v] = Null],
           meant' = [meant EXCEPT ![v] = OKMeant]
    PROVE  StatusInv'
<1> USE DEF StatusInv
<1>1. /\ DOMAIN heap' = DOMAIN heap \ {state_[v]}
      /\ \A b \in DOMAIN heap : b # state_[v] => heap'[b] = heap[b]
  BY DEF Without
<1>2. /\ state_'[v] = Null /\ meant'[v] = OKMeant
      /\ \A w \in Statuses : w # v => state_'[w] = state_[w] /\ meant'[w] = meant[w]
  BY DEF StatusTypeOK
<1>3. StatusTypeOK'
  <2>1. heap' = [b \in DOMAIN heap' |-> heap'[b]]
    BY DEF Without
  <2>2. \A b \in DOMAIN heap' : b \in Arrays /\ heap'[b] \in ArrayContents
    BY <1>1 DEF StatusTypeOK
  <2>3. heap' \in [DOMAIN heap' -> ArrayContents]
    BY <2>1, <2>2
  <2>4. OKMeant \in [state : States \cup {"OK"}, text : Nat]
    BY DEF OKMeant
  <2> QED
    BY <2>2, <2>3, <2>4 DEF StatusTypeOK
<1>4. OwnerInv'
  BY <1>1, <1>2 DEF OwnerInv
<1>5. MeantInv'
  BY <1>1, <1>2 DEF MeantInv, OwnerInv
<1> QED
  BY <1>3, <1>4, <1>5

LEMMA CopyAssignKeeps ==
    ASSUME StatusInv, NEW v \in Statuses, NEW w \in Statuses, NEW a \in Arrays,
           CopyAssign(v, w, a)
    PROVE  StatusInv'
<1>1. CASE IsOK(w)
  <2>1. /\ heap' = Without(heap, v)
        /\ state_' = [state_ EXCEPT ![v] = Null]
        /\ meant' = [meant EXCEPT ![v] = OKMeant]
    BY <1>1 DEF CopyAssign, CopyTarget, IsOK, StatusInv, MeantInv
  <2> QED
    BY <2>1, FreeArrayKeeps
<1>2. CASE ~ IsOK(w)
  <2> DEFINE y == heap[state_[w]]
             x == [y EXCEPT !.text = ErrorTextSize(w)]
  <2>1. /\ state_[w] \in DOMAIN heap
        /\ y \in ArrayContents
        /\ y.state = meant[w].state /\ y.size = meant[w].text
        /\ meant[w] \in [state : States \cup {"OK"}, text : Nat]
    BY <1>2 DEF StatusInv, OwnerInv, MeantInv, StatusTypeOK, IsOK
  <2>2. /\ x \in ArrayContents /\ x.size <= x.text
        /\ x.state = meant[w].state /\ x.size = meant[w].text
    BY <2>1 DEF ArrayContents, ErrorTextSize
  <2>3. /\ a \in Arrays \ DOMAIN heap
        /\ heap' = Allocate(Without(heap, v), a, x)
        /\ state_' = [state_ EXCEPT ![v] = a]
        /\ meant' = [meant EXCEPT ![v] = meant[w]]
    BY <1>2 DEF CopyAssign, CopyTarget
  <2> HIDE DEF x, y
  <2> QED
    BY <2>1, <2>2, <2>3, NewArrayKeeps
<1> QED
  BY <1>1, <1>2

LEMMA MoveAssignKeeps ==
    ASSUME StatusInv, NEW v \in Statuses, NEW w \in Statuses, MoveAssign(v, w)
    PROVE  StatusInv'
<1> USE DEF StatusInv
<1>1. /\ DOMAIN heap' = DOMAIN heap \ {state_[v]}
      /\ \A b \in DOMAIN heap : b # state_[v] => heap'[b] = heap[b]
  BY DEF Without, MoveAssign
<1>2. /\ state_'[v] = state_[w] /\ meant'[v] = meant[w]
      /\ state_'[w] = Null /\ meant'[w] = OKMeant /\ v # w
      /\ \A u \in Statuses : u # v /\ u # w => state_'[u] = state_[u] /\ meant'[u] = meant[u]
  BY DEF MoveAssign, MovedFrom, StatusTypeOK
<1>3. StatusTypeOK'
  <2>1. heap' = [b \in DOMAIN heap' |-> heap'[b]]
    BY DEF Without, MoveAssign
  <2>2. \A b \in DOMAIN heap' : b \in Arrays /\ heap'[b] \in ArrayContents
    BY <1>1 DEF StatusTypeOK
  <2>3. heap' \in [DOMAIN heap' -> ArrayContents]
    BY <2>1, <2>2
  <2>4. OKMeant \in [state : States \cup {"OK"}, text : Nat]
    BY DEF OKMeant
  <2> QED
    BY <2>2, <2>3, <2>4 DEF StatusTypeOK, MoveAssign, MovedFrom
<1>4. OwnerInv'
  BY <1>1, <1>2 DEF OwnerInv
<1>5. MeantInv'
  BY <1>1, <1>2 DEF MeantInv, OwnerInv
<1> QED
  BY <1>3, <1>4, <1>5

LEMMA StatusSwapKeeps ==
    ASSUME StatusInv, NEW v \in Statuses, NEW w \in Statuses, StatusSwap(v, w)
    PROVE  StatusInv'
<1> USE DEF StatusInv
<1>1. /\ state_'[v] = state_[w] /\ meant'[v] = meant[w]
      /\ state_'[w] = state_[v] /\ meant'[w] = meant[v]
      /\ \A u \in Statuses : u # v /\ u # w => state_'[u] = state_[u] /\ meant'[u] = meant[u]
      /\ heap' = heap
  BY DEF StatusSwap, StatusTypeOK
<1>2. StatusTypeOK'
  BY DEF StatusTypeOK, StatusSwap
<1>3. OwnerInv'
  BY <1>1 DEF OwnerInv
<1>4. MeantInv'
  BY <1>1 DEF MeantInv
<1> QED
  BY <1>2, <1>3, <1>4

LEMMA StatusStep == StatusInv /\ [StatusNext]_statusVars => StatusInv'
<1> SUFFICES ASSUME StatusInv, [StatusNext]_statusVars PROVE StatusInv'
  OBVIOUS
<1>1. CASE UNCHANGED statusVars
  BY <1>1 DEF StatusInv, StatusTypeOK, OwnerInv, MeantInv, statusVars
<1> QED
  BY <1>1, ConstructKeeps, CopyAssignKeeps, MoveAssignKeeps, StatusSwapKeeps,
     FreeArrayKeeps DEF StatusNext, Destroy

\* Status: through any constructions, copies, moves, swaps and destructions,
\* self-assignment and reused addresses included, a variable owns its array
\* alone and returns the state and the text it was given.
THEOREM StatusesSayWhatWasMeant == StatusSpec => []StatusSaysWhatWasMeant
<1>1. StatusInit => StatusInv
  <2> SUFFICES ASSUME StatusInit PROVE StatusInv
    OBVIOUS
  <2>1. DOMAIN heap = {} /\ heap \in [DOMAIN heap -> ArrayContents]
    BY DEF StatusInit
  <2>2. OKMeant \in [state : States \cup {"OK"}, text : Nat]
    BY DEF OKMeant
  <2>3. StatusTypeOK
    BY <2>1, <2>2 DEF StatusInit, StatusTypeOK
  <2>4. OwnerInv /\ MeantInv
    BY <2>1 DEF StatusInit, OwnerInv, MeantInv
  <2> QED
    BY <2>3, <2>4 DEF StatusInv
<1> QED
  BY <1>1, StatusStep, StatusInvImplies, PTL DEF StatusSpec

-----------------------------------------------------------------------------
(* ObjectCache                                                             *)

CacheTypeOK ==
    /\ singletons \in 0 .. 1
    /\ cacheOf \in [CacheThreads -> Seq(Objects) \cup {NoCache}]
    /\ bufferOf \in [CacheThreads -> [id : 0 .. MaxBuffers, size : 0 .. NumBufferObjects]]
    /\ cacheList \in Seq(Seq(Objects))
    /\ buffers \in 0 .. MaxBuffers
    /\ held \in SUBSET Objects
    /\ cacheAt \in [CacheThreads -> {"user", "create", "get", "put", "peek", "list",
                                     "buffer", "spill"}]
    /\ putArg \in [CacheThreads -> Objects \cup {NoObject}]
    /\ atExit \in [CacheThreads -> BOOLEAN]

\* A thread puts an object back only where it says so, looks for one
\* elsewhere with its own cache empty, and spills a full cache.
StageInv ==
    \A t \in CacheThreads :
        /\ cacheAt[t] \in {"user", "get", "peek", "list", "buffer"} => putArg[t] = NoObject
        /\ cacheAt[t] \in {"put", "spill"} => putArg[t] # NoObject
        /\ cacheAt[t] \in {"peek", "list", "buffer"} => ThisThreadCache(t) = <<>>
        /\ cacheAt[t] = "spill" =>
             cacheOf[t] # NoCache /\ Len(cacheOf[t]) = NumCacheObjects

FullInv ==
    /\ ListedCachesAreFull
    /\ \A t \in CacheThreads : Len(ThisThreadCache(t)) <= NumCacheObjects

\* No two threads carve the same buffer.
BufferInv ==
    \A t \in CacheThreads :
        /\ bufferOf[t].id <= buffers
        /\ bufferOf[t].id = 0 <=> bufferOf[t] = NoBuffer
        /\ \A u \in CacheThreads :
             bufferOf[t].id = bufferOf[u].id /\ bufferOf[t].id # 0 => t = u

\* Users, threads that put back, caches and listed caches have nothing in
\* common, and none has anything twice.
HandsApart == \A t \in CacheThreads : putArg[t] \notin held

PutsApart ==
    \A t, u \in CacheThreads : putArg[t] = putArg[u] /\ putArg[t] # NoObject => t = u

OwnApart ==
    \A t \in CacheThreads : \A i \in 1 .. Len(ThisThreadCache(t)) :
        /\ ThisThreadCache(t)[i] \notin held
        /\ \A u \in CacheThreads :
             /\ putArg[u] # ThisThreadCache(t)[i]
             /\ \A j \in 1 .. Len(ThisThreadCache(u)) :
                  ThisThreadCache(t)[i] = ThisThreadCache(u)[j] => t = u /\ i = j

ListedApart ==
    \A n \in 1 .. Len(cacheList) : \A i \in 1 .. Len(cacheList[n]) :
        /\ cacheList[n][i] \notin held
        /\ \A u \in CacheThreads :
             /\ putArg[u] # cacheList[n][i]
             /\ \A j \in 1 .. Len(ThisThreadCache(u)) :
                  cacheList[n][i] # ThisThreadCache(u)[j]
        /\ \A m \in 1 .. Len(cacheList) : \A j \in 1 .. Len(cacheList[m]) :
             cacheList[n][i] = cacheList[m][j] => n = m /\ i = j

ApartInv == HandsApart /\ PutsApart /\ OwnApart /\ ListedApart

\* An object is somewhere.
Present(obj) ==
    \/ obj \in held
    \/ \E t \in CacheThreads : putArg[t] = obj
    \/ \E t \in CacheThreads : \E i \in 1 .. Len(ThisThreadCache(t)) :
         ThisThreadCache(t)[i] = obj
    \/ \E n \in 1 .. Len(cacheList) : \E i \in 1 .. Len(cacheList[n]) :
         cacheList[n][i] = obj

\* Only what a buffer has handed out is anywhere.
CarvedInv == \A obj \in Objects : Present(obj) => ~ Uncarved(obj)

CacheInv ==
    CacheTypeOK /\ StageInv /\ FullInv /\ BufferInv /\ ApartInv /\ CarvedInv

\* The types of what is in the caches.
LEMMA CacheFacts ==
    ASSUME CacheTypeOK
    PROVE  /\ NoObject \notin Objects
           /\ \A t \in CacheThreads :
                /\ ThisThreadCache(t) \in Seq(Objects)
                /\ cacheOf[t] # NoCache => ThisThreadCache(t) = cacheOf[t]
                /\ cacheOf[t] = NoCache => ThisThreadCache(t) = <<>>
           /\ \A t \in CacheThreads, i \in Nat :
                i \in 1 .. Len(ThisThreadCache(t)) => ThisThreadCache(t)[i] \in Objects
           /\ \A n \in 1 .. Len(cacheList) :
                /\ cacheList[n] \in Seq(Objects)
                /\ \A i \in 1 .. Len(cacheList[n]) : cacheList[n][i] \in Objects
           /\ Len(cacheList) \in Nat
           /\ <<>> # NoCache
<1>1. NoObject \notin Objects
  BY DEF NoObject, Objects
<1>2. <<>> \in Seq(Objects)
  OBVIOUS
<1>3. \A t \in CacheThreads :
        /\ ThisThreadCache(t) \in Seq(Objects)
        /\ cacheOf[t] # NoCache => ThisThreadCache(t) = cacheOf[t]
        /\ cacheOf[t] = NoCache => ThisThreadCache(t) = <<>>
  BY <1>2, CacheAssumption DEF CacheTypeOK, ThisThreadCache
<1>4. \A n \in 1 .. Len(cacheList) : cacheList[n] \in Seq(Objects)
  BY DEF CacheTypeOK
<1>5. Len(cacheList) \in Nat
  BY DEF CacheTypeOK
<1>6. \A s \in Seq(Objects) : \A i \in 1 .. Len(s) : s[i] \in Objects
  OBVIOUS
<1> QED
  BY <1>1, <1>2, <1>3, <1>4, <1>5, <1>6, CacheAssumption

\* What the next state's caches are.
LEMMA CachePrimes ==
    \A t : ThisThreadCache(t)' = IF cacheOf'[t] = NoCache THEN <<>> ELSE cacheOf'[t]
  BY DEF ThisThreadCache

\* What is handed out and present in the next state.
LEMMA CarvedPrimes ==
    /\ \A obj : Uncarved(obj)' <=>
         \/ obj[1] > buffers'
         \/ \E t \in CacheThreads : bufferOf'[t].id = obj[1] /\ obj[2] >= bufferOf'[t].size
    /\ \A obj : Present(obj)' <=>
        \/ obj \in held'
        \/ \E t \in CacheThreads : putArg'[t] = obj
        \/ \E t \in CacheThreads : \E i \in 1 .. Len(ThisThreadCache(t)') :
             ThisThreadCache(t)'[i] = obj
        \/ \E n \in 1 .. Len(cacheList') : \E i \in 1 .. Len(cacheList'[n]) :
             cacheList'[n][i] = obj
  BY DEF Uncarved, Present

KeptPresent == \A obj \in Objects : Present(obj) => Present(obj)'

\* Without a new object, what a buffer has handed out stays handed out.
LEMMA CarvedStays ==
    ASSUME CarvedInv, UNCHANGED <<bufferOf, buffers>>,
           \A obj \in Objects : Present(obj)' => Present(obj)
    PROVE  CarvedInv'
  BY CarvedPrimes DEF CarvedInv, Uncarved

\* A user hands an object back, or asks for one.
LEMMA CacheBeginKeeps ==
    ASSUME CacheInv, NEW t \in CacheThreads, NEW obj \in held \cup {NoObject},
           CacheBegin(t, obj)
    PROVE  CacheInv' /\ KeptPresent
<1>1. /\ cacheAt[t] = "user"
      /\ cacheAt' \in {[cacheAt EXCEPT ![t] = "create"], [cacheAt EXCEPT ![t] = "get"],
                       [cacheAt EXCEPT ![t] = "put"]}
      /\ cacheAt'[t] = "get" => obj = NoObject
      /\ cacheAt'[t] = "put" => obj # NoObject
      /\ putArg' = [putArg EXCEPT ![t] = obj]
      /\ held' = held \ {obj}
      /\ UNCHANGED <<singletons, cacheOf, bufferOf, cacheList, bufferList, buffers, atExit>>
  BY DEF CacheBegin, CacheStep, CacheInv, CacheTypeOK
<1>2. \A u : ThisThreadCache(u)' = ThisThreadCache(u)
  BY <1>1, CachePrimes DEF ThisThreadCache
<1>3. putArg[t] = NoObject /\ NoObject \notin Objects /\ held \subseteq Objects
  BY <1>1, CacheFacts DEF CacheInv, StageInv, CacheTypeOK
<1>4. CacheTypeOK'
  BY <1>1, <1>3 DEF CacheInv, CacheTypeOK
<1>5. StageInv'
  BY <1>1, <1>2 DEF CacheInv, CacheTypeOK, StageInv
<1>6. FullInv' /\ BufferInv'
  BY <1>1, <1>2 DEF CacheInv, FullInv, BufferInv, ListedCachesAreFull
<1>7. HandsApart' /\ PutsApart'
  BY <1>1, <1>3 DEF CacheInv, ApartInv, HandsApart, PutsApart, CacheTypeOK
<1>8. OwnApart'
  <2>1. \A u \in CacheThreads : putArg'[u] \in {putArg[u], NoObject} \cup held
    BY <1>1 DEF CacheInv, CacheTypeOK
  <2>2. \A u \in CacheThreads : \A i \in 1 .. Len(ThisThreadCache(u)) :
          ThisThreadCache(u)[i] \in Objects
    BY CacheFacts DEF CacheInv
  <2> QED
    BY <1>1, <1>2, <1>3, <2>1, <2>2 DEF CacheInv, ApartInv, OwnApart
<1>9. ListedApart'
  <2>1. \A u \in CacheThreads : putArg'[u] \in {putArg[u], NoObject} \cup held
    BY <1>1 DEF CacheInv, CacheTypeOK
  <2>2. \A n \in 1 .. Len(cacheList) : \A i \in 1 .. Len(cacheList[n]) :
          cacheList[n][i] \in Objects
    BY CacheFacts DEF CacheInv
  <2>3. \A n \in 1 .. Len(cacheList) : \A i \in 1 .. Len(cacheList[n]) :
          \A u \in CacheThreads : putArg'[u] # cacheList[n][i]
    BY <1>3, <2>1, <2>2 DEF CacheInv, ApartInv, ListedApart
  <2> QED
    BY <1>1, <1>2, <2>3 DEF CacheInv, ApartInv, ListedApart
<1>10. \A o \in Objects : Present(o) <=> Present(o)'
  <2>1. \A o \in Objects :
          o \in held \/ (\E u \in CacheThreads : putArg[u] = o) <=>
          o \in held' \/ (\E u \in CacheThreads : putArg'[u] = o)
    BY <1>1, <1>3 DEF CacheInv, CacheTypeOK
  <2> QED
    BY <1>1, <1>2, <2>1, CarvedPrimes DEF Present
<1> QED
  BY <1>1, <1>4, <1>5, <1>6, <1>7, <1>8, <1>9, <1>10, CarvedStays
  DEF CacheInv, ApartInv, KeptPresent

\* Steps that leave every object where it is.
LEMMA QuietKeeps ==
    ASSUME CacheInv, UNCHANGED <<bufferOf, cacheList, buffers, held, putArg>>,
           \A u \in CacheThreads : ThisThreadCache(u)' = ThisThreadCache(u)
    PROVE  FullInv' /\ BufferInv' /\ ApartInv' /\ CarvedInv' /\ KeptPresent
<1>1. FullInv' /\ BufferInv'
  BY DEF CacheInv, FullInv, BufferInv, ListedCachesAreFull
<1>2. HandsApart' /\ PutsApart' /\ OwnApart' /\ ListedApart'
  BY DEF CacheInv, ApartInv, HandsApart, PutsApart, OwnApart, ListedApart
<1>3. \A o \in Objects : Present(o) <=> Present(o)'
  BY CarvedPrimes DEF Present
<1> QED
  BY <1>1, <1>2, <1>3, CarvedStays DEF CacheInv, ApartInv, KeptPresent

\* A first user constructs the MemCache, or finds it constructed.
LEMMA SingletonCreateKeeps ==
    ASSUME CacheInv, NEW t \in CacheThreads, SingletonCreate(t)
    PROVE  CacheInv' /\ KeptPresent
<1>1. /\ cacheAt' \in {[cacheAt EXCEPT ![t] = "get"], [cacheAt EXCEPT ![t] = "put"]}
      /\ cacheAt'[t] = "get" => putArg[t] = NoObject
      /\ cacheAt'[t] = "put" => putArg[t] # NoObject
      /\ UNCHANGED <<cacheOf, bufferOf, cacheList, bufferList, buffers, held, putArg, atExit>>
  BY DEF SingletonCreate, CacheStep, CacheInv, CacheTypeOK
<1>2. \A u : ThisThreadCache(u)' = ThisThreadCache(u)
  BY <1>1, CachePrimes DEF ThisThreadCache
<1>3. singletons' \in 0 .. 1
  BY DEF SingletonCreate, CreatedUnderLock, CacheInv, CacheTypeOK
<1>4. CacheTypeOK'
  BY <1>1, <1>3 DEF CacheInv, CacheTypeOK
<1>5. StageInv'
  BY <1>1, <1>2 DEF CacheInv, CacheTypeOK, StageInv
<1> QED
  BY <1>1, <1>2, <1>4, <1>5, QuietKeeps DEF CacheInv

\* The look at the list without its mutex moves nothing.
LEMMA PeekKeeps ==
    ASSUME CacheInv, NEW t \in CacheThreads, NEW empty \in BOOLEAN, PeekCacheList(t, empty)
    PROVE  CacheInv' /\ KeptPresent
<1>1. /\ cacheAt[t] = "peek"
      /\ cacheAt' \in {[cacheAt EXCEPT ![t] = "buffer"], [cacheAt EXCEPT ![t] = "list"]}
      /\ UNCHANGED <<singletons, cacheOf, bufferOf, cacheList, bufferList, buffers,
                     held, putArg, atExit>>
  BY DEF PeekCacheList, CacheStep
<1>2. \A u : ThisThreadCache(u)' = ThisThreadCache(u)
  BY <1>1, CachePrimes DEF ThisThreadCache
<1>3. CacheTypeOK'
  BY <1>1 DEF CacheInv, CacheTypeOK
<1>4. StageInv'
  BY <1>1, <1>2 DEF CacheInv, CacheTypeOK, StageInv
<1> QED
  BY <1>1, <1>2, <1>3, <1>4, QuietKeeps DEF CacheInv

LEMMA OneLess ==
    \A k \in Nat \ {0} :
        /\ k - 1 \in Int /\ (1 <= k - 1 \/ k - 1 = 0) /\ (k - 1) - 1 + 1 = k - 1
        /\ \A i \in 1 .. k - 1 : i \in 1 .. k
  OBVIOUS

\* A sequence without its last element.
LEMMA WithoutLast ==
    ASSUME NEW S, NEW s \in Seq(S), s # <<>>
    PROVE  LET front == SubSeq(s, 1, Len(s) - 1)
           IN  /\ front \in Seq(S)
               /\ Len(front) = Len(s) - 1
               /\ Len(s) \in Nat \ {0}
               /\ s[Len(s)] \in S
               /\ \A i \in 1 .. Len(front) : front[i] = s[i]
<1> DEFINE n == Len(s) - 1
<1>1. Len(s) \in Nat \ {0}
  OBVIOUS
<1>2. \A i \in 1 .. Len(s) : s[i] \in S
  OBVIOUS
<1>3. n \in Int /\ (1 <= n \/ n = 0) /\ n - 1 + 1 = n /\ \A i \in 1 .. n : i \in 1 .. Len(s)
  BY <1>1, OneLess, Zenon
<1>4. \A i \in 1 .. n : s[i] \in S
  BY <1>2, <1>3
<1> HIDE DEF n
<1>5. /\ SubSeq(s, 1, n) \in Seq(S)
      /\ Len(SubSeq(s, 1, n)) = IF 1 <= n THEN n - 1 + 1 ELSE 0
      /\ \A i \in 1 .. n - 1 + 1 : SubSeq(s, 1, n)[i] = s[1 + i - 1]
  BY <1>3, <1>4, SubSeqProperties
<1> QED
  BY <1>1, <1>2, <1>3, <1>5 DEF n

\* The stack of a thread gives its last object away.
LEMMA GetLocalKeeps ==
    ASSUME CacheInv, NEW t \in CacheThreads, GetLocal(t)
    PROVE  CacheInv' /\ KeptPresent
<1> DEFINE cache == ThisThreadCache(t)
           front == SubSeq(cache, 1, Len(cache) - 1)
           last == cache[Len(cache)]
<1>1. /\ cacheAt[t] = "get"
      /\ atExit' = [atExit EXCEPT ![t] = TRUE]
      /\ UNCHANGED <<singletons, bufferOf, cacheList, bufferList, buffers, putArg>>
  BY DEF GetLocal, CacheStep
<1>2. /\ cache \in Seq(Objects) /\ <<>> # NoCache /\ NoCache \notin Seq(Objects)
      /\ putArg[t] = NoObject
  BY <1>1, CacheFacts, CacheAssumption DEF CacheInv, StageInv
<1>3. CASE cache = <<>>
  <2>1. /\ cacheAt' = [cacheAt EXCEPT ![t] = "peek"]
        /\ cacheOf' = [cacheOf EXCEPT ![t] = <<>>]
        /\ held' = held
    BY <1>3 DEF GetLocal, CacheStep
  <2>2. \A u \in CacheThreads : ThisThreadCache(u)' = ThisThreadCache(u)
    BY <1>2, <1>3, <2>1, CachePrimes DEF ThisThreadCache, CacheInv, CacheTypeOK
  <2>3. CacheTypeOK'
    BY <1>1, <2>1 DEF CacheInv, CacheTypeOK
  <2>4. StageInv'
    BY <1>1, <1>2, <1>3, <2>1, <2>2 DEF CacheInv, CacheTypeOK, StageInv
  <2> QED
    BY <1>1, <2>1, <2>2, <2>3, <2>4, QuietKeeps DEF CacheInv
<1>4. CASE cache # <<>>
  <2>1. /\ cacheAt' = [cacheAt EXCEPT ![t] = "user"]
        /\ cacheOf' = [cacheOf EXCEPT ![t] = front]
        /\ held' = held \cup {last}
    BY <1>4 DEF GetLocal, CacheStep
  <2>2. /\ front \in Seq(Objects) /\ Len(front) = Len(cache) - 1
        /\ Len(cache) \in Nat \ {0} /\ last \in Objects
        /\ \A i \in 1 .. Len(front) : front[i] = cache[i]
    BY <1>2, <1>4, WithoutLast
  <2> HIDE DEF front
  <2>3. /\ ThisThreadCache(t)' = front
        /\ \A u \in CacheThreads \ {t} : ThisThreadCache(u)' = ThisThreadCache(u)
    BY <1>2, <2>1, <2>2, CachePrimes DEF ThisThreadCache, CacheInv, CacheTypeOK
  <2>4. CacheTypeOK'
    BY <1>1, <2>1, <2>2 DEF CacheInv, CacheTypeOK
  <2>5. StageInv'
    BY <1>1, <1>2, <2>1, <2>3 DEF CacheInv, CacheTypeOK, StageInv
  <2>6. FullInv' /\ BufferInv'
    BY <1>1, <2>2, <2>3, CacheAssumption DEF CacheInv, FullInv, BufferInv, ListedCachesAreFull
  <2>7. HandsApart' /\ PutsApart'
    BY <1>1, <2>1, <2>2 DEF CacheInv, ApartInv, HandsApart, PutsApart, OwnApart
  <2>8. OwnApart'
    <3> SUFFICES ASSUME NEW u \in CacheThreads, NEW i \in 1 .. Len(ThisThreadCache(u)')
                 PROVE  /\ ThisThreadCache(u)'[i] \notin held'
                        /\ \A v \in CacheThreads :
                             /\ putArg'[v] # ThisThreadCache(u)'[i]
                             /\ \A j \in 1 .. Len(ThisThreadCache(v)') :
                                  ThisThreadCache(u)'[i] = ThisThreadCache(v)'[j] => u = v /\ i = j
      BY DEF OwnApart
    <3>1. /\ i \in 1 .. Len(ThisThreadCache(u)) /\ ThisThreadCache(u)'[i] = ThisThreadCache(u)[i]
          /\ u = t => i # Len(cache)
      BY <2>2, <2>3
    <3>2. \A v \in CacheThreads : \A j \in 1 .. Len(ThisThreadCache(v)') :
            j \in 1 .. Len(ThisThreadCache(v)) /\ ThisThreadCache(v)'[j] = ThisThreadCache(v)[j]
      BY <2>2, <2>3
    <3> QED
      BY <1>1, <2>1, <2>2, <3>1, <3>2 DEF CacheInv, ApartInv, OwnApart
  <2>9. ListedApart'
    <3>1. \A v \in CacheThreads : \A j \in 1 .. Len(ThisThreadCache(v)') :
            j \in 1 .. Len(ThisThreadCache(v)) /\ ThisThreadCache(v)'[j] = ThisThreadCache(v)[j]
      BY <2>2, <2>3
    <3>2. \A n \in 1 .. Len(cacheList) : \A i \in 1 .. Len(cacheList[n]) :
            cacheList[n][i] # last
      BY <2>2 DEF CacheInv, ApartInv, ListedApart
    <3>3. \A n \in 1 .. Len(cacheList) : \A i \in 1 .. Len(cacheList[n]) :
            \A v \in CacheThreads : \A j \in 1 .. Len(ThisThreadCache(v)') :
               cacheList[n][i] # ThisThreadCache(v)'[j]
      BY <3>1 DEF CacheInv, ApartInv, ListedApart
    <3> QED
      BY <1>1, <2>1, <3>2, <3>3 DEF CacheInv, ApartInv, ListedApart
  <2>10. \A o \in Objects : Present(o) <=> Present(o)'
    <3>1. \A v \in CacheThreads : \A j \in 1 .. Len(ThisThreadCache(v)') :
            j \in 1 .. Len(ThisThreadCache(v)) /\ ThisThreadCache(v)'[j] = ThisThreadCache(v)[j]
      BY <2>2, <2>3
    <3>2. \A v \in CacheThreads : \A j \in 1 .. Len(ThisThreadCache(v)) :
            \/ ThisThreadCache(v)[j] = last
            \/ /\ j \in 1 .. Len(ThisThreadCache(v)')
               /\ ThisThreadCache(v)'[j] = ThisThreadCache(v)[j]
      BY <2>2, <2>3
    <3>3. Len(cache) \in 1 .. Len(ThisThreadCache(t))
      BY <2>2
    <3>4. \A o \in Objects : Present(o) => Present(o)'
      BY <1>1, <2>1, <3>2, CarvedPrimes DEF Present
    <3>5. \A o \in Objects : Present(o)' => Present(o)
      BY <1>1, <2>1, <3>1, <3>3, CarvedPrimes DEF Present
    <3> QED
      BY <3>4, <3>5
  <2> QED
    BY <1>1, <2>4, <2>5, <2>6, <2>7, <2>8, <2>9, <2>10, CarvedStays
    DEF CacheInv, ApartInv, KeptPresent
<1> QED
  BY <1>3, <1>4

\* The thread's empty cache gives way to a full one of the list.
LEMMA GetFromListKeeps ==
    ASSUME CacheInv, NEW t \in CacheThreads, GetFromList(t)
    PROVE  CacheInv' /\ KeptPresent
<1> DEFINE k == Len(cacheList)
           taken == cacheList[k]
           front == SubSeq(taken, 1, Len(taken) - 1)
           last == taken[Len(taken)]
<1>1. /\ cacheAt[t] = "list"
      /\ UNCHANGED <<singletons, bufferOf, bufferList, buffers, putArg, atExit>>
  BY DEF GetFromList, CacheStep
<1>2. /\ NoCache \notin Seq(Objects) /\ cacheList \in Seq(Seq(Objects))
      /\ putArg[t] = NoObject /\ ThisThreadCache(t) = <<>>
  BY <1>1, CacheAssumption DEF CacheInv, StageInv, CacheTypeOK
<1>3. CASE cacheList = <<>>
  <2>1. cacheAt' = [cacheAt EXCEPT ![t] = "buffer"] /\ UNCHANGED <<cacheOf, cacheList, held>>
    BY <1>3 DEF GetFromList, CacheStep
  <2>2. \A u : ThisThreadCache(u)' = ThisThreadCache(u)
    BY <2>1, CachePrimes DEF ThisThreadCache
  <2>3. CacheTypeOK'
    BY <1>1, <2>1 DEF CacheInv, CacheTypeOK
  <2>4. StageInv'
    BY <1>1, <1>2, <2>1, <2>2 DEF CacheInv, CacheTypeOK, StageInv
  <2> QED
    BY <1>1, <2>1, <2>2, <2>3, <2>4, QuietKeeps DEF CacheInv
<1>4. CASE cacheList # <<>>
  <2>1. /\ cacheAt' = [cacheAt EXCEPT ![t] = "user"]
        /\ cacheList' = RestOfList
        /\ cacheOf' = [cacheOf EXCEPT ![t] = front]
        /\ held' = held \cup {last}
    BY <1>4 DEF GetFromList, CacheStep
  <2>2. /\ RestOfList \in Seq(Seq(Objects)) /\ Len(RestOfList) = k - 1
        /\ k \in Nat \ {0} /\ taken \in Seq(Objects)
        /\ \A n \in 1 .. Len(RestOfList) : RestOfList[n] = cacheList[n]
    BY <1>2, <1>4, WithoutLast DEF RestOfList
  <2>3. Len(taken) = NumCacheObjects /\ taken # <<>>
    BY <2>2, CacheAssumption DEF CacheInv, FullInv, ListedCachesAreFull
  <2>4. /\ front \in Seq(Objects) /\ Len(front) = Len(taken) - 1
        /\ Len(taken) \in Nat \ {0} /\ last \in Objects
        /\ \A i \in 1 .. Len(front) : front[i] = taken[i]
    BY <2>2, <2>3, WithoutLast
  <2> HIDE DEF front
  <2>5. /\ ThisThreadCache(t)' = front
        /\ \A u \in CacheThreads \ {t} : ThisThreadCache(u)' = ThisThreadCache(u)
    BY <1>2, <2>1, <2>4, CachePrimes DEF ThisThreadCache, CacheInv, CacheTypeOK
  <2>6. CacheTypeOK'
    BY <1>1, <2>1, <2>2, <2>4 DEF CacheInv, CacheTypeOK
  <2>7. StageInv'
    BY <1>1, <1>2, <2>1, <2>5 DEF CacheInv, CacheTypeOK, StageInv
  <2>8. FullInv' /\ BufferInv'
    <3>1. BufferInv'
      BY <1>1 DEF CacheInv, BufferInv
    <3>2. DOMAIN cacheList = 1 .. Len(cacheList) /\ DOMAIN cacheList' = 1 .. Len(cacheList')
      BY <1>2, <2>1, <2>2
    <3>3. \A n \in 1 .. Len(cacheList') : n \in 1 .. Len(cacheList) /\ cacheList'[n] = cacheList[n]
      BY <2>1, <2>2
    <3>4. ListedCachesAreFull'
      BY <3>2, <3>3 DEF CacheInv, FullInv, ListedCachesAreFull
    <3>5. Len(front) <= NumCacheObjects
      BY <2>3, <2>4, CacheAssumption
    <3> QED
      BY <2>5, <3>1, <3>4, <3>5 DEF CacheInv, FullInv
  <2>9. /\ \A n \in 1 .. Len(cacheList') : n \in 1 .. k - 1 /\ cacheList'[n] = cacheList[n]
        /\ Len(taken) \in 1 .. Len(cacheList[k])
        /\ \A v \in CacheThreads : \A j \in 1 .. Len(ThisThreadCache(v)') :
             IF v = t THEN j \in 1 .. Len(taken) - 1 /\ ThisThreadCache(v)'[j] = cacheList[k][j]
             ELSE /\ j \in 1 .. Len(ThisThreadCache(v))
                  /\ ThisThreadCache(v)'[j] = ThisThreadCache(v)[j]
        /\ k \in 1 .. Len(cacheList)
    <3>1. \A n \in 1 .. Len(cacheList') : n \in 1 .. k - 1 /\ cacheList'[n] = cacheList[n]
      BY <2>1, <2>2
    <3>2. Len(taken) \in 1 .. Len(cacheList[k]) /\ k \in 1 .. Len(cacheList)
      BY <2>2, <2>4
    <3>3. \A j \in 1 .. Len(front) : j \in 1 .. Len(taken) - 1 /\ front[j] = taken[j]
      BY <2>4
    <3> QED
      BY <2>5, <3>1, <3>2, <3>3
  <2>10. HandsApart' /\ PutsApart'
    BY <1>1, <2>1, <2>9 DEF CacheInv, ApartInv, HandsApart, PutsApart, ListedApart
  <2>11. OwnApart'
    <3> SUFFICES ASSUME NEW u \in CacheThreads, NEW i \in 1 .. Len(ThisThreadCache(u)')
                 PROVE  /\ ThisThreadCache(u)'[i] \notin held'
                        /\ \A v \in CacheThreads :
                             /\ putArg'[v] # ThisThreadCache(u)'[i]
                             /\ \A j \in 1 .. Len(ThisThreadCache(v)') :
                                  ThisThreadCache(u)'[i] = ThisThreadCache(v)'[j] => u = v /\ i = j
      BY DEF OwnApart
    <3>1. CASE u = t
      <4>1. i \in 1 .. Len(taken) - 1 /\ ThisThreadCache(u)'[i] = cacheList[k][i]
            /\ i \in 1 .. Len(cacheList[k])
        BY <2>4, <2>9, <3>1
      <4>2. /\ cacheList[k][i] \notin held
            /\ \A v \in CacheThreads :
                 /\ putArg[v] # cacheList[k][i]
                 /\ \A j \in 1 .. Len(ThisThreadCache(v)) :
                      cacheList[k][i] # ThisThreadCache(v)[j]
            /\ \A j \in 1 .. Len(cacheList[k]) : cacheList[k][i] = cacheList[k][j] => i = j
        BY <2>9, <4>1 DEF CacheInv, ApartInv, ListedApart
      <4>3. i # Len(taken) /\ \A j \in 1 .. Len(taken) - 1 : j \in 1 .. Len(cacheList[k])
        BY <2>4, <4>1
      <4>4. ThisThreadCache(u)'[i] \notin held'
        BY <2>1, <2>9, <4>1, <4>2, <4>3
      <4>5. \A v \in CacheThreads : \A j \in 1 .. Len(ThisThreadCache(v)') :
              ThisThreadCache(u)'[i] = ThisThreadCache(v)'[j] => u = v /\ i = j
        BY <2>9, <3>1, <4>1, <4>2, <4>3
      <4> QED
        BY <1>1, <4>1, <4>2, <4>4, <4>5
    <3>2. CASE u # t
      <4>1. i \in 1 .. Len(ThisThreadCache(u)) /\ ThisThreadCache(u)'[i] = ThisThreadCache(u)[i]
        BY <2>9, <3>2
      <4>2. /\ ThisThreadCache(u)[i] \notin held
            /\ \A v \in CacheThreads :
                 /\ putArg[v] # ThisThreadCache(u)[i]
                 /\ \A j \in 1 .. Len(ThisThreadCache(v)) :
                      ThisThreadCache(u)[i] = ThisThreadCache(v)[j] => u = v /\ i = j
        BY <4>1 DEF CacheInv, ApartInv, OwnApart
      <4>3. \A j \in 1 .. Len(cacheList[k]) : cacheList[k][j] # ThisThreadCache(u)[i]
        <5>1. k \in 1 .. Len(cacheList)
          BY <2>9
        <5>2. \A j \in 1 .. Len(cacheList[k]) : \A v \in CacheThreads :
                \A l \in 1 .. Len(ThisThreadCache(v)) : cacheList[k][j] # ThisThreadCache(v)[l]
          BY <5>1 DEF CacheInv, ApartInv, ListedApart
        <5> QED
          BY <4>1, <5>2
      <4>4. \A j \in 1 .. Len(taken) - 1 : j \in 1 .. Len(cacheList[k])
        BY <2>4
      <4>5. ThisThreadCache(u)'[i] \notin held'
        BY <2>1, <2>9, <4>1, <4>2, <4>3
      <4>6. \A v \in CacheThreads : \A j \in 1 .. Len(ThisThreadCache(v)') :
              ThisThreadCache(u)'[i] = ThisThreadCache(v)'[j] => u = v /\ i = j
        BY <2>9, <3>2, <4>1, <4>2, <4>3, <4>4
      <4> QED
        BY <1>1, <4>1, <4>2, <4>5, <4>6
    <3> QED
      BY <3>1, <3>2
  <2>12. ListedApart'
    <3> SUFFICES ASSUME NEW n \in 1 .. Len(cacheList'), NEW i \in 1 .. Len(cacheList'[n])
                 PROVE  /\ cacheList'[n][i] \notin held'
                        /\ \A u \in CacheThreads :
                             /\ putArg'[u] # cacheList'[n][i]
                             /\ \A j \in 1 .. Len(ThisThreadCache(u)') :
                                  cacheList'[n][i] # ThisThreadCache(u)'[j]
                        /\ \A m \in 1 .. Len(cacheList') : \A j \in 1 .. Len(cacheList'[m]) :
                             cacheList'[n][i] = cacheList'[m][j] => n = m /\ i = j
      BY DEF ListedApart
    <3>1. /\ n \in 1 .. Len(cacheList) /\ n # k /\ cacheList'[n] = cacheList[n]
          /\ \A m \in 1 .. Len(cacheList') : m \in 1 .. Len(cacheList)
          /\ \A j \in 1 .. Len(taken) - 1 : j \in 1 .. Len(cacheList[k])
      <4>1. \A m \in 1 .. k - 1 : m \in 1 .. Len(cacheList) /\ m # k
        BY <2>2
      <4>2. \A j \in 1 .. Len(taken) - 1 : j \in 1 .. Len(cacheList[k])
        BY <2>4
      <4> QED
        BY <2>9, <4>1, <4>2
    <3>2. /\ cacheList[n][i] \notin held
          /\ \A u \in CacheThreads :
               /\ putArg[u] # cacheList[n][i]
               /\ \A j \in 1 .. Len(ThisThreadCache(u)) :
                    cacheList[n][i] # ThisThreadCache(u)[j]
          /\ \A m \in 1 .. Len(cacheList) : \A j \in 1 .. Len(cacheList[m]) :
               cacheList[n][i] = cacheList[m][j] => n = m /\ i = j
      BY <3>1 DEF CacheInv, ApartInv, ListedApart
    <3>3. \A j \in 1 .. Len(cacheList[k]) : cacheList[n][i] # cacheList[k][j]
      BY <2>9, <3>1, <3>2
    <3>4. cacheList'[n][i] \notin held'
      BY <2>1, <2>9, <3>1, <3>2, <3>3
    <3>5. \A u \in CacheThreads : \A j \in 1 .. Len(ThisThreadCache(u)') :
            cacheList'[n][i] # ThisThreadCache(u)'[j]
      <4>1. \A j \in 1 .. Len(ThisThreadCache(t)') : cacheList'[n][i] # ThisThreadCache(t)'[j]
        BY <2>9, <3>1, <3>3
      <4>2. \A u \in CacheThreads \ {t} : \A j \in 1 .. Len(ThisThreadCache(u)') :
              cacheList'[n][i] # ThisThreadCache(u)'[j]
        BY <2>5, <3>1, <3>2
      <4> QED
        BY <4>1, <4>2
    <3>6. \A m \in 1 .. Len(cacheList') : \A j \in 1 .. Len(cacheList'[m]) :
            cacheList'[n][i] = cacheList'[m][j] => n = m /\ i = j
      <4>1. \A m \in 1 .. Len(cacheList') :
              m \in 1 .. Len(cacheList) /\ cacheList'[m] = cacheList[m]
        BY <2>9, <3>1
      <4> QED
        BY <3>1, <3>2, <4>1
    <3> QED
      BY <1>1, <3>1, <3>2, <3>4, <3>5, <3>6
  <2>13. \A o \in Objects : Present(o)' => Present(o)
    <3> SUFFICES ASSUME NEW o \in Objects, Present(o)' PROVE Present(o)
      OBVIOUS
    <3>1. \A j \in 1 .. Len(taken) - 1 : j \in 1 .. Len(cacheList[k])
      BY <2>4
    <3>2. CASE o \in held'
      BY <2>1, <2>9, <3>2 DEF Present
    <3>3. CASE \E v \in CacheThreads : putArg'[v] = o
      BY <1>1, <3>3 DEF Present
    <3>4. ASSUME NEW v \in CacheThreads, NEW j \in 1 .. Len(ThisThreadCache(v)'),
                 ThisThreadCache(v)'[j] = o
          PROVE  Present(o)
      BY <2>9, <3>1, <3>4 DEF Present
    <3>5. ASSUME NEW n \in 1 .. Len(cacheList'), NEW j \in 1 .. Len(cacheList'[n]),
                 cacheList'[n][j] = o
          PROVE  Present(o)
      <4>1. n \in 1 .. Len(cacheList) /\ cacheList'[n] = cacheList[n]
        BY <2>2, <2>9
      <4> QED
        BY <3>5, <4>1 DEF Present
    <3> QED
      BY <3>2, <3>3, <3>4, <3>5, CarvedPrimes
  <2>14. \A o \in Objects : Present(o) => Present(o)'
    <3>1. \A n \in 1 .. k : \A i \in 1 .. Len(cacheList[n]) :
            \/ cacheList[n][i] = last
            \/ n = k /\ i \in 1 .. Len(front) /\ ThisThreadCache(t)'[i] = cacheList[n][i]
            \/ n \in 1 .. Len(cacheList') /\ cacheList'[n] = cacheList[n]
      <4>1. ASSUME NEW n \in 1 .. k, n # k
            PROVE  n \in 1 .. Len(cacheList') /\ cacheList'[n] = cacheList[n]
        BY <2>1, <2>2, <4>1
      <4>2. ASSUME NEW i \in 1 .. Len(cacheList[k]), i # Len(taken)
            PROVE  i \in 1 .. Len(front) /\ ThisThreadCache(t)'[i] = cacheList[k][i]
        BY <2>4, <2>5, <4>2
      <4> QED
        BY <4>1, <4>2
    <3>2. \A v \in CacheThreads : \A i \in 1 .. Len(ThisThreadCache(v)) :
             ThisThreadCache(v)' = ThisThreadCache(v)
      BY <1>2, <2>5
    <3> SUFFICES ASSUME NEW o \in Objects, Present(o) PROVE Present(o)'
      OBVIOUS
    <3>3. CASE o \in held
      BY <2>1, <3>3, CarvedPrimes
    <3>4. CASE \E v \in CacheThreads : putArg[v] = o
      BY <1>1, <3>4, CarvedPrimes
    <3>5. ASSUME NEW v \in CacheThreads, NEW i \in 1 .. Len(ThisThreadCache(v)),
                 ThisThreadCache(v)[i] = o
          PROVE  Present(o)'
      BY <3>2, <3>5, CarvedPrimes
    <3>6. ASSUME NEW n \in 1 .. k, NEW i \in 1 .. Len(cacheList[n]), cacheList[n][i] = o
          PROVE  Present(o)'
      <4>1. CASE cacheList[n][i] = last
        BY <2>1, <3>6, <4>1, CarvedPrimes
      <4>2. CASE n = k /\ i \in 1 .. Len(front) /\ ThisThreadCache(t)'[i] = cacheList[n][i]
        BY <2>5, <3>6, <4>2, CarvedPrimes
      <4>3. CASE n \in 1 .. Len(cacheList') /\ cacheList'[n] = cacheList[n]
        BY <3>6, <4>3, CarvedPrimes
      <4> QED
        BY <3>1, <4>1, <4>2, <4>3
    <3> QED
      BY <3>3, <3>4, <3>5, <3>6 DEF Present
  <2> QED
    BY <1>1, <2>6, <2>7, <2>8, <2>10, <2>11, <2>12, <2>13, <2>14, CarvedStays
    DEF CacheInv, ApartInv, KeptPresent
<1> QED
  BY <1>3, <1>4

\* An object that is nowhere is handed out.
LEMMA GetFromBufferKeeps ==
    ASSUME CacheInv, NEW t \in CacheThreads, GetFromBuffer(t)
    PROVE  CacheInv' /\ KeptPresent
<1> DEFINE old == bufferOf[t]
           fresh == old = NoBuffer \/ ~ BufferHasRoom(old)
           buf == IF fresh THEN [id |-> buffers + 1, size |-> 0] ELSE old
           obj == <<buf.id, buf.size>>
<1>1. /\ cacheAt[t] = "buffer"
      /\ cacheAt' = [cacheAt EXCEPT ![t] = "user"]
      /\ fresh => buffers < MaxBuffers
      /\ buffers' = IF fresh THEN buffers + 1 ELSE buffers
      /\ bufferOf' = [bufferOf EXCEPT ![t] = [buf EXCEPT !.size = @ + 1]]
      /\ held' = held \cup {obj}
      /\ UNCHANGED <<singletons, cacheOf, cacheList, putArg, atExit>>
  BY DEF GetFromBuffer, CacheStep
<1>2. /\ old \in [id : 0 .. MaxBuffers, size : 0 .. NumBufferObjects]
      /\ old.id <= buffers /\ (old.id = 0 <=> old = NoBuffer)
      /\ buffers \in 0 .. MaxBuffers
      /\ putArg[t] = NoObject
  BY <1>1 DEF CacheInv, CacheTypeOK, BufferInv, StageInv
<1>3. /\ buf.id \in 1 .. MaxBuffers /\ buf.size \in 0 .. NumBufferObjects - 1
      /\ buf.id <= buffers' /\ buffers <= buffers' /\ buffers' \in 0 .. MaxBuffers
      /\ buf = [id |-> buf.id, size |-> buf.size]
      /\ fresh => buf.id > buffers
      /\ ~ fresh => buf = bufferOf[t]
  BY <1>1, <1>2, CacheAssumption DEF BufferHasRoom
<1>4. obj \in Objects /\ Uncarved(obj)
  BY <1>2, <1>3 DEF Objects, Uncarved
<1> HIDE DEF buf
<1>5. /\ bufferOf'[t].id = buf.id /\ bufferOf'[t].size = buf.size + 1
      /\ bufferOf'[t] \in [id : 0 .. MaxBuffers, size : 0 .. NumBufferObjects]
      /\ \A u \in CacheThreads \ {t} : bufferOf'[u] = bufferOf[u]
      /\ bufferOf' \in [CacheThreads -> [id : 0 .. MaxBuffers, size : 0 .. NumBufferObjects]]
  <2>1. [buf EXCEPT !.size = @ + 1] = [id |-> buf.id, size |-> buf.size + 1]
    BY <1>3
  <2>2. bufferOf' = [bufferOf EXCEPT ![t] = [id |-> buf.id, size |-> buf.size + 1]]
    BY <1>1, <2>1
  <2>3. [id |-> buf.id, size |-> buf.size + 1]
          \in [id : 0 .. MaxBuffers, size : 0 .. NumBufferObjects]
    BY <1>3, CacheAssumption
  <2> QED
    BY <2>2, <2>3 DEF CacheInv, CacheTypeOK
<1>6. ~ Present(obj)
  BY <1>4 DEF CacheInv, CarvedInv
<1>7. \A u \in CacheThreads : ThisThreadCache(u)' = ThisThreadCache(u)
  BY <1>1, CachePrimes DEF ThisThreadCache
<1>8. CacheTypeOK'
  BY <1>1, <1>3, <1>4, <1>5 DEF CacheInv, CacheTypeOK
<1>9. StageInv'
  BY <1>1, <1>2, <1>7 DEF CacheInv, CacheTypeOK, StageInv
<1>10. FullInv'
  BY <1>1, <1>7 DEF CacheInv, FullInv, ListedCachesAreFull
<1>11. \A u \in CacheThreads \ {t} : bufferOf[u].id # buf.id
  BY <1>2, <1>3 DEF CacheInv, BufferInv, CacheTypeOK
<1>12. BufferInv'
  <2>1. \A u \in CacheThreads : bufferOf'[u].id <= buffers'
    <3>1. \A u \in CacheThreads : bufferOf[u].id \in 0 .. MaxBuffers /\ bufferOf[u].id <= buffers
      BY DEF CacheInv, BufferInv, CacheTypeOK
    <3>2. \A u \in CacheThreads : bufferOf[u].id <= buffers'
      BY <1>2, <1>3, <3>1
    <3> QED
      BY <1>3, <1>5, <3>2
  <2>2. \A u \in CacheThreads : bufferOf'[u].id = 0 <=> bufferOf'[u] = NoBuffer
    BY <1>3, <1>5 DEF CacheInv, BufferInv, NoBuffer
  <2>3. \A u, v \in CacheThreads :
          bufferOf'[u].id = bufferOf'[v].id /\ bufferOf'[u].id # 0 => u = v
    BY <1>5, <1>11 DEF CacheInv, BufferInv
  <2> QED
    BY <2>1, <2>2, <2>3 DEF BufferInv
<1>13. HandsApart' /\ PutsApart'
  BY <1>1, <1>6 DEF CacheInv, ApartInv, HandsApart, PutsApart, Present
<1>14. OwnApart'
  BY <1>1, <1>6, <1>7 DEF CacheInv, ApartInv, OwnApart, Present
<1>15. ListedApart'
  BY <1>1, <1>6, <1>7 DEF CacheInv, ApartInv, ListedApart, Present
<1>16. \A o \in Objects : Present(o)' <=> Present(o) \/ o = obj
  BY <1>1, <1>7, CarvedPrimes DEF Present
<1>17. CarvedInv'
  <2>1. \A o \in Objects : o[1] \in Nat /\ o[2] \in Nat
    BY DEF Objects
  <2>2. ASSUME NEW o \in Objects, o # obj, Uncarved(o)' PROVE Uncarved(o)
    <3>1. CASE o[1] > buffers'
      BY <1>2, <1>3, <2>1, <3>1 DEF Uncarved
    <3>2. CASE bufferOf'[t].id = o[1] /\ o[2] >= bufferOf'[t].size
      BY <1>2, <1>3, <1>5, <2>1, <3>2 DEF Uncarved
    <3>3. CASE \E u \in CacheThreads \ {t} : bufferOf'[u].id = o[1] /\ o[2] >= bufferOf'[u].size
      BY <1>5, <3>3 DEF Uncarved
    <3> QED
      BY <2>2, <3>1, <3>2, <3>3, CarvedPrimes
  <2>3. ASSUME NEW o \in Objects, o = obj PROVE ~ Uncarved(o)'
    <3>1. o[1] = buf.id /\ o[2] = buf.size
      BY <2>3
    <3>2. ~ (o[1] > buffers')
      BY <1>3, <3>1
    <3>3. ~ (o[2] >= bufferOf'[t].size)
      BY <1>3, <1>5, <3>1
    <3>4. \A u \in CacheThreads \ {t} : bufferOf'[u].id # o[1]
      BY <1>5, <1>11, <3>1
    <3> QED
      BY <3>2, <3>3, <3>4, CarvedPrimes
  <2> SUFFICES ASSUME NEW o \in Objects, Present(o)' PROVE ~ Uncarved(o)'
    BY DEF CarvedInv
  <2>4. CASE o = obj
    BY <2>3, <2>4
  <2>5. CASE o # obj
    BY <1>16, <2>2, <2>5 DEF CarvedInv, CacheInv
  <2> QED
    BY <2>4, <2>5
<1> QED
  BY <1>8, <1>9, <1>10, <1>12, <1>13, <1>14, <1>15, <1>16, <1>17
  DEF CacheInv, ApartInv, KeptPresent

\* The thread's own cache takes the object back.
LEMMA PutLocalKeeps ==
    ASSUME CacheInv, NEW t \in CacheThreads, PutLocal(t)
    PROVE  CacheInv' /\ KeptPresent
<1> DEFINE cache == ThisThreadCache(t)
           grown == Append(cache, putArg[t])
           n == Len(cache) + 1
<1>1. /\ cacheAt[t] = "put"
      /\ atExit' = [atExit EXCEPT ![t] = TRUE]
      /\ UNCHANGED <<singletons, bufferOf, cacheList, bufferList, buffers, held>>
  BY DEF PutLocal, CacheStep
<1>2. /\ cache \in Seq(Objects) /\ NoCache \notin Seq(Objects)
      /\ putArg[t] \in Objects /\ NoObject \notin Objects
      /\ Len(cache) \in Nat /\ Len(cache) <= NumCacheObjects
  BY <1>1, CacheFacts, CacheAssumption DEF CacheInv, StageInv, CacheTypeOK, FullInv
<1>3. CASE ~ CacheHasRoom(cache)
  <2>1. cacheAt' = [cacheAt EXCEPT ![t] = "spill"] /\ UNCHANGED <<cacheOf, putArg>>
    BY <1>3 DEF PutLocal, CacheStep
  <2>2. \A u : ThisThreadCache(u)' = ThisThreadCache(u)
    BY <2>1, CachePrimes DEF ThisThreadCache
  <2>3. CacheTypeOK'
    BY <1>1, <2>1 DEF CacheInv, CacheTypeOK
  <2>4. Len(cache) = NumCacheObjects /\ cache # <<>>
    BY <1>2, <1>3, CacheAssumption DEF CacheHasRoom
  <2>5. cacheOf[t] # NoCache /\ Len(cacheOf[t]) = NumCacheObjects
    BY <2>4, CacheFacts DEF CacheInv
  <2>6. StageInv'
    BY <1>1, <2>1, <2>2, <2>5 DEF CacheInv, CacheTypeOK, StageInv
  <2> QED
    BY <1>1, <2>1, <2>2, <2>3, <2>6, QuietKeeps DEF CacheInv
<1>4. CASE CacheHasRoom(cache)
  <2>1. /\ cacheAt' = [cacheAt EXCEPT ![t] = "user"]
        /\ cacheOf' = [cacheOf EXCEPT ![t] = grown]
        /\ putArg' = [putArg EXCEPT ![t] = NoObject]
    BY <1>4 DEF PutLocal, CacheStep
  <2>2. /\ grown \in Seq(Objects) /\ Len(grown) = n /\ grown[n] = putArg[t]
        /\ \A i \in 1 .. Len(cache) : grown[i] = cache[i]
        /\ \A i \in 1 .. n : i \in 1 .. Len(cache) \/ i = n
        /\ n \in 1 .. n /\ \A i \in 1 .. Len(cache) : i \in 1 .. n /\ i # n
    BY <1>2
  <2>3. n <= NumCacheObjects
    BY <1>2, <1>4, CacheAssumption DEF CacheHasRoom
  <2> HIDE DEF grown, n
  <2>4. /\ ThisThreadCache(t)' = grown
        /\ \A u \in CacheThreads \ {t} : ThisThreadCache(u)' = ThisThreadCache(u)
    BY <1>2, <2>1, <2>2, CachePrimes DEF ThisThreadCache, CacheInv, CacheTypeOK
  <2>5. /\ putArg'[t] = NoObject
        /\ \A u \in CacheThreads \ {t} : putArg'[u] = putArg[u]
    BY <2>1 DEF CacheInv, CacheTypeOK
  <2>6. CacheTypeOK'
    BY <1>1, <2>1, <2>2 DEF CacheInv, CacheTypeOK
  <2>7. StageInv'
    BY <1>1, <2>1, <2>4, <2>5 DEF CacheInv, CacheTypeOK, StageInv
  <2>8. FullInv' /\ BufferInv'
    BY <1>1, <2>2, <2>3, <2>4 DEF CacheInv, FullInv, BufferInv, ListedCachesAreFull
  <2>9. HandsApart' /\ PutsApart'
    BY <1>1, <1>2, <2>5 DEF CacheInv, CacheTypeOK, ApartInv, HandsApart, PutsApart
  <2>10. /\ \A v \in CacheThreads \ {t} : putArg[v] # putArg[t]
         /\ putArg[t] \notin held
         /\ \A u \in CacheThreads : \A i \in 1 .. Len(ThisThreadCache(u)) :
              ThisThreadCache(u)[i] # putArg[t] /\ ThisThreadCache(u)[i] \in Objects
         /\ \A m \in 1 .. Len(cacheList) : \A i \in 1 .. Len(cacheList[m]) :
              cacheList[m][i] # putArg[t] /\ cacheList[m][i] \in Objects
    BY <1>2, CacheFacts DEF CacheInv, ApartInv, HandsApart, PutsApart, OwnApart, ListedApart
  <2>11. \A v \in CacheThreads : \A j \in 1 .. Len(ThisThreadCache(v)') :
           \/ v = t /\ j = n /\ ThisThreadCache(v)'[j] = putArg[t]
           \/ j \in 1 .. Len(ThisThreadCache(v)) /\ ThisThreadCache(v)'[j] = ThisThreadCache(v)[j]
    BY <2>2, <2>4
  <2>12. OwnApart'
    <3> SUFFICES ASSUME NEW u \in CacheThreads, NEW i \in 1 .. Len(ThisThreadCache(u)')
                 PROVE  /\ ThisThreadCache(u)'[i] \notin held'
                        /\ \A v \in CacheThreads :
                             /\ putArg'[v] # ThisThreadCache(u)'[i]
                             /\ \A j \in 1 .. Len(ThisThreadCache(v)') :
                                  ThisThreadCache(u)'[i] = ThisThreadCache(v)'[j] => u = v /\ i = j
      BY DEF OwnApart
    <3>1. CASE u = t /\ i = n /\ ThisThreadCache(u)'[i] = putArg[t]
      BY <1>1, <1>2, <2>5, <2>10, <2>11, <3>1
    <3>2. CASE i \in 1 .. Len(ThisThreadCache(u)) /\ ThisThreadCache(u)'[i] = ThisThreadCache(u)[i]
      <4>1. /\ ThisThreadCache(u)[i] \notin held
            /\ \A v \in CacheThreads :
                 /\ putArg[v] # ThisThreadCache(u)[i]
                 /\ \A j \in 1 .. Len(ThisThreadCache(v)) :
                      ThisThreadCache(u)[i] = ThisThreadCache(v)[j] => u = v /\ i = j
        BY <3>2 DEF CacheInv, ApartInv, OwnApart
      <4>2. \A v \in CacheThreads : putArg'[v] # ThisThreadCache(u)'[i]
        BY <1>2, <2>5, <2>10, <3>2, <4>1
      <4>3. \A v \in CacheThreads : \A j \in 1 .. Len(ThisThreadCache(v)') :
              ThisThreadCache(u)'[i] = ThisThreadCache(v)'[j] => u = v /\ i = j
        BY <2>10, <2>11, <3>2, <4>1
      <4> QED
        BY <1>1, <3>2, <4>1, <4>2, <4>3
    <3> QED
      BY <2>11, <3>1, <3>2
  <2>13. ListedApart'
    <3>1. \A m \in 1 .. Len(cacheList) : \A i \in 1 .. Len(cacheList[m]) :
            \A u \in CacheThreads : putArg'[u] # cacheList[m][i]
      <4>1. \A u \in CacheThreads : putArg'[u] \in {putArg[u], NoObject}
        BY <2>5
      <4>2. ListedApart
        BY DEF CacheInv, ApartInv
      <4> QED
        BY <1>2, <2>10, <4>1, <4>2 DEF ListedApart
    <3>2. \A m \in 1 .. Len(cacheList) : \A i \in 1 .. Len(cacheList[m]) :
            \A u \in CacheThreads : \A j \in 1 .. Len(ThisThreadCache(u)') :
               cacheList[m][i] # ThisThreadCache(u)'[j]
      <4>1. ListedApart
        BY DEF CacheInv, ApartInv
      <4> TAKE m \in 1 .. Len(cacheList)
      <4> TAKE i \in 1 .. Len(cacheList[m])
      <4> TAKE u \in CacheThreads
      <4> TAKE j \in 1 .. Len(ThisThreadCache(u)')
      <4>2. CASE ThisThreadCache(u)'[j] = putArg[t]
        BY <2>10, <4>2
      <4>3. CASE j \in 1 .. Len(ThisThreadCache(u)) /\ ThisThreadCache(u)'[j] = ThisThreadCache(u)[j]
        BY <4>1, <4>3 DEF ListedApart
      <4> QED
        BY <2>11, <4>2, <4>3
    <3> QED
      BY <1>1, <3>1, <3>2 DEF CacheInv, ApartInv, ListedApart
  <2>14. \A o \in Objects : Present(o)' => Present(o)
    BY <1>1, <1>2, <2>5, <2>11, CarvedPrimes DEF Present
  <2>15. \A o \in Objects : Present(o) => Present(o)'
    <3> SUFFICES ASSUME NEW o \in Objects, Present(o) PROVE Present(o)'
      OBVIOUS
    <3>1. CASE o \in held
      BY <1>1, <3>1, CarvedPrimes
    <3>2. ASSUME NEW v \in CacheThreads, putArg[v] = o PROVE Present(o)'
      BY <2>2, <2>4, <2>5, <3>2, CarvedPrimes
    <3>3. ASSUME NEW v \in CacheThreads, NEW i \in 1 .. Len(ThisThreadCache(v)),
                 ThisThreadCache(v)[i] = o
          PROVE  Present(o)'
      BY <2>2, <2>4, <3>3, CarvedPrimes
    <3>4. CASE \E m \in 1 .. Len(cacheList) : \E i \in 1 .. Len(cacheList[m]) :
                 cacheList[m][i] = o
      BY <1>1, <3>4, CarvedPrimes
    <3> QED
      BY <3>1, <3>2, <3>3, <3>4 DEF Present
  <2> QED
    BY <1>1, <2>6, <2>7, <2>8, <2>9, <2>12, <2>13, <2>14, <2>15, CarvedStays
    DEF CacheInv, ApartInv, KeptPresent
<1> QED
  BY <1>3, <1>4

\* The full cache goes to the list, and its thread starts another one.
LEMMA PutSpillKeeps ==
    ASSUME CacheInv, NEW t \in CacheThreads, PutSpill(t)
    PROVE  CacheInv' /\ KeptPresent
<1> DEFINE cache == ThisThreadCache(t)
           new == <<putArg[t]>>
           k == Len(cacheList) + 1
           list == Append(cacheList, cache)
<1>1. /\ cacheAt[t] = "spill"
      /\ cacheAt' = [cacheAt EXCEPT ![t] = "user"]
      /\ cacheList' = Append(cacheList, cacheOf[t])
      /\ cacheOf' = [cacheOf EXCEPT ![t] = new]
      /\ putArg' = [putArg EXCEPT ![t] = NoObject]
      /\ UNCHANGED <<singletons, bufferOf, bufferList, buffers, held, atExit>>
  BY DEF PutSpill, CacheStep, SpilledCache
<1>2. /\ cache \in Seq(Objects) /\ NoCache \notin Seq(Objects)
      /\ putArg[t] \in Objects /\ NoObject \notin Objects
      /\ cacheOf[t] = cache /\ Len(cache) = NumCacheObjects
      /\ cacheList \in Seq(Seq(Objects)) /\ Len(cacheList) \in Nat
  BY <1>1, CacheFacts, CacheAssumption DEF CacheInv, StageInv, CacheTypeOK
<1>3. cacheList' = list
  BY <1>1, <1>2
<1>4. /\ list \in Seq(Seq(Objects)) /\ Len(list) = k /\ list[k] = cache
      /\ \A m \in 1 .. Len(cacheList) : list[m] = cacheList[m] /\ m \in 1 .. k /\ m # k
      /\ \A m \in 1 .. k : m \in 1 .. Len(cacheList) \/ m = k
      /\ k \in 1 .. k /\ DOMAIN list = 1 .. k /\ DOMAIN cacheList = 1 .. Len(cacheList)
  BY <1>2
<1>5. /\ new \in Seq(Objects) /\ Len(new) = 1 /\ new[1] = putArg[t]
      /\ 1 \in 1 .. 1 /\ \A i \in 1 .. 1 : i = 1
  BY <1>2
<1> HIDE DEF list, new, k
<1>6. /\ ThisThreadCache(t)' = new
      /\ \A u \in CacheThreads \ {t} : ThisThreadCache(u)' = ThisThreadCache(u)
  BY <1>1, <1>2, <1>5, CachePrimes DEF ThisThreadCache, CacheInv, CacheTypeOK
<1>7. /\ putArg'[t] = NoObject
      /\ \A u \in CacheThreads \ {t} : putArg'[u] = putArg[u]
  BY <1>1 DEF CacheInv, CacheTypeOK
<1>8. CacheTypeOK'
  BY <1>1, <1>3, <1>4, <1>5 DEF CacheInv, CacheTypeOK
<1>9. StageInv'
  BY <1>1, <1>6, <1>7 DEF CacheInv, CacheTypeOK, StageInv
<1>10. FullInv' /\ BufferInv'
  <2>1. BufferInv'
    BY <1>1 DEF CacheInv, BufferInv
  <2>2. ListedCachesAreFull'
    BY <1>2, <1>3, <1>4 DEF CacheInv, FullInv, ListedCachesAreFull
  <2>3. Len(new) <= NumCacheObjects
    BY <1>5, CacheAssumption
  <2> QED
    BY <1>6, <2>1, <2>2, <2>3 DEF CacheInv, FullInv
<1>11. HandsApart' /\ PutsApart'
  BY <1>1, <1>2, <1>7 DEF CacheInv, CacheTypeOK, ApartInv, HandsApart, PutsApart
<1>12. /\ \A v \in CacheThreads \ {t} : putArg[v] # putArg[t]
       /\ putArg[t] \notin held
       /\ \A u \in CacheThreads : \A i \in 1 .. Len(ThisThreadCache(u)) :
            ThisThreadCache(u)[i] # putArg[t] /\ ThisThreadCache(u)[i] \in Objects
       /\ \A m \in 1 .. Len(cacheList) : \A i \in 1 .. Len(cacheList[m]) :
            cacheList[m][i] # putArg[t] /\ cacheList[m][i] \in Objects
  <2>0. CacheTypeOK /\ HandsApart /\ PutsApart /\ OwnApart /\ ListedApart
    BY DEF CacheInv, ApartInv
  <2>1. (\A v \in CacheThreads \ {t} : putArg[v] # putArg[t]) /\ putArg[t] \notin held
    BY <1>2, <2>0 DEF PutsApart, HandsApart
  <2>2. \A u \in CacheThreads : \A i \in 1 .. Len(ThisThreadCache(u)) :
          ThisThreadCache(u)[i] # putArg[t] /\ ThisThreadCache(u)[i] \in Objects
    BY <2>0, CacheFacts DEF OwnApart
  <2>3. \A m \in 1 .. Len(cacheList) : \A i \in 1 .. Len(cacheList[m]) :
          cacheList[m][i] # putArg[t] /\ cacheList[m][i] \in Objects
    BY <2>0, CacheFacts DEF ListedApart
  <2> QED
    BY <2>1, <2>2, <2>3
<1>13. \A v \in CacheThreads : \A j \in 1 .. Len(ThisThreadCache(v)') :
         \/ v = t /\ j = 1 /\ ThisThreadCache(v)'[j] = putArg[t]
         \/ /\ v # t /\ j \in 1 .. Len(ThisThreadCache(v))
            /\ ThisThreadCache(v)'[j] = ThisThreadCache(v)[j]
  BY <1>5, <1>6
<1>14. \A m \in 1 .. Len(cacheList') :
         \/ m = k /\ cacheList'[m] = cache
         \/ m # k /\ m \in 1 .. Len(cacheList) /\ cacheList'[m] = cacheList[m]
  BY <1>3, <1>4
<1>15. OwnApart'
  <2> SUFFICES ASSUME NEW u \in CacheThreads, NEW i \in 1 .. Len(ThisThreadCache(u)')
               PROVE  /\ ThisThreadCache(u)'[i] \notin held'
                      /\ \A v \in CacheThreads :
                           /\ putArg'[v] # ThisThreadCache(u)'[i]
                           /\ \A j \in 1 .. Len(ThisThreadCache(v)') :
                                ThisThreadCache(u)'[i] = ThisThreadCache(v)'[j] => u = v /\ i = j
    BY DEF OwnApart
  <2>1. CASE u = t
    <3>1. i = 1 /\ ThisThreadCache(u)'[i] = putArg[t]
      BY <1>13, <2>1
    <3>2. \A v \in CacheThreads : putArg'[v] # putArg[t]
      BY <1>2, <1>7, <1>12
    <3>3. \A v \in CacheThreads : \A j \in 1 .. Len(ThisThreadCache(v)') :
            ThisThreadCache(v)'[j] = putArg[t] => v = t /\ j = 1
      BY <1>12, <1>13
    <3> QED
      BY <1>1, <1>12, <2>1, <3>1, <3>2, <3>3
  <2>2. CASE u # t
    <3>1. i \in 1 .. Len(ThisThreadCache(u)) /\ ThisThreadCache(u)'[i] = ThisThreadCache(u)[i]
      BY <1>13, <2>2
    <3>2. /\ ThisThreadCache(u)[i] \notin held
          /\ \A v \in CacheThreads :
               /\ putArg[v] # ThisThreadCache(u)[i]
               /\ \A j \in 1 .. Len(ThisThreadCache(v)) :
                    ThisThreadCache(u)[i] = ThisThreadCache(v)[j] => u = v /\ i = j
      BY <3>1 DEF CacheInv, ApartInv, OwnApart
    <3>3. \A v \in CacheThreads : putArg'[v] # ThisThreadCache(u)'[i]
      BY <1>2, <1>7, <1>12, <3>1, <3>2
    <3>4. \A v \in CacheThreads : \A j \in 1 .. Len(ThisThreadCache(v)') :
            ThisThreadCache(u)'[i] = ThisThreadCache(v)'[j] => u = v /\ i = j
      BY <1>12, <1>13, <3>1, <3>2
    <3> QED
      BY <1>1, <3>1, <3>2, <3>3, <3>4
  <2> QED
    BY <2>1, <2>2
<1>16. ListedApart'
  <2> SUFFICES ASSUME NEW n \in 1 .. Len(cacheList'), NEW i \in 1 .. Len(cacheList'[n])
               PROVE  /\ cacheList'[n][i] \notin held'
                      /\ \A u \in CacheThreads :
                           /\ putArg'[u] # cacheList'[n][i]
                           /\ \A j \in 1 .. Len(ThisThreadCache(u)') :
                                cacheList'[n][i] # ThisThreadCache(u)'[j]
                      /\ \A m \in 1 .. Len(cacheList') : \A j \in 1 .. Len(cacheList'[m]) :
                           cacheList'[n][i] = cacheList'[m][j] => n = m /\ i = j
    BY DEF ListedApart
  <2>1. CASE n = k /\ cacheList'[n] = cache
    <3>1. i \in 1 .. Len(cache)
      BY <2>1
    <3>2. /\ cache[i] \notin held
          /\ \A v \in CacheThreads :
               /\ putArg[v] # cache[i]
               /\ \A j \in 1 .. Len(ThisThreadCache(v)) :
                    cache[i] = ThisThreadCache(v)[j] => t = v /\ i = j
      BY <3>1 DEF CacheInv, ApartInv, OwnApart
    <3>3. \A m \in 1 .. Len(cacheList) : \A j \in 1 .. Len(cacheList[m]) :
            cacheList[m][j] # cache[i]
      BY <3>1 DEF CacheInv, ApartInv, ListedApart
    <3>4. cache[i] # putArg[t] /\ cache[i] \in Objects
      BY <1>12, <3>1
    <3>5. \A u \in CacheThreads : putArg'[u] # cache[i]
      BY <1>2, <1>7, <3>2, <3>4
    <3>6. \A u \in CacheThreads : \A j \in 1 .. Len(ThisThreadCache(u)') :
            cache[i] # ThisThreadCache(u)'[j]
      BY <1>13, <3>2, <3>4
    <3>7. \A m \in 1 .. Len(cacheList') : \A j \in 1 .. Len(cacheList'[m]) :
            cache[i] = cacheList'[m][j] => n = m /\ i = j
      BY <1>14, <2>1, <3>2, <3>3
    <3> QED
      BY <1>1, <2>1, <3>2, <3>5, <3>6, <3>7
  <2>2. CASE n # k /\ n \in 1 .. Len(cacheList) /\ cacheList'[n] = cacheList[n]
    <3>1. /\ cacheList[n][i] \notin held
          /\ \A u \in CacheThreads :
               /\ putArg[u] # cacheList[n][i]
               /\ \A j \in 1 .. Len(ThisThreadCache(u)) :
                    cacheList[n][i] # ThisThreadCache(u)[j]
          /\ \A m \in 1 .. Len(cacheList) : \A j \in 1 .. Len(cacheList[m]) :
               cacheList[n][i] = cacheList[m][j] => n = m /\ i = j
      BY <2>2 DEF CacheInv, ApartInv, ListedApart
    <3>2. cacheList[n][i] # putArg[t] /\ cacheList[n][i] \in Objects
      BY <1>12, <2>2
    <3>3. \A u \in CacheThreads : putArg'[u] # cacheList[n][i]
      BY <1>2, <1>7, <3>1, <3>2
    <3>4. \A u \in CacheThreads : \A j \in 1 .. Len(ThisThreadCache(u)') :
            cacheList[n][i] # ThisThreadCache(u)'[j]
      BY <1>13, <3>1, <3>2
    <3>5. \A m \in 1 .. Len(cacheList') : \A j \in 1 .. Len(cacheList'[m]) :
            cacheList[n][i] = cacheList'[m][j] => n = m /\ i = j
      BY <1>14, <2>2, <3>1
    <3> QED
      BY <1>1, <2>2, <3>1, <3>3, <3>4, <3>5
  <2> QED
    BY <1>14, <2>1, <2>2
<1>17. \A o \in Objects : Present(o)' => Present(o)
  <2> SUFFICES ASSUME NEW o \in Objects, Present(o)' PROVE Present(o)
    OBVIOUS
  <2>1. CASE o \in held'
    BY <1>1, <2>1 DEF Present
  <2>2. ASSUME NEW v \in CacheThreads, putArg'[v] = o PROVE Present(o)
    BY <1>2, <1>7, <2>2 DEF Present
  <2>3. ASSUME NEW v \in CacheThreads, NEW j \in 1 .. Len(ThisThreadCache(v)'),
               ThisThreadCache(v)'[j] = o
        PROVE  Present(o)
    BY <1>13, <2>3 DEF Present
  <2>4. ASSUME NEW m \in 1 .. Len(cacheList'), NEW j \in 1 .. Len(cacheList'[m]),
               cacheList'[m][j] = o
        PROVE  Present(o)
    BY <1>14, <2>4 DEF Present
  <2> QED
    BY <2>1, <2>2, <2>3, <2>4, CarvedPrimes
<1>18. \A o \in Objects : Present(o) => Present(o)'
  <2> SUFFICES ASSUME NEW o \in Objects, Present(o) PROVE Present(o)'
    OBVIOUS
  <2>1. CASE o \in held
    BY <1>1, <2>1, CarvedPrimes
  <2>2. ASSUME NEW v \in CacheThreads, putArg[v] = o PROVE Present(o)'
    BY <1>5, <1>6, <1>7, <2>2, CarvedPrimes
  <2>3. ASSUME NEW v \in CacheThreads, NEW i \in 1 .. Len(ThisThreadCache(v)),
               ThisThreadCache(v)[i] = o
        PROVE  Present(o)'
    <3>1. CASE v = t
      BY <1>3, <1>4, <2>3, <3>1, CarvedPrimes
    <3>2. CASE v # t
      BY <1>6, <2>3, <3>2, CarvedPrimes
    <3> QED
      BY <3>1, <3>2
  <2>4. ASSUME NEW m \in 1 .. Len(cacheList), NEW i \in 1 .. Len(cacheList[m]),
               cacheList[m][i] = o
        PROVE  Present(o)'
    BY <1>3, <1>4, <2>4, CarvedPrimes
  <2> QED
    BY <2>1, <2>2, <2>3, <2>4 DEF Present
<1> QED
  BY <1>1, <1>8, <1>9, <1>10, <1>11, <1>15, <1>16, <1>17, <1>18, CarvedStays
  DEF CacheInv, ApartInv, KeptPresent

\* A thread takes what its cache and its buffer held with it.
LEMMA ThreadExitsKeeps ==
    ASSUME CacheInv, NEW t \in CacheThreads, ThreadExits(t)
    PROVE  CacheInv'
<1>1. /\ cacheAt[t] = "user"
      /\ cacheOf' = [cacheOf EXCEPT ![t] = NoCache]
      /\ bufferOf' = [bufferOf EXCEPT ![t] = NoBuffer]
      /\ atExit' = [atExit EXCEPT ![t] = FALSE]
      /\ UNCHANGED <<singletons, cacheList, bufferList, buffers, held, cacheAt, putArg>>
  BY DEF ThreadExits
<1>2. /\ ThisThreadCache(t)' = <<>> /\ Len(<<>>) = 0
      /\ \A u \in CacheThreads \ {t} : ThisThreadCache(u)' = ThisThreadCache(u)
  BY <1>1, CachePrimes DEF ThisThreadCache, CacheInv, CacheTypeOK
<1>3. /\ NoBuffer \in [id : 0 .. MaxBuffers, size : 0 .. NumBufferObjects]
      /\ NoBuffer.id = 0
  BY CacheAssumption DEF NoBuffer
<1>4. /\ bufferOf'[t] = NoBuffer
      /\ \A u \in CacheThreads \ {t} : bufferOf'[u] = bufferOf[u]
  BY <1>1 DEF CacheInv, CacheTypeOK
<1>5. CacheTypeOK'
  BY <1>1, <1>3 DEF CacheInv, CacheTypeOK
<1>6. StageInv'
  BY <1>1, <1>2 DEF CacheInv, CacheTypeOK, StageInv
<1>7. FullInv'
  BY <1>1, <1>2, CacheAssumption DEF CacheInv, FullInv, ListedCachesAreFull
<1>8. BufferInv'
  BY <1>1, <1>3, <1>4 DEF CacheInv, CacheTypeOK, BufferInv
<1>9. \A v \in CacheThreads : \A j \in 1 .. Len(ThisThreadCache(v)') :
        v # t /\ ThisThreadCache(v)' = ThisThreadCache(v)
  BY <1>2
<1>10. ApartInv'
  BY <1>1, <1>9 DEF CacheInv, ApartInv, HandsApart, PutsApart, OwnApart, ListedApart
<1>11. \A o \in Objects : Present(o)' => Present(o)
  BY <1>1, <1>9, CarvedPrimes DEF Present
<1>12. \A o \in Objects : Uncarved(o)' => Uncarved(o)
  <2>1. \A o \in Objects : o[1] # 0
    BY DEF Objects
  <2> QED
    BY <1>1, <1>3, <1>4, <2>1, CarvedPrimes DEF Uncarved
<1> QED
  BY <1>5, <1>6, <1>7, <1>8, <1>10, <1>11, <1>12 DEF CacheInv, CarvedInv

LEMMA MultiplesHaveNoRest ==
    ASSUME NEW n \in Nat, NEW a \in Nat \ {0}
    PROVE  (n * a) % a = 0
  BY Z3

\* Rounding up to a multiple.
LEMMA RoundsUp ==
    ASSUME NEW x \in Nat, NEW a \in Nat \ {0}
    PROVE  LET y == ((x + a - 1) \div a) * a
           IN  y \in Nat /\ y >= x /\ y < x + a /\ y % a = 0
<1> DEFINE q == (x + a - 1) \div a
           r == (x + a - 1) % a
<1>1. q \in Nat /\ r \in 0 .. a - 1 /\ x + a - 1 = q * a + r
  BY Z3
<1> HIDE DEF q, r
<1>2. q * a \in Nat
  BY <1>1
<1>3. (q * a) % a = 0
  BY <1>1, MultiplesHaveNoRest
<1> QED
  BY <1>1, <1>2, <1>3 DEF q

\* Objects of any size, of an alignment that divides the offset of a buffer's
\* bytes, fit their buffer.
LEMMA SizeFits ==
    ASSUME NEW x \in Nat \ {0}, NEW a \in Nat \ {0}, NEW w \in Nat, kWordSize = w * a
    PROVE  SizesFit(x, a)
<1> DEFINE size == AlignedObjectSize(x, a)
           fit == IF size < kPageSize THEN kPageSize \div size ELSE 16
           num == IF fit < 16 THEN 16 ELSE fit
           bufsize == EstimateBufferSize(size)
           count == EstimateNumOfBufferObjects(bufsize, size)
<1>1. size \in Nat /\ size >= x /\ size < x + a /\ size % a = 0
  BY RoundsUp DEF AlignedObjectSize
<1>2. size \in Nat \ {0}
  BY <1>1
<1>3. bufsize = ((num * size + kPageSize - 1) \div kPageSize) * kPageSize
  BY DEF EstimateBufferSize
<1>4. count = bufsize \div size
  BY DEF EstimateNumOfBufferObjects
<1> HIDE DEF size, bufsize, count
<1>5. num \in Nat /\ num >= 16
  BY <1>2, Z3 DEF kPageSize
<1> HIDE DEF num
<1>6. num * size \in Nat /\ num * size >= 16 * size
  BY <1>2, <1>5
<1>7. bufsize \in Nat /\ bufsize >= num * size /\ bufsize % kPageSize = 0
  <2> DEFINE total == num * size
  <2>1. total \in Nat /\ kPageSize \in Nat \ {0}
    BY <1>6 DEF kPageSize
  <2> HIDE DEF total
  <2>2. /\ ((total + kPageSize - 1) \div kPageSize) * kPageSize \in Nat
        /\ ((total + kPageSize - 1) \div kPageSize) * kPageSize >= total
        /\ (((total + kPageSize - 1) \div kPageSize) * kPageSize) % kPageSize = 0
    BY <2>1, RoundsUp
  <2>3. bufsize = ((total + kPageSize - 1) \div kPageSize) * kPageSize
    BY <1>3 DEF total
  <2>4. bufsize \in Nat /\ bufsize >= total /\ bufsize % kPageSize = 0
    BY <2>2, <2>3, Zenon
  <2> QED
    BY <2>4 DEF total
<1>8. count \in Nat /\ count * size <= bufsize /\ bufsize < count * size + size
  BY <1>2, <1>4, <1>7, Z3
<1>9. count >= 16
  <2> SUFFICES ASSUME count <= 15 PROVE FALSE
    BY <1>8
  <2>1. count * size <= 15 * size
    BY <1>2, <1>8
  <2> QED
    BY <1>2, <1>6, <1>7, <1>8, <2>1
<1>10. ASSUME NEW i \in Nat PROVE BufferGet(i, size) % a = 0
  <2> DEFINE q == (x + a - 1) \div a
  <2>1. q \in Nat /\ size = q * a
    BY Z3 DEF AlignedObjectSize, size
  <2> HIDE DEF q
  <2>2. w * a + i * (q * a) = (w + i * q) * a /\ w + i * q \in Nat
    BY <2>1
  <2>3. BufferGet(i, size) = (w + i * q) * a
    BY <2>1, <2>2 DEF BufferGet
  <2> QED
    BY <2>2, <2>3, MultiplesHaveNoRest
<1>11. \A i \in 0 .. count - 1 : i \in Nat
  BY <1>8
<1> QED
  BY <1>1, <1>7, <1>8, <1>9, <1>10, <1>11 DEF SizesFit, size, bufsize, count

\* BuffersFit, for alignments up to a word.
LEMMA BuffersAlwaysFit == BuffersFit
<1> SUFFICES ASSUME NEW x \in ObjectSizes, NEW a \in {1, 2, 4, kWordSize}
             PROVE  SizesFit(x, a)
  BY DEF BuffersFit
<1>1. a \in Nat \ {0} /\ \E w \in Nat : kWordSize = w * a
  <2>1. 8 = 8 * 1 /\ 8 = 4 * 2 /\ 8 = 2 * 4 /\ 8 = 1 * 8
    OBVIOUS
  <2> QED
    BY <2>1 DEF kWordSize
<1> QED
  BY <1>1, SizeFits, CacheAssumption

\* The sites of an object are where it is present, and it has one at most.
SitesMatch ==
    \A obj \in Objects :
        /\ Sites(obj) # {} <=> Present(obj)
        /\ \A p, q \in Sites(obj) : p = q

LEMMA SitesArePlaces ==
    ASSUME CacheInv
    PROVE  SitesMatch
<1> SUFFICES ASSUME NEW obj \in Objects
             PROVE  /\ Sites(obj) # {} <=> Present(obj)
                    /\ \A p, q \in Sites(obj) : p = q
  BY DEF SitesMatch
<1>1. /\ NoObject \notin Objects
      /\ \A t \in CacheThreads : Len(ThisThreadCache(t)) \in Nat
                                 /\ Len(ThisThreadCache(t)) <= NumCacheObjects
      /\ \A n \in 1 .. Len(cacheList) : Len(cacheList[n]) \in Nat
                                        /\ Len(cacheList[n]) <= NumCacheObjects
      /\ NumCacheObjects \in Nat
  <2>1. DOMAIN cacheList = 1 .. Len(cacheList)
    BY DEF CacheInv, CacheTypeOK
  <2> QED
    BY <2>1, CacheFacts, CacheAssumption DEF CacheInv, FullInv, ListedCachesAreFull
<1>2. \A p \in Sites(obj) :
        \/ p = <<"hands", 0, 0>> /\ obj \in held
        \/ \E t \in CacheThreads : p = <<"put", t, 0>> /\ putArg[t] = obj
        \/ \E t \in CacheThreads : \E i \in 1 .. Len(ThisThreadCache(t)) :
             p = <<"own", t, i>> /\ ThisThreadCache(t)[i] = obj
        \/ \E n \in 1 .. Len(cacheList) : \E i \in 1 .. Len(cacheList[n]) :
             p = <<"listed", n, i>> /\ cacheList[n][i] = obj
  BY <1>1 DEF Sites
<1>3. /\ obj \in held => <<"hands", 0, 0>> \in Sites(obj)
      /\ \A t \in CacheThreads : putArg[t] = obj => <<"put", t, 0>> \in Sites(obj)
      /\ \A t \in CacheThreads : \A i \in 1 .. Len(ThisThreadCache(t)) :
           ThisThreadCache(t)[i] = obj => <<"own", t, i>> \in Sites(obj)
      /\ \A n \in 1 .. Len(cacheList) : \A i \in 1 .. Len(cacheList[n]) :
           cacheList[n][i] = obj => <<"listed", n, i>> \in Sites(obj)
  BY <1>1 DEF Sites
<1>4. Sites(obj) # {} <=> Present(obj)
  BY <1>2, <1>3 DEF Present
<1>5. ASSUME NEW p \in Sites(obj), NEW q \in Sites(obj) PROVE p = q
  <2>1. CASE obj \in held
    <3>1. \A s \in Sites(obj) : s = <<"hands", 0, 0>>
      BY <1>2, <2>1 DEF CacheInv, ApartInv, HandsApart, OwnApart, ListedApart
    <3> QED
      BY <3>1
  <2>2. ASSUME NEW t \in CacheThreads, putArg[t] = obj PROVE p = q
    <3>1. \A s \in Sites(obj) : s = <<"put", t, 0>>
      <4>1. obj \notin held /\ \A u \in CacheThreads : putArg[u] = obj => u = t
        BY <1>1, <2>2 DEF CacheInv, ApartInv, HandsApart, PutsApart
      <4>2. \A u \in CacheThreads : \A j \in 1 .. Len(ThisThreadCache(u)) :
              ThisThreadCache(u)[j] # obj
        BY <2>2 DEF CacheInv, ApartInv, OwnApart
      <4>3. \A n \in 1 .. Len(cacheList) : \A j \in 1 .. Len(cacheList[n]) :
              cacheList[n][j] # obj
        BY <2>2 DEF CacheInv, ApartInv, ListedApart
      <4> QED
        BY <1>2, <4>1, <4>2, <4>3
    <3> QED
      BY <3>1
  <2>3. ASSUME NEW t \in CacheThreads, NEW i \in 1 .. Len(ThisThreadCache(t)),
               ThisThreadCache(t)[i] = obj
        PROVE  p = q
    <3>1. \A s \in Sites(obj) : s = <<"own", t, i>>
      <4>1. obj \notin held /\ \A u \in CacheThreads : putArg[u] # obj
        BY <2>3 DEF CacheInv, ApartInv, OwnApart
      <4>2. \A u \in CacheThreads : \A j \in 1 .. Len(ThisThreadCache(u)) :
              ThisThreadCache(u)[j] = obj => u = t /\ j = i
        BY <2>3 DEF CacheInv, ApartInv, OwnApart
      <4>3. \A n \in 1 .. Len(cacheList) : \A j \in 1 .. Len(cacheList[n]) :
              cacheList[n][j] # obj
        BY <2>3 DEF CacheInv, ApartInv, ListedApart
      <4> QED
        BY <1>2, <4>1, <4>2, <4>3
    <3> QED
      BY <3>1
  <2>4. ASSUME NEW n \in 1 .. Len(cacheList), NEW i \in 1 .. Len(cacheList[n]),
               cacheList[n][i] = obj
        PROVE  p = q
    <3>1. \A s \in Sites(obj) : s = <<"listed", n, i>>
      <4>1. /\ obj \notin held /\ \A u \in CacheThreads : putArg[u] # obj
            /\ \A u \in CacheThreads : \A j \in 1 .. Len(ThisThreadCache(u)) :
                 ThisThreadCache(u)[j] # obj
        BY <2>4 DEF CacheInv, ApartInv, ListedApart
      <4>2. \A m \in 1 .. Len(cacheList) : \A j \in 1 .. Len(cacheList[m]) :
              cacheList[m][j] = obj => m = n /\ j = i
        BY <2>4 DEF CacheInv, ApartInv, ListedApart
      <4> QED
        BY <1>2, <4>1, <4>2
    <3> QED
      BY <3>1
  <2> QED
    BY <1>2, <2>1, <2>2, <2>3, <2>4
<1> QED
  BY <1>4, <1>5

\* What the invariant says of ownership.
LEMMA CacheInvImplies ==
    ASSUME CacheInv
    PROVE  OneSingleton /\ OneOwner /\ ListedCachesAreFull
<1>1. OneSingleton /\ ListedCachesAreFull
  BY DEF CacheInv, CacheTypeOK, OneSingleton, FullInv
<1>2. OneOwner
  BY BuffersAlwaysFit, SitesArePlaces DEF SitesMatch, OneOwner, CacheInv, CacheTypeOK, CarvedInv
<1> QED
  BY <1>1, <1>2

\* A step loses no object unless it is the end of a thread.
LEMMA CacheStepKeeps ==
    ASSUME CacheInv, CacheNext
    PROVE  /\ CacheInv'
           /\ KeptPresent \/ \E t \in CacheThreads : atExit[t] /\ ~ atExit'[t]
<1>1. PICK t \in CacheThreads :
        \/ \E obj \in held \cup {NoObject} : CacheBegin(t, obj)
        \/ SingletonCreate(t)
        \/ GetLocal(t)
        \/ \E empty \in BOOLEAN : PeekCacheList(t, empty)
        \/ GetFromList(t)
        \/ GetFromBuffer(t)
        \/ PutLocal(t)
        \/ PutSpill(t)
        \/ ThreadExits(t)
  BY DEF CacheNext
<1>2. CASE ThreadExits(t)
  <2>1. CacheInv'
    BY <1>2, ThreadExitsKeeps
  <2>2. atExit[t] /\ ~ atExit'[t]
    BY <1>2 DEF ThreadExits, CacheInv, CacheTypeOK
  <2> QED
    BY <2>1, <2>2
<1>3. CASE \E obj \in held \cup {NoObject} : CacheBegin(t, obj)
  BY <1>3, CacheBeginKeeps
<1>4. CASE \E empty \in BOOLEAN : PeekCacheList(t, empty)
  BY <1>4, PeekKeeps
<1> QED
  BY <1>1, <1>2, <1>3, <1>4, SingletonCreateKeeps, GetLocalKeeps, GetFromListKeeps,
     GetFromBufferKeeps, PutLocalKeeps, PutSpillKeeps

\* Stuttering.
LEMMA CacheStutters ==
    ASSUME CacheInv, UNCHANGED cacheVars
    PROVE  CacheInv'
<1>1. \A u \in CacheThreads : ThisThreadCache(u)' = ThisThreadCache(u)
  BY CachePrimes DEF ThisThreadCache, cacheVars
<1>2. CacheTypeOK' /\ StageInv'
  BY <1>1 DEF CacheInv, CacheTypeOK, StageInv, cacheVars
<1> QED
  BY <1>1, <1>2, QuietKeeps DEF CacheInv, cacheVars

\* What the caches, the list and the buffers hold, as the whole of ObjectCache
\* keeps it.
THEOREM CacheInvariant == CacheSpec => []CacheInv
<1>1. CacheInit => CacheInv
  <2> SUFFICES ASSUME CacheInit PROVE CacheInv
    OBVIOUS
  <2>1. \A t \in CacheThreads : ThisThreadCache(t) = <<>>
    BY DEF CacheInit, ThisThreadCache
  <2>2. CacheTypeOK
    BY CacheAssumption DEF CacheInit, CacheTypeOK, NoBuffer
  <2>3. StageInv
    BY DEF CacheInit, StageInv
  <2>4. FullInv /\ BufferInv
    BY <2>1, CacheAssumption
    DEF CacheInit, FullInv, ListedCachesAreFull, BufferInv, NoBuffer
  <2>5. ApartInv
    BY <2>1 DEF CacheInit, ApartInv, HandsApart, PutsApart, OwnApart, ListedApart
  <2>6. \A obj \in Objects : ~ Present(obj)
    BY <2>1, <2>2, CacheFacts DEF CacheInit, Present
  <2> QED
    BY <2>2, <2>3, <2>4, <2>5, <2>6 DEF CacheInv, CarvedInv
<1>2. CacheInv /\ [CacheNext]_cacheVars => CacheInv'
  BY CacheStepKeeps, CacheStutters
<1> QED
  BY <1>1, <1>2, PTL DEF CacheSpec

\* ObjectCache: however the threads' gets, puts and ends interleave, the racing
\* first users construct one MemCache, no object is in two hands or outside of
\* its buffer, listed caches are full, and only the end of a thread loses memory.
THEOREM MemoryStaysAccounted == CacheSpec => MemoryIsAccounted
<1> DEFINE A == /\ OneSingleton' /\ OneOwner' /\ ListedCachesAreFull'
                /\ \A obj \in Objects : (Sites(obj) # {} /\ Sites(obj)' = {}) =>
                      \E t \in CacheThreads : atExit[t] /\ ~ atExit'[t]
<1>1. CacheInv /\ CacheInv' /\ [CacheNext]_cacheVars => [A]_cacheVars
  <2> SUFFICES ASSUME CacheInv, CacheInv', CacheNext PROVE A
    OBVIOUS
  <2>1. OneSingleton' /\ OneOwner' /\ ListedCachesAreFull'
    BY CacheInvImplies, PTL
  <2>2. SitesMatch'
    BY SitesArePlaces, PTL
  <2>3. ASSUME NEW obj \in Objects, Sites(obj) # {}, Sites(obj)' = {}
        PROVE  \E t \in CacheThreads : atExit[t] /\ ~ atExit'[t]
    <3>1. Present(obj)
      BY <2>3, SitesArePlaces DEF SitesMatch
    <3>2. ~ Present(obj)'
      BY <2>3, <2>2 DEF SitesMatch
    <3> QED
      BY <3>1, <3>2, CacheStepKeeps DEF KeptPresent
  <2> QED
    BY <2>1, <2>3
<1> QED
  BY <1>1, CacheInvariant, PTL DEF CacheSpec, MemoryIsAccounted

-----------------------------------------------------------------------------
(* Numbers: the least of a set, remainders and powers of two.              *)

\* A non-empty set of numbers has a least one.
LEMMA LeastNumber ==
    ASSUME NEW T, T \subseteq Nat, T # {}
    PROVE  \E x \in T : \A y \in T : x <= y
<1> DEFINE R == {p \in Nat \X Nat : p[1] < p[2]}
<1>1. IsWellFoundedOn(R, Nat)
  BY NatLessThanWellFounded DEF OpToRel
<1>2. \E x \in T : \A y \in T : ~ (<<y, x>> \in R)
  <2> HIDE DEF R
  <2> QED
    BY <1>1, WFMin
<1>3. PICK x \in T : \A y \in T : ~ (<<y, x>> \in R)
  BY <1>2
<1>4. \A y \in T : x <= y
  <2> TAKE y \in T
  <2>1. ~ (<<y, x>> \in R)
    BY <1>3
  <2>2. y \in Nat /\ x \in Nat
    OBVIOUS
  <2> QED
    BY <2>1, <2>2
<1> QED
  BY <1>4

\* A number is its quotient and its remainder.
LEMMA DivMod ==
    ASSUME NEW a \in Nat, NEW n \in Nat \ {0}
    PROVE  /\ a = (a \div n) * n + (a % n)
           /\ a \div n \in Nat
           /\ a % n \in 0 .. n - 1
  OBVIOUS

\* What a division leaves, and how often it goes.
LEMMA Remainder ==
    ASSUME NEW q \in Nat, NEW r \in Nat, NEW n \in Nat \ {0}, r < n
    PROVE  (q * n + r) % n = r
  OBVIOUS

LEMMA Quotient ==
    ASSUME NEW q \in Nat, NEW r \in Nat, NEW n \in Nat \ {0}, r < n
    PROVE  (q * n + r) \div n = q
  OBVIOUS

\* A position before the end is its own slot, and a position may be counted on
\* from its slot.
LEMMA NoTurn ==
    ASSUME NEW x \in Nat, NEW n \in Nat \ {0}, x < n
    PROVE  x % n = x
  OBVIOUS

LEMMA NextTurn ==
    ASSUME NEW x \in Nat, NEW n \in Nat \ {0}
    PROVE  ((x % n) + 1) % n = (x + 1) % n
<1> DEFINE q == x \div n
           r == x % n
<1>1. x = q * n + r /\ q \in Nat /\ r \in 0 .. n - 1
  BY DivMod
<1> HIDE DEF q, r
<1>2. CASE r + 1 < n
  <2>1. (q * n + (r + 1)) % n = r + 1 /\ (r + 1) % n = r + 1
    BY <1>1, <1>2, Remainder, NoTurn
  <2>2. x + 1 = q * n + (r + 1)
    BY <1>1
  <2> QED
    BY <2>1, <2>2 DEF r
<1>3. CASE r + 1 = n
  <2>1. ((q + 1) * n + 0) % n = 0 /\ (1 * n + 0) % n = 0
    BY <1>1, Remainder
  <2>2. x + 1 = (q + 1) * n + 0 /\ r + 1 = 1 * n + 0
    BY <1>1, <1>3
  <2> QED
    BY <2>1, <2>2 DEF r
<1> QED
  BY <1>1, <1>2, <1>3

\* A power of two is 1 or twice a power of two, and twice a power of two in
\* the word is one.
LEMMA PowerHalves ==
    ASSUME NEW p \in PowersOfTwo, p # 1
    PROVE  \E h \in PowersOfTwo : p = 2 * h
<1>1. p \in Nat /\ p >= 1 /\ p <= SizeMod
      /\ \A d, e \in 1 .. p : d * e = p => d = 1 \/ d % 2 = 0
  BY SizeModAssumption DEF PowersOfTwo
<1>2. p % 2 = 0
  BY <1>1
<1>3. PICK h \in Nat : p = 2 * h
  BY <1>1, <1>2
<1>4. ASSUME NEW d \in 1 .. h, NEW e \in 1 .. h, d * e = h
      PROVE  d = 1 \/ d % 2 = 0
  <2>1. d * (2 * e) = p
    BY <1>3, <1>4
  <2>2. d \in 1 .. p /\ 2 * e \in 1 .. p
    BY <1>3
  <2> QED
    BY <1>1, <2>1, <2>2
<1>5. h \in 1 .. SizeMod
  BY <1>1, <1>3, SizeModAssumption
<1> QED
  BY <1>3, <1>4, <1>5 DEF PowersOfTwo

LEMMA PowerDoubles ==
    ASSUME NEW p \in PowersOfTwo, 2 * p <= SizeMod
    PROVE  2 * p \in PowersOfTwo
<1>1. p \in Nat /\ p >= 1 /\ \A d, e \in 1 .. p : d * e = p => d = 1 \/ d % 2 = 0
  BY SizeModAssumption DEF PowersOfTwo
<1>2. ASSUME NEW d \in 1 .. 2 * p, NEW e \in 1 .. 2 * p, d * e = 2 * p, d % 2 # 0
      PROVE  d = 1
  <2>1. PICK k \in Nat : d = 2 * k + 1
    BY <1>2, <1>1
  <2>2. (2 * k) * e + e = 2 * p
    BY <1>1, <1>2, <2>1
  <2>3. PICK f \in Int : e = 2 * f
    <3>1. e = 2 * (p - k * e)
      BY <2>2, <1>1
    <3>2. p - k * e \in Int
      BY <1>1
    <3> QED
      BY <3>1, <3>2
  <2>4. d * f = p
    BY <2>3, <1>2, <1>1
  <2>5. f >= 1 /\ f <= p /\ d <= p
    <3>1. f >= 1
      BY <2>3
    <3>2. d * f >= d /\ d * f >= f
      BY <3>1, <1>1
    <3> QED
      BY <2>4, <3>1, <3>2
  <2>6. d \in 1 .. p /\ f \in 1 .. p
    BY <1>1, <2>5
  <2> QED
    BY <1>1, <1>2, <2>4, <2>6
<1>3. 2 * p \in 1 .. SizeMod
  BY <1>1, SizeModAssumption
<1> QED
  BY <1>2, <1>3 DEF PowersOfTwo

\* Of two powers of two the smaller divides the other.
LEMMA PowersDivide ==
    ASSUME NEW a \in PowersOfTwo, NEW b \in PowersOfTwo, a <= b
    PROVE  \E k \in Nat \ {0} : b = a * k
<1> DEFINE Bad == {x \in PowersOfTwo : \E y \in PowersOfTwo :
                      x <= y /\ ~ \E k \in Nat \ {0} : y = x * k}
<1>1. Bad \subseteq Nat
  BY SizeModAssumption DEF PowersOfTwo
<1>2. SUFFICES Bad = {}
  OBVIOUS
<1>3. SUFFICES ASSUME Bad # {} PROVE FALSE
  OBVIOUS
<1>4. PICK x \in Bad : \A y \in Bad : x <= y
  <2> HIDE DEF Bad
  <2> QED
    BY <1>1, <1>3, LeastNumber
<1>5. PICK y \in PowersOfTwo : x <= y /\ ~ \E k \in Nat \ {0} : y = x * k
  OBVIOUS
<1>6. x \in PowersOfTwo /\ x \in Nat \ {0} /\ y \in Nat \ {0}
  BY SizeModAssumption DEF PowersOfTwo
<1>7. x # 1
  BY <1>5, <1>6
<1>8. PICK h \in PowersOfTwo : x = 2 * h
  BY <1>6, <1>7, PowerHalves
<1>9. PICK g \in PowersOfTwo : y = 2 * g
  BY <1>5, <1>6, <1>7, PowerHalves
<1>10. h \in Nat \ {0} /\ g \in Nat \ {0}
  BY SizeModAssumption DEF PowersOfTwo
<1>11. h < x /\ h <= g
  BY <1>5, <1>8, <1>9, <1>10
<1>12. h \notin Bad
  <2> HIDE DEF Bad
  <2> QED
    BY <1>1, <1>4, <1>6, <1>10, <1>11
<1>13. PICK k \in Nat \ {0} : g = h * k
  BY <1>11, <1>12
<1>14. y = x * k
  BY <1>8, <1>9, <1>10, <1>13
<1> QED
  BY <1>5, <1>14

\* The smallest power from a number on is one, and less than twice it.
LEMMA PowOfTwoIs ==
    ASSUME NEW x \in Nat \ {0}, 2 * x <= SizeMod
    PROVE  PowOfTwo(x) \in PowersOfTwo /\ PowOfTwo(x) < SizeMod /\ PowOfTwo(x) >= x
<1> DEFINE From == {p \in PowersOfTwo : p >= x}
           Is(p) == p >= x /\ \A q \in PowersOfTwo : q >= x => p <= q
           c == CHOOSE p \in PowersOfTwo : Is(p)
<1>1. From \subseteq Nat /\ SizeMod \in From
  BY SizeModAssumption, RingAssumption DEF PowersOfTwo
<1>2. \E p \in From : \A q \in From : p <= q
  <2> HIDE DEF From
  <2> QED
    BY <1>1, LeastNumber
<1>3. \E p \in PowersOfTwo : Is(p)
  BY <1>2
<1>4. c \in PowersOfTwo /\ Is(c)
  <2> HIDE DEF Is
  <2> QED
    BY <1>3
<1>6. PowOfTwo(x) = c % SizeMod
  BY DEF PowOfTwo
<1> HIDE DEF c
<1>5. c \in Nat \ {0}
  BY <1>4, SizeModAssumption DEF PowersOfTwo
<1>7. c < SizeMod
  <2>1. CASE c = 1
    BY <2>1, SizeModAssumption
  <2>2. CASE c # 1
    <3>1. PICK h \in PowersOfTwo : c = 2 * h
      BY <1>4, <2>2, PowerHalves
    <3>2. h \in Nat \ {0}
      BY SizeModAssumption DEF PowersOfTwo
    <3>3. h < x
      BY <1>4, <1>5, <3>1, <3>2
    <3> QED
      BY <3>1, <3>2, <3>3, SizeModAssumption
  <2> QED
    BY <2>1, <2>2
<1>8. c % SizeMod = c
  BY <1>5, <1>7, SizeModAssumption
<1> QED
  BY <1>4, <1>5, <1>6, <1>7, <1>8

\* A power of two is rounded up to itself.
LEMMA PowOfPower ==
    ASSUME NEW x \in PowersOfTwo, x < SizeMod
    PROVE  PowOfTwo(x) = x
<1> DEFINE Is(p) == p >= x /\ \A q \in PowersOfTwo : q >= x => p <= q
           c == CHOOSE p \in PowersOfTwo : Is(p)
<1>1. PowersOfTwo \subseteq Nat \ {0}
  BY SizeModAssumption DEF PowersOfTwo
<1>2. Is(x)
  BY <1>1
<1>3. c \in PowersOfTwo /\ Is(c)
  <2> HIDE DEF Is
  <2> QED
    BY <1>2
<1>4. PowOfTwo(x) = c % SizeMod
  BY <1>1 DEF PowOfTwo
<1> HIDE DEF c
<1>5. c = x
  BY <1>1, <1>3
<1> QED
  BY <1>1, <1>4, <1>5, SizeModAssumption

-----------------------------------------------------------------------------
(* Positions and slots.                                                    *)

\* A position that wrapped around the word has the slot it would have had.
LEMMA SameSlot ==
    ASSUME NEW c \in PowersOfTwo, NEW p \in Nat
    PROVE  /\ c \in Nat \ {0}
           /\ (p % SizeMod) % c = p % c
           /\ p % c \in 0 .. c - 1
           /\ p % SizeMod \in 0 .. SizeMod - 1
<1>1. c \in Nat \ {0} /\ c <= SizeMod /\ SizeMod \in Nat \ {0}
  BY SizeModAssumption DEF PowersOfTwo
<1>2. PICK k \in Nat \ {0} : SizeMod = c * k
  BY <1>1, RingAssumption, PowersDivide
<1> DEFINE q == p \div SizeMod
           r == p % SizeMod
           a == r \div c
           b == r % c
<1>3. p = q * SizeMod + r /\ q \in Nat /\ r \in 0 .. SizeMod - 1
  BY <1>1, DivMod
<1>4. r = a * c + b /\ a \in Nat /\ b \in 0 .. c - 1
  BY <1>1, <1>3, DivMod
<1> HIDE DEF q, r, a, b
<1>5. q * SizeMod = (q * k) * c
  BY <1>1, <1>2, <1>3
<1>6. p = (q * k + a) * c + b
  BY <1>1, <1>2, <1>3, <1>4, <1>5
<1>7. q * k + a \in Nat
  BY <1>2, <1>3, <1>4
<1>8. p % c = b
  BY <1>1, <1>4, <1>6, <1>7, Remainder
<1> QED
  BY <1>1, <1>3, <1>4, <1>8 DEF r, b

\* Fewer positions than slots in a row have different slots.
LEMMA SlotsApart ==
    ASSUME NEW c \in Nat \ {0}, NEW p \in Nat, NEW s \in Nat, p < s, s < p + c
    PROVE  p % c # s % c
<1> SUFFICES ASSUME p % c = s % c PROVE FALSE
  OBVIOUS
<1> DEFINE a == p \div c
           b == s \div c
           r == p % c
<1>1. p = a * c + r /\ s = b * c + r /\ a \in Nat /\ b \in Nat /\ r \in 0 .. c - 1
  BY DivMod
<1> HIDE DEF a, b, r
<1>2. (b - a) * c = s - p
  BY <1>1
<1>3. b - a \in Int /\ (b - a <= 0 \/ b - a >= 1)
  BY <1>1
<1>4. b - a <= 0 => (b - a) * c <= 0
  BY <1>3
<1>5. b - a >= 1 => (b - a) * c >= c
  BY <1>3
<1> QED
  BY <1>2, <1>3, <1>4, <1>5

-----------------------------------------------------------------------------
(* A buffer holds a sequence.                                              *)

\* Buffers of elements of V, and one whose positions are those of the sequence q:
\* as many, in a vector with a power of two of slots.
RingRecords(V) ==
    [vector : UNION {[0 .. n - 1 -> V \cup {Raw}] : n \in Nat},
     capacity : Nat, size : Nat, begin : Nat, end : Nat]

RingShape(r, q, V) ==
    /\ r \in RingRecords(V) /\ q \in Seq(V)
    /\ r.capacity \in PowersOfTwo /\ r.capacity < SizeMod
    /\ r.vector \in [0 .. r.capacity - 1 -> V \cup {Raw}]
    /\ r.size = Len(q) /\ Len(q) <= r.capacity
    /\ r.begin < SizeMod
    /\ r.end = (r.begin + Len(q)) % SizeMod

\* The slots from begin on hold the sequence's elements.
SlotsHold(r, q) ==
    \A i \in 1 .. Len(q) : r.vector[(r.begin + i - 1) % r.capacity] = q[i]

\* Every slot with an object is one of those.
OthersRaw(r, q) ==
    \A j \in 0 .. r.capacity - 1 :
        r.vector[j] # Raw => \E i \in 1 .. Len(q) : j = (r.begin + i - 1) % r.capacity

RingHolds(r, q, V) == RingShape(r, q, V) /\ SlotsHold(r, q) /\ OthersRaw(r, q)

\* What the positions of a buffer are.
LEMMA ShapeNumbers ==
    ASSUME NEW V, NEW r, NEW q, RingShape(r, q, V)
    PROVE  /\ r.capacity \in Nat \ {0} /\ r.begin \in Nat /\ Len(q) \in Nat
           /\ SizeMod \in Nat \ {0}
           /\ r.end \in 0 .. SizeMod - 1
<1>1. r.begin \in Nat /\ Len(q) \in Nat
  BY DEF RingShape, RingRecords
<1>2. r.end = (r.begin + Len(q)) % SizeMod /\ r.capacity \in PowersOfTwo
  BY DEF RingShape
<1>3. r.begin + Len(q) \in Nat
  BY <1>1
<1> QED
  BY <1>1, <1>2, <1>3, SameSlot, SizeModAssumption

\* A write leaves the rest of the buffer alone.
LEMMA SetSlotIs ==
    ASSUME NEW V, NEW r \in RingRecords(V), NEW p, NEW x
    PROVE  SetSlot(r, p, x) =
               [vector |-> [r.vector EXCEPT ![GetIndex(r, p)] = x], capacity |-> r.capacity,
                size |-> r.size, begin |-> r.begin, end |-> r.end]
<1> DEFINE w == [r.vector EXCEPT ![GetIndex(r, p)] = x]
<1>1. SetSlot(r, p, x) = [r EXCEPT !.vector = w]
  BY DEF SetSlot
<1> HIDE DEF w
<1>2. [r EXCEPT !.vector = w] =
          [vector |-> w, capacity |-> r.capacity,
           size |-> r.size, begin |-> r.begin, end |-> r.end]
  BY DEF RingRecords
<1> QED
  BY <1>1, <1>2 DEF w

\* The wrapped distance from the first position to one behind the last.
LEMMA PositionsAre ==
    ASSUME NEW V, NEW r, NEW q, RingShape(r, q, V)
    PROVE  /\ (r.end - r.begin) % SizeMod = Len(q)
           /\ Len(q) > 0 => (r.end + SizeMod - 1) % SizeMod = (r.begin + Len(q) - 1) % SizeMod
<1> DEFINE b == r.begin
           n == Len(q)
           M == SizeMod
<1>1. b \in Nat /\ n \in Nat /\ b < M /\ n < M /\ M \in Nat \ {0} /\ r.end = (b + n) % M
  <2>1. n <= r.capacity /\ r.capacity < SizeMod /\ b < M /\ r.end = (b + n) % M
    BY DEF RingShape
  <2> QED
    BY <2>1, ShapeNumbers
<1> HIDE DEF b, n, M
<1>2. CASE b + n < M
  <2>1. r.end = b + n
    BY <1>1, <1>2
  <2>2. (r.end - b) % M = n
    BY <1>1, <2>1
  <2>3. n > 0 => (r.end + M - 1) % M = (b + n - 1) % M
    <3> SUFFICES ASSUME n > 0 PROVE (r.end + M - 1) % M = (b + n - 1) % M
      OBVIOUS
    <3>1. r.end + M - 1 = 1 * M + (b + n - 1) /\ b + n - 1 \in Nat /\ b + n - 1 < M
      BY <1>1, <1>2, <2>1
    <3>2. (1 * M + (b + n - 1)) % M = b + n - 1
      BY <1>1, <3>1, Remainder
    <3> QED
      BY <1>1, <3>1, <3>2
  <2> QED
    BY <2>2, <2>3 DEF b, n, M
<1>3. CASE b + n >= M
  <2>1. r.end = b + n - M
    <3>1. b + n = 1 * M + (b + n - M) /\ b + n - M \in Nat /\ b + n - M < M
      BY <1>1, <1>3
    <3>2. (1 * M + (b + n - M)) % M = b + n - M
      BY <1>1, <3>1, Remainder
    <3> QED
      BY <1>1, <3>1, <3>2
  <2>2. (r.end - b) % M = n
    <3>1. r.end - b = n - M
      BY <1>1, <2>1
    <3>2. (n - M) % M = n
      BY <1>1
    <3> QED
      BY <3>1, <3>2
  <2>3. r.end + M - 1 = b + n - 1
    BY <1>1, <2>1
  <2> QED
    BY <2>2, <2>3 DEF b, n, M
<1> QED
  BY <1>1, <1>2, <1>3

\* The slot of the element i, by its position.
LEMMA SlotOfElement ==
    ASSUME NEW V, NEW r, NEW q, RingShape(r, q, V), NEW i \in Nat, i >= 1
    PROVE  /\ GetIndex(r, (r.begin + i - 1) % SizeMod) = (r.begin + i - 1) % r.capacity
           /\ (r.begin + i - 1) % r.capacity \in 0 .. r.capacity - 1
<1>1. r.begin + i - 1 \in Nat /\ r.capacity \in PowersOfTwo
  BY ShapeNumbers DEF RingShape
<1> QED
  BY <1>1, SameSlot DEF GetIndex

\* What the iterators, Front and Back find.
LEMMA HeldIsFound ==
    ASSUME NEW V, NEW r, NEW q, RingHolds(r, q, V), Raw \notin V
    PROVE  /\ Elements(r) = q
           /\ r.size = Len(q)
           /\ r.capacity = PowOfTwo(r.capacity)
           /\ q # <<>> => RingFront(r) = q[1] /\ RingBack(r) = q[Len(q)]
           /\ {i \in DOMAIN r.vector : r.vector[i] # Raw} =
                  {GetIndex(r, Positions(r)[i]) : i \in DOMAIN Positions(r)}
<1>0. RingShape(r, q, V) /\ SlotsHold(r, q) /\ OthersRaw(r, q)
  BY DEF RingHolds
<1>1. /\ r.capacity \in Nat \ {0} /\ r.begin \in Nat /\ Len(q) \in Nat
      /\ SizeMod \in Nat \ {0} /\ r.begin < SizeMod
      /\ q \in Seq(V) /\ r.size = Len(q) /\ r.vector \in [0 .. r.capacity - 1 -> V \cup {Raw}]
      /\ r.capacity \in PowersOfTwo /\ r.capacity < SizeMod
  <2>1. /\ r.begin < SizeMod /\ q \in Seq(V) /\ r.size = Len(q)
        /\ r.vector \in [0 .. r.capacity - 1 -> V \cup {Raw}]
        /\ r.capacity \in PowersOfTwo /\ r.capacity < SizeMod
    BY <1>0 DEF RingShape
  <2> QED
    BY <1>0, <2>1, ShapeNumbers
<1>2. Positions(r) = [i \in 1 .. Len(q) |-> (r.begin + i - 1) % SizeMod]
  BY <1>0, PositionsAre DEF Positions
<1>3. DOMAIN Positions(r) = 1 .. Len(q)
  BY <1>2
<1>4. ASSUME NEW i \in 1 .. Len(q)
      PROVE  /\ GetIndex(r, Positions(r)[i]) = (r.begin + i - 1) % r.capacity
             /\ Get(r, Positions(r)[i]) = q[i]
             /\ q[i] \in V
  <2>1. Positions(r)[i] = (r.begin + i - 1) % SizeMod
    BY <1>2
  <2>2. GetIndex(r, Positions(r)[i]) = (r.begin + i - 1) % r.capacity
    BY <1>0, <1>1, <2>1, SlotOfElement
  <2>3. r.vector[(r.begin + i - 1) % r.capacity] = q[i]
    BY <1>0 DEF SlotsHold
  <2>4. q[i] \in V
    BY <1>1
  <2> QED
    BY <2>2, <2>3, <2>4 DEF Get
<1>5. Elements(r) = q
  <2>1. Elements(r) = [i \in 1 .. Len(q) |-> q[i]]
    BY <1>3, <1>4 DEF Elements
  <2> QED
    BY <1>1, <2>1
<1>6. r.capacity = PowOfTwo(r.capacity)
  BY <1>1, PowOfPower
<1>7. ASSUME q # <<>> PROVE RingFront(r) = q[1] /\ RingBack(r) = q[Len(q)]
  <2>1. Len(q) >= 1
    BY <1>1, <1>7, EmptySeq
  <2>2. RingFront(r) = q[1]
    <3>1. r.begin % SizeMod = r.begin /\ r.begin + 1 - 1 = r.begin
      BY <1>1, NoTurn
    <3>2. 1 \in 1 .. Len(q)
      BY <1>1, <2>1
    <3>3. Positions(r)[1] = (r.begin + 1 - 1) % SizeMod
      BY <1>2, <3>2
    <3>4. Get(r, Positions(r)[1]) = q[1]
      BY <1>4, <3>2
    <3> QED
      BY <3>1, <3>3, <3>4 DEF RingFront
  <2>3. RingBack(r) = q[Len(q)]
    <3>1. (r.end + SizeMod - 1) % SizeMod = (r.begin + Len(q) - 1) % SizeMod
      BY <1>0, <1>1, <2>1, PositionsAre
    <3>2. Len(q) \in 1 .. Len(q)
      BY <1>1, <2>1
    <3>3. Positions(r)[Len(q)] = (r.begin + Len(q) - 1) % SizeMod
      BY <1>2, <3>2
    <3>4. Get(r, Positions(r)[Len(q)]) = q[Len(q)]
      BY <1>4, <3>2
    <3> QED
      BY <3>1, <3>3, <3>4 DEF RingBack
  <2> QED
    BY <2>2, <2>3
<1>8. {i \in DOMAIN r.vector : r.vector[i] # Raw} =
          {GetIndex(r, Positions(r)[i]) : i \in DOMAIN Positions(r)}
  <2>1. DOMAIN r.vector = 0 .. r.capacity - 1
    BY <1>1
  <2>2. ASSUME NEW j \in 0 .. r.capacity - 1, r.vector[j] # Raw
        PROVE  \E i \in 1 .. Len(q) : j = GetIndex(r, Positions(r)[i])
    <3>1. PICK i \in 1 .. Len(q) : j = (r.begin + i - 1) % r.capacity
      BY <1>0, <2>2 DEF OthersRaw
    <3> QED
      BY <1>4, <3>1
  <2>3. ASSUME NEW i \in 1 .. Len(q)
        PROVE  /\ GetIndex(r, Positions(r)[i]) \in 0 .. r.capacity - 1
               /\ r.vector[GetIndex(r, Positions(r)[i])] # Raw
    <3>1. (r.begin + i - 1) % r.capacity \in 0 .. r.capacity - 1
      BY <1>0, <1>1, SlotOfElement
    <3>2. GetIndex(r, Positions(r)[i]) \in 0 .. r.capacity - 1
      BY <1>4, <3>1
    <3>3. r.vector[GetIndex(r, Positions(r)[i])] = q[i] /\ q[i] \in V
      BY <1>4 DEF Get
    <3> QED
      BY <3>2, <3>3
  <2> QED
    BY <1>3, <2>1, <2>2, <2>3
<1> QED
  BY <1>1, <1>5, <1>6, <1>7, <1>8

-----------------------------------------------------------------------------
(* What the operations leave.                                              *)

\* A new buffer holds nothing.
LEMMA NewHolds ==
    ASSUME NEW V, NEW cap \in Nat \ {0}, 2 * cap <= SizeMod
    PROVE  RingHolds(NewRing(cap), <<>>, V)
<1> DEFINE c == PowOfTwo(cap)
           r == NewRing(cap)
<1>0. c \in PowersOfTwo /\ c < SizeMod
  BY PowOfTwoIs
<1> HIDE DEF c
<1>1. c \in PowersOfTwo /\ c < SizeMod /\ c \in Nat \ {0}
  BY <1>0, SizeModAssumption DEF PowersOfTwo
<1>2. /\ r.capacity = c /\ r.size = 0 /\ r.begin = 0 /\ r.end = 0
      /\ r.vector = [i \in 0 .. c - 1 |-> Raw]
      /\ r = [vector |-> r.vector, capacity |-> c, size |-> 0, begin |-> 0, end |-> 0]
  BY DEF NewRing, RawBlock, c
<1> HIDE DEF r
<1>3. r.vector \in [0 .. c - 1 -> V \cup {Raw}]
  BY <1>2
<1>4. r \in RingRecords(V)
  BY <1>1, <1>2, <1>3 DEF RingRecords
<1>5. <<>> \in Seq(V) /\ Len(<<>>) = 0
  OBVIOUS
<1>6. (0 + 0) % SizeMod = 0
  BY SizeModAssumption
<1>7. RingShape(r, <<>>, V)
  BY <1>1, <1>2, <1>3, <1>4, <1>5, <1>6, SizeModAssumption DEF RingShape
<1>8. SlotsHold(r, <<>>) /\ OthersRaw(r, <<>>)
  BY <1>2, <1>5 DEF SlotsHold, OthersRaw
<1> QED
  BY <1>7, <1>8 DEF RingHolds, r

\* Growing moves the elements to the slots they have in the larger vector.
LEMMA GrowHolds ==
    ASSUME NEW V, NEW r, NEW q, RingHolds(r, q, V), 2 * r.capacity < SizeMod
    PROVE  RingHolds(Grow(r, r.capacity * 2), q, V)
<1>0. RingShape(r, q, V) /\ SlotsHold(r, q) /\ OthersRaw(r, q)
  BY DEF RingHolds
<1> DEFINE c == r.capacity
           n == Len(q)
           g == Grow(r, c * 2)
<1>1. /\ c \in Nat \ {0} /\ r.begin \in Nat /\ n \in Nat
      /\ SizeMod \in Nat \ {0} /\ r.begin < SizeMod
      /\ q \in Seq(V) /\ r.size = n /\ n <= c
      /\ c \in PowersOfTwo /\ c < SizeMod /\ r \in RingRecords(V)
  <2>1. /\ r.begin < SizeMod /\ q \in Seq(V) /\ r.size = n /\ n <= c
        /\ c \in PowersOfTwo /\ c < SizeMod /\ r \in RingRecords(V)
    BY <1>0 DEF RingShape
  <2> QED
    BY <1>0, <2>1, ShapeNumbers
<1> DEFINE vec == [i \in 0 .. c * 2 - 1 |->
                    IF i < n THEN Get(r, (r.begin + i) % SizeMod) ELSE Raw]
<1>2. g = [r EXCEPT !.vector = vec, !.begin = 0, !.end = n, !.capacity = c * 2]
  BY <1>1 DEF Grow
<1> HIDE DEF g, vec
<1>3. /\ g.vector = vec /\ g.begin = 0 /\ g.end = n /\ g.capacity = c * 2 /\ g.size = n
      /\ g = [vector |-> vec, capacity |-> c * 2, size |-> n, begin |-> 0, end |-> n]
  BY <1>1, <1>2 DEF RingRecords
<1> HIDE DEF c, n
<1>4. ASSUME NEW i \in 0 .. c * 2 - 1, i < n
      PROVE  vec[i] = q[i + 1] /\ q[i + 1] \in V
  <2>1. i + 1 \in 1 .. Len(q) /\ i + 1 \in Nat /\ i + 1 >= 1 /\ r.begin + (i + 1) - 1 = r.begin + i
    BY <1>1, <1>4 DEF n
  <2>2. GetIndex(r, (r.begin + (i + 1) - 1) % SizeMod) = (r.begin + (i + 1) - 1) % r.capacity
    BY <1>0, <2>1, SlotOfElement
  <2>3. r.vector[(r.begin + (i + 1) - 1) % r.capacity] = q[i + 1]
    BY <1>0, <2>1 DEF SlotsHold
  <2>4. Get(r, (r.begin + i) % SizeMod) = q[i + 1]
    BY <2>1, <2>2, <2>3 DEF Get
  <2>5. q[i + 1] \in V
    BY <1>1, <2>1
  <2> QED
    BY <1>4, <2>4, <2>5 DEF vec
<1>5. ASSUME NEW i \in 0 .. c * 2 - 1, ~ (i < n)
      PROVE  vec[i] = Raw
  BY <1>5 DEF vec
<1>6. vec \in [0 .. c * 2 - 1 -> V \cup {Raw}]
  <2>1. vec = [i \in 0 .. c * 2 - 1 |-> vec[i]]
    BY DEF vec
  <2>2. \A i \in 0 .. c * 2 - 1 : vec[i] \in V \cup {Raw}
    BY <1>4, <1>5
  <2> QED
    BY <2>1, <2>2
<1>7. c * 2 \in Nat \ {0} /\ c * 2 \in PowersOfTwo /\ c * 2 < SizeMod /\ n < SizeMod /\ n <= c * 2
  BY <1>1, PowerDoubles DEF c
<1>8. (0 + n) % SizeMod = n
  BY <1>1, <1>7, NoTurn
<1>9. g \in RingRecords(V)
  <2>1. vec \in UNION {[0 .. k - 1 -> V \cup {Raw}] : k \in Nat}
    BY <1>6, <1>7
  <2> QED
    BY <1>1, <1>3, <1>7, <2>1 DEF RingRecords
<1>10. RingShape(g, q, V)
  <2>1. 0 < SizeMod
    BY <1>1
  <2> QED
    BY <1>1, <1>3, <1>6, <1>7, <1>8, <1>9, <2>1 DEF RingShape, n
<1>11. SlotsHold(g, q)
  <2> SUFFICES ASSUME NEW i \in 1 .. Len(q)
               PROVE  g.vector[(g.begin + i - 1) % g.capacity] = q[i]
    BY DEF SlotsHold
  <2>1. i - 1 \in Nat /\ i - 1 < n /\ i - 1 < c * 2 /\ 0 + i - 1 = i - 1 /\ i \in Nat
    BY <1>1, <1>7 DEF n
  <2>2. (0 + i - 1) % (c * 2) = i - 1
    BY <1>7, <2>1, NoTurn
  <2>3. i - 1 \in 0 .. c * 2 - 1 /\ (i - 1) + 1 = i
    BY <1>7, <2>1
  <2>4. vec[i - 1] = q[(i - 1) + 1]
    BY <1>4, <2>1, <2>3
  <2> QED
    BY <1>3, <2>2, <2>3, <2>4
<1>12. OthersRaw(g, q)
  <2> SUFFICES ASSUME NEW j \in 0 .. c * 2 - 1, vec[j] # Raw
               PROVE  \E i \in 1 .. n : j = (0 + i - 1) % (c * 2)
    BY <1>3 DEF OthersRaw, n
  <2>1. j < n
    BY <1>5
  <2>2. j + 1 \in 1 .. n /\ 0 + (j + 1) - 1 = j /\ j \in Nat /\ j < c * 2
    BY <1>1, <1>7, <2>1
  <2>3. j % (c * 2) = j
    BY <1>7, <2>2, NoTurn
  <2> QED
    BY <2>2, <2>3
<1> QED
  BY <1>10, <1>11, <1>12 DEF RingHolds, g, c

\* PushBack once there is a free slot.
InFreeSlot(r, x) == [SetSlot(r, r.end, x) EXCEPT !.end = Succ(@), !.size = @ + 1]

\* An element put in the slot at end is the last one.
LEMMA FreeSlotHolds ==
    ASSUME NEW V, NEW r, NEW q, RingHolds(r, q, V), Len(q) < r.capacity, NEW x \in V
    PROVE  RingHolds(InFreeSlot(r, x), Append(q, x), V)
<1>0. RingShape(r, q, V) /\ SlotsHold(r, q) /\ OthersRaw(r, q)
  BY DEF RingHolds
<1> DEFINE c == r.capacity
           n == Len(q)
           b == r.begin
           e == (b + n) % c
           s == InFreeSlot(r, x)
           t == Append(q, x)
<1>1. /\ c \in Nat \ {0} /\ b \in Nat /\ n \in Nat
      /\ SizeMod \in Nat \ {0} /\ b < SizeMod
      /\ q \in Seq(V) /\ r.size = n /\ n < c
      /\ c \in PowersOfTwo /\ c < SizeMod /\ r \in RingRecords(V)
      /\ r.vector \in [0 .. c - 1 -> V \cup {Raw}]
      /\ r.end = (b + n) % SizeMod
  <2>1. /\ b < SizeMod /\ q \in Seq(V) /\ r.size = n
        /\ c \in PowersOfTwo /\ c < SizeMod /\ r \in RingRecords(V)
        /\ r.vector \in [0 .. c - 1 -> V \cup {Raw}]
        /\ r.end = (b + n) % SizeMod
    BY <1>0 DEF RingShape
  <2> QED
    BY <1>0, <2>1, ShapeNumbers
<1>2. GetIndex(r, r.end) = e /\ e \in 0 .. c - 1
  <2>1. b + n \in Nat
    BY <1>1
  <2> QED
    BY <1>1, <2>1, SameSlot DEF GetIndex
<1>3. Succ(r.end) = (b + (n + 1)) % SizeMod
  <2> HIDE DEF b, n, c, e, s, t
  <2>1. b + n \in Nat /\ b + (n + 1) = (b + n) + 1
    BY <1>1
  <2> QED
    BY <1>1, <2>1, NextTurn DEF Succ
<1> DEFINE vec == [r.vector EXCEPT ![e] = x]
<1> HIDE DEF e
<1>4. s = [vector |-> vec, capacity |-> c, size |-> n + 1, begin |-> b,
           end |-> (b + (n + 1)) % SizeMod]
  <2> DEFINE u == SetSlot(r, r.end, x)
  <2>1. u = [vector |-> vec, capacity |-> c, size |-> n, begin |-> b, end |-> r.end]
    <3> HIDE DEF s
    <3> QED
      BY <1>1, <1>2, SetSlotIs
  <2> HIDE DEF u
  <2>2. s = [u EXCEPT !.end = Succ(u.end), !.size = u.size + 1]
    BY DEF u, InFreeSlot
  <2> HIDE DEF s, vec
  <2>3. u.end = r.end /\ u.size = n
    BY <2>1
  <2> QED
    BY <1>3, <2>1, <2>2, <2>3
<1>5. t \in Seq(V) /\ Len(t) = n + 1 /\ (\A i \in 1 .. n : t[i] = q[i]) /\ t[n + 1] = x
  BY <1>1
<1> HIDE DEF s, t, vec, c, n, b
<1>6. vec \in [0 .. c - 1 -> V \cup {Raw}]
  BY <1>1, <1>2 DEF vec
<1>7. (b + (n + 1)) % SizeMod \in Nat
  <2>1. b + (n + 1) \in Nat
    BY <1>1
  <2>2. (b + (n + 1)) % SizeMod \in 0 .. SizeMod - 1
    BY <1>1, <2>1, SameSlot
  <2> QED
    BY <2>2, SizeModAssumption
<1>8. s \in RingRecords(V)
  <2>1. n + 1 \in Nat
    BY <1>1
  <2>2. vec \in UNION {[0 .. k - 1 -> V \cup {Raw}] : k \in Nat}
    BY <1>1, <1>6
  <2> QED
    BY <1>1, <1>4, <1>7, <2>1, <2>2 DEF RingRecords
<1>9. RingShape(s, t, V)
  <2>1. n + 1 <= c
    BY <1>1
  <2> QED
    BY <1>1, <1>4, <1>5, <1>6, <1>8, <2>1 DEF RingShape
<1>10. \A i \in 1 .. n : (b + i - 1) % c # e
  <2> TAKE i \in 1 .. n
  <2>1. b + i - 1 \in Nat /\ b + n \in Nat /\ b + i - 1 < b + n /\ b + n < (b + i - 1) + c
    BY <1>1
  <2> QED
    BY <1>1, <2>1, SlotsApart DEF e, b, n, c
<1>11. b + (n + 1) - 1 = b + n
  BY <1>1
<1>12. SlotsHold(s, t)
  <2> SUFFICES ASSUME NEW i \in 1 .. n + 1
               PROVE  vec[(b + i - 1) % c] = t[i]
    BY <1>4, <1>5 DEF SlotsHold
  <2>1. CASE i = n + 1
    BY <1>1, <1>2, <1>5, <1>11, <2>1 DEF vec, e, b, n, c
  <2>2. CASE i # n + 1
    <3>1. i \in 1 .. n
      BY <1>1, <2>2
    <3>2. r.vector[(b + i - 1) % c] = q[i]
      BY <1>0, <3>1 DEF SlotsHold, b, c, n
    <3>3. (b + i - 1) % c \in 0 .. c - 1
      <4>1. b + i - 1 \in Nat
        BY <1>1
      <4> QED
        BY <1>1, <4>1, SameSlot
    <3>4. vec[(b + i - 1) % c] = r.vector[(b + i - 1) % c]
      BY <1>1, <1>10, <3>1, <3>3 DEF vec
    <3> QED
      BY <1>5, <3>1, <3>2, <3>4
  <2> QED
    BY <2>1, <2>2
<1>13. OthersRaw(s, t)
  <2> SUFFICES ASSUME NEW j \in 0 .. c - 1, vec[j] # Raw
               PROVE  \E i \in 1 .. n + 1 : j = (b + i - 1) % c
    BY <1>4, <1>5 DEF OthersRaw
  <2>1. CASE j = e
    <3>1. n + 1 \in 1 .. n + 1
      BY <1>1
    <3> QED
      BY <1>11, <2>1, <3>1 DEF e, b, n, c
  <2>2. CASE j # e
    <3>1. r.vector[j] # Raw
      BY <1>1, <2>2 DEF vec
    <3>2. PICK i \in 1 .. n : j = (b + i - 1) % c
      BY <1>0, <3>1 DEF OthersRaw, b, n, c
    <3>3. i \in 1 .. n + 1
      BY <1>1
    <3> QED
      BY <3>2, <3>3
  <2> QED
    BY <2>1, <2>2
<1> QED
  BY <1>9, <1>12, <1>13 DEF RingHolds, s, t

\* PushBack appends, whether the vector grows or not.
LEMMA PushHolds ==
    ASSUME NEW V, NEW r, NEW q, RingHolds(r, q, V), NEW x \in V,
           2 * (Len(q) + 1) <= SizeMod
    PROVE  RingHolds(PushBack(r, x), Append(q, x), V)
<1>1. RingShape(r, q, V)
  BY DEF RingHolds
<1>2. /\ r.capacity \in Nat \ {0} /\ Len(q) \in Nat /\ SizeMod \in Nat \ {0}
      /\ r.size = Len(q) /\ Len(q) <= r.capacity
  <2>1. r.size = Len(q) /\ Len(q) <= r.capacity
    BY <1>1 DEF RingShape
  <2> QED
    BY <1>1, <2>1, ShapeNumbers
<1>3. CASE r.size = r.capacity
  <2> DEFINE g == Grow(r, r.capacity * 2)
  <2>1. RingHolds(g, q, V)
    <3>1. 2 * r.capacity < SizeMod
      BY <1>2, <1>3
    <3> QED
      BY <3>1, GrowHolds
  <2>2. g.capacity = r.capacity * 2
    BY <1>1 DEF Grow, RingShape, RingRecords
  <2>3. PushBack(r, x) = InFreeSlot(g, x)
    BY <1>3 DEF PushBack, InFreeSlot
  <2> HIDE DEF g
  <2>4. Len(q) < g.capacity
    BY <1>2, <1>3, <2>2
  <2> QED
    BY <2>1, <2>3, <2>4, FreeSlotHolds
<1>4. CASE r.size # r.capacity
  <2>1. PushBack(r, x) = InFreeSlot(r, x)
    BY <1>4 DEF PushBack, InFreeSlot
  <2>2. Len(q) < r.capacity
    BY <1>2, <1>4
  <2> QED
    BY <2>1, <2>2, FreeSlotHolds
<1> QED
  BY <1>3, <1>4

\* PopFront drops the first element.
LEMMA PopHolds ==
    ASSUME NEW V, NEW r, NEW q, RingHolds(r, q, V), q # <<>>, Raw \notin V
    PROVE  RingHolds(PopFront(r), Tail(q), V)
<1>0. RingShape(r, q, V) /\ SlotsHold(r, q) /\ OthersRaw(r, q)
  BY DEF RingHolds
<1> DEFINE c == r.capacity
           n == Len(q)
           b == r.begin
           d == (b + 1) % SizeMod
           e == b % c
           s == PopFront(r)
           t == Tail(q)
<1>1. /\ c \in Nat \ {0} /\ b \in Nat /\ n \in Nat /\ n >= 1
      /\ SizeMod \in Nat \ {0} /\ b < SizeMod
      /\ q \in Seq(V) /\ r.size = n /\ n <= c
      /\ c \in PowersOfTwo /\ c < SizeMod /\ r \in RingRecords(V)
      /\ r.vector \in [0 .. c - 1 -> V \cup {Raw}]
      /\ r.end = (b + n) % SizeMod /\ r.end \in Nat
  <2>1. /\ b < SizeMod /\ q \in Seq(V) /\ r.size = n /\ n <= c
        /\ c \in PowersOfTwo /\ c < SizeMod /\ r \in RingRecords(V)
        /\ r.vector \in [0 .. c - 1 -> V \cup {Raw}]
        /\ r.end = (b + n) % SizeMod
    BY <1>0 DEF RingShape
  <2>2. r.end \in Nat
    BY <2>1 DEF RingRecords
  <2>3. n >= 1
    BY <2>1, EmptySeq
  <2> QED
    BY <1>0, <2>1, <2>2, <2>3, ShapeNumbers
<1>2. GetIndex(r, b) = e
  BY DEF GetIndex
<1> DEFINE vec == [r.vector EXCEPT ![e] = Raw]
<1>3. s = [vector |-> vec, capacity |-> c, size |-> n - 1, begin |-> d, end |-> r.end]
  <2> DEFINE u == SetSlot(r, b, Raw)
  <2>1. u = [vector |-> vec, capacity |-> c, size |-> n, begin |-> b, end |-> r.end]
    <3> HIDE DEF s
    <3> QED
      BY <1>1, <1>2, SetSlotIs
  <2> HIDE DEF u
  <2>2. s = [u EXCEPT !.begin = Succ(u.begin), !.size = u.size - 1]
    BY DEF u, PopFront
  <2> HIDE DEF s, vec
  <2>3. u.begin = b /\ u.size = n
    BY <2>1
  <2> QED
    BY <2>1, <2>2, <2>3 DEF Succ
<1>4. t \in Seq(V) /\ Len(t) = n - 1 /\ (\A i \in 1 .. n - 1 : t[i] = q[i + 1])
  BY <1>1
<1> HIDE DEF s, t, vec, c, n, b, d, e
<1>5. e \in 0 .. c - 1
  BY <1>1, SameSlot DEF e
<1>6. vec \in [0 .. c - 1 -> V \cup {Raw}]
  BY <1>1, <1>5 DEF vec
<1>7. d \in 0 .. SizeMod - 1
  <2>1. b + 1 \in Nat
    BY <1>1
  <2> QED
    BY <1>1, <2>1, SameSlot DEF d
<1>8. s \in RingRecords(V)
  <2>1. n - 1 \in Nat /\ d \in Nat
    BY <1>1, <1>7
  <2>2. vec \in UNION {[0 .. k - 1 -> V \cup {Raw}] : k \in Nat}
    BY <1>1, <1>6
  <2> QED
    BY <1>1, <1>3, <2>1, <2>2 DEF RingRecords
\* The position of element i is that of element i + 1 before.
<1>9. ASSUME NEW i \in Nat
      PROVE  (d + i) % c = (b + (i + 1)) % c
  <2>1. CASE b + 1 < SizeMod
    <3>0. b + 1 \in Nat
      BY <1>1
    <3>1. d = b + 1
      BY <1>1, <2>1, <3>0, NoTurn DEF d
    <3> QED
      BY <1>1, <3>1
  <2>2. CASE ~ (b + 1 < SizeMod)
    <3>1. b + 1 = 1 * SizeMod + 0
      <4>1. b \in Nat /\ SizeMod \in Nat /\ b < SizeMod
        BY <1>1
      <4> QED
        BY <2>2, <4>1
    <3>2. d = 0
      BY <1>1, <3>1, Remainder DEF d
    <3>3. PICK k \in Nat \ {0} : SizeMod = c * k
      <4>1. SizeMod \in PowersOfTwo /\ c <= SizeMod
        BY <1>1, RingAssumption
      <4> QED
        BY <1>1, <4>1, PowersDivide
    <3> DEFINE a == i \div c
               w == i % c
    <3>4. i = a * c + w /\ a \in Nat /\ w \in 0 .. c - 1
      BY <1>1, DivMod
    <3> HIDE DEF a, w
    <3>5. b + (i + 1) = (k + a) * c + w
      <4>1. b \in Nat /\ c \in Nat /\ SizeMod \in Nat /\ b + 1 = SizeMod
        BY <1>1, <3>1
      <4>2. \A x, y, z \in Nat : (x + y) * z = z * x + y * z
        OBVIOUS
      <4>3. (k + a) * c = SizeMod + a * c
        BY <3>3, <3>4, <4>1, <4>2
      <4>4. a * c \in Nat /\ w \in Nat
        BY <3>4, <4>1
      <4> QED
        BY <3>4, <4>1, <4>3, <4>4
    <3>6. ((k + a) * c + w) % c = w
      BY <1>1, <3>3, <3>4, Remainder
    <3>7. d + i = i
      BY <3>2
    <3> QED
      BY <3>5, <3>6, <3>7 DEF w
  <2> QED
    BY <2>1, <2>2
<1>10. r.end = (d + (n - 1)) % SizeMod
  <2>1. CASE b + 1 < SizeMod
    <3>0. b + 1 \in Nat
      BY <1>1
    <3>1. d = b + 1
      BY <1>1, <2>1, <3>0, NoTurn DEF d
    <3> QED
      BY <1>1, <3>1
  <2>2. CASE ~ (b + 1 < SizeMod)
    <3>1. b + 1 = 1 * SizeMod + 0
      <4>1. b \in Nat /\ SizeMod \in Nat /\ b < SizeMod
        BY <1>1
      <4> QED
        BY <2>2, <4>1
    <3>2. d = 0
      BY <1>1, <3>1, Remainder DEF d
    <3>3. b + n = 1 * SizeMod + (n - 1) /\ n - 1 \in Nat /\ n - 1 < SizeMod
      BY <1>1, <3>1
    <3>4. (1 * SizeMod + (n - 1)) % SizeMod = n - 1 /\ (n - 1) % SizeMod = n - 1
      <4> DEFINE m == n - 1
      <4>1. m \in Nat /\ m < SizeMod
        BY <3>3
      <4> HIDE DEF m
      <4>2. (1 * SizeMod + m) % SizeMod = m
        BY <4>1, Remainder, SizeModAssumption
      <4>3. m % SizeMod = m
        BY <4>1, NoTurn, SizeModAssumption
      <4> QED
        BY <4>2, <4>3 DEF m
    <3>5. d + (n - 1) = n - 1
      BY <1>1, <3>2
    <3> QED
      BY <1>1, <3>3, <3>4, <3>5
  <2> QED
    BY <2>1, <2>2
<1>11. RingShape(s, t, V)
  <2>1. n - 1 <= c /\ d < SizeMod
    BY <1>1, <1>7
  <2> QED
    BY <1>1, <1>3, <1>4, <1>6, <1>8, <1>10, <2>1 DEF RingShape
<1>12. \A i \in 2 .. n : (b + i - 1) % c # e
  <2> TAKE i \in 2 .. n
  <2>1. b + i - 1 \in Nat /\ b < b + i - 1 /\ b + i - 1 < b + c
    BY <1>1
  <2> QED
    BY <1>1, <2>1, SlotsApart DEF e
<1>13. ASSUME NEW i \in 1 .. n - 1
       PROVE  /\ (d + i - 1) % c = (b + (i + 1) - 1) % c
              /\ i + 1 \in 2 .. n
  <2>1. i - 1 \in Nat /\ d + i - 1 = d + (i - 1) /\ b + (i + 1) - 1 = b + ((i - 1) + 1)
        /\ i + 1 \in 2 .. n
    BY <1>1, <1>7
  <2>2. (d + (i - 1)) % c = (b + ((i - 1) + 1)) % c
    BY <1>9, <2>1
  <2> QED
    BY <2>1, <2>2
<1>14. SlotsHold(s, t)
  <2> SUFFICES ASSUME NEW i \in 1 .. n - 1
               PROVE  vec[(d + i - 1) % c] = t[i]
    BY <1>3, <1>4 DEF SlotsHold
  <2>1. i + 1 \in 1 .. n /\ i + 1 \in 2 .. n
    BY <1>1
  <2>2. r.vector[(b + (i + 1) - 1) % c] = q[i + 1]
    BY <1>0, <2>1 DEF SlotsHold, b, c, n
  <2>3. (b + (i + 1) - 1) % c \in 0 .. c - 1
    <3>1. b + (i + 1) - 1 \in Nat
      BY <1>1
    <3> QED
      BY <1>1, <3>1, SameSlot
  <2>4. (b + (i + 1) - 1) % c # e
    BY <1>12, <2>1
  <2>5. vec[(b + (i + 1) - 1) % c] = r.vector[(b + (i + 1) - 1) % c]
    BY <1>1, <2>3, <2>4 DEF vec
  <2> QED
    BY <1>4, <1>13, <2>2, <2>5
<1>15. OthersRaw(s, t)
  <2> SUFFICES ASSUME NEW j \in 0 .. c - 1, vec[j] # Raw
               PROVE  \E i \in 1 .. n - 1 : j = (d + i - 1) % c
    BY <1>3, <1>4 DEF OthersRaw
  <2>1. j # e
    BY <1>1, <1>5 DEF vec
  <2>2. r.vector[j] # Raw
    BY <1>1, <2>1 DEF vec
  <2>3. PICK i \in 1 .. n : j = (b + i - 1) % c
    BY <1>0, <2>2 DEF OthersRaw, b, n, c
  <2>4. i # 1
    <3>1. i = 1 => b + i - 1 = b
      BY <1>1
    <3> QED
      BY <2>1, <2>3, <3>1 DEF e
  <2>5. i - 1 \in 1 .. n - 1 /\ (i - 1) + 1 = i
    BY <1>1, <2>4
  <2> QED
    BY <1>13, <2>3, <2>5
<1> QED
  BY <1>11, <1>14, <1>15 DEF RingHolds, s, t

\* Clear destroys every element.
LEMMA ClearHolds ==
    ASSUME NEW V, NEW r, NEW q, RingHolds(r, q, V)
    PROVE  RingHolds(Clear(r), <<>>, V)
<1>0. RingShape(r, q, V) /\ OthersRaw(r, q)
  BY DEF RingHolds
<1> DEFINE c == r.capacity
           n == Len(q)
           dead == {GetIndex(r, (r.begin + i) % SizeMod) : i \in 0 .. r.size - 1}
           vec == [i \in DOMAIN r.vector |-> IF i \in dead THEN Raw ELSE r.vector[i]]
           s == Clear(r)
<1>1. /\ c \in Nat \ {0} /\ r.begin \in Nat /\ n \in Nat
      /\ SizeMod \in Nat \ {0} /\ r.size = n
      /\ c \in PowersOfTwo /\ c < SizeMod /\ r \in RingRecords(V)
      /\ r.vector \in [0 .. c - 1 -> V \cup {Raw}]
  <2>1. /\ r.size = n /\ c \in PowersOfTwo /\ c < SizeMod /\ r \in RingRecords(V)
        /\ r.vector \in [0 .. c - 1 -> V \cup {Raw}]
    BY <1>0 DEF RingShape
  <2> QED
    BY <1>0, <2>1, ShapeNumbers
<1>2. s = [vector |-> vec, capacity |-> c, size |-> 0, begin |-> 0, end |-> 0]
  <2>1. s = [r EXCEPT !.vector = vec, !.size = 0, !.begin = 0, !.end = 0]
    BY DEF Clear
  <2> HIDE DEF vec, s
  <2> QED
    BY <1>1, <2>1 DEF RingRecords
<1>3. ASSUME NEW j \in 0 .. c - 1 PROVE vec[j] = Raw
  <2>1. CASE r.vector[j] = Raw
    BY <1>1, <2>1
  <2>2. CASE r.vector[j] # Raw
    <3>1. PICK i \in 1 .. n : j = (r.begin + i - 1) % c
      BY <1>0, <2>2 DEF OthersRaw
    <3>2. GetIndex(r, (r.begin + i - 1) % SizeMod) = j
      BY <1>0, <1>1, <3>1, SlotOfElement
    <3>3. i - 1 \in 0 .. r.size - 1 /\ r.begin + (i - 1) = r.begin + i - 1
      BY <1>1
    <3>4. j \in dead
      BY <3>2, <3>3
    <3> QED
      BY <1>1, <3>4
  <2> QED
    BY <2>1, <2>2
<1>4. vec = [j \in 0 .. c - 1 |-> Raw]
  <2>1. vec = [j \in 0 .. c - 1 |-> vec[j]]
    BY <1>1
  <2> HIDE DEF vec
  <2> QED
    BY <1>3, <2>1
<1> HIDE DEF s, vec, dead, c, n
<1>5. vec \in [0 .. c - 1 -> V \cup {Raw}]
  BY <1>4
<1>6. s \in RingRecords(V)
  <2>1. vec \in UNION {[0 .. k - 1 -> V \cup {Raw}] : k \in Nat}
    BY <1>1, <1>5
  <2> QED
    BY <1>1, <1>2, <2>1 DEF RingRecords
<1>7. <<>> \in Seq(V) /\ Len(<<>>) = 0 /\ 0 < SizeMod /\ 0 <= c /\ (0 + 0) % SizeMod = 0
  BY <1>1
<1>8. RingShape(s, <<>>, V)
  BY <1>1, <1>2, <1>5, <1>6, <1>7 DEF RingShape
<1>9. SlotsHold(s, <<>>) /\ OthersRaw(s, <<>>)
  BY <1>2, <1>3, <1>7 DEF SlotsHold, OthersRaw
<1> QED
  BY <1>8, <1>9 DEF RingHolds, s

-----------------------------------------------------------------------------

\* The ring holds what was pushed and not popped, and no more than the bound.
RingInv == RingHolds(ring, ringSeq, RingValues) /\ Len(ringSeq) <= MaxRing

\* The iterators find what the ring holds.
LEMMA RingInvImplies == RingInv => RingIsSequence
  BY HeldIsFound, RingAssumption DEF RingInv, RingIsSequence

\* Every operation of the ring keeps it.
LEMMA RingStep == RingInv /\ [RingNext]_ringVars => RingInv'
<1> SUFFICES ASSUME RingInv, [RingNext]_ringVars PROVE RingInv'
  OBVIOUS
<1>0. /\ RingHolds(ring, ringSeq, RingValues) /\ Len(ringSeq) <= MaxRing
      /\ ringSeq \in Seq(RingValues) /\ Len(ringSeq) \in Nat
  BY DEF RingInv, RingHolds, RingShape
<1>1. SUFFICES RingHolds(ring', ringSeq', RingValues) /\ Len(ringSeq') <= MaxRing
  BY DEF RingInv, RingHolds, RingShape, SlotsHold, OthersRaw, RingRecords
<1>2. ASSUME NEW x \in RingValues, RingPush(x)
      PROVE  RingHolds(ring', ringSeq', RingValues) /\ Len(ringSeq') <= MaxRing
  <2>1. Len(ringSeq) < MaxRing /\ ring' = PushBack(ring, x) /\ ringSeq' = Append(ringSeq, x)
    BY <1>2 DEF RingPush
  <2>2. 2 * (Len(ringSeq) + 1) <= SizeMod
    BY <1>0, <2>1, RingAssumption, SizeModAssumption
  <2>3. RingHolds(PushBack(ring, x), Append(ringSeq, x), RingValues)
    BY <1>0, <2>2, PushHolds
  <2>4. Len(Append(ringSeq, x)) <= MaxRing
    BY <1>0, <2>1, RingAssumption
  <2> QED
    BY <2>1, <2>3, <2>4
<1>3. CASE RingPop
  <2>1. ringSeq # <<>> /\ ring' = PopFront(ring) /\ ringSeq' = Tail(ringSeq)
    BY <1>3 DEF RingPop
  <2>2. RingHolds(PopFront(ring), Tail(ringSeq), RingValues)
    BY <1>0, <2>1, PopHolds, RingAssumption
  <2>3. Len(Tail(ringSeq)) <= MaxRing
    BY <1>0, <2>1, RingAssumption
  <2> QED
    BY <2>1, <2>2, <2>3
<1>4. CASE RingClear
  <2>1. ring' = Clear(ring) /\ ringSeq' = <<>>
    BY <1>4 DEF RingClear
  <2>2. RingHolds(Clear(ring), <<>>, RingValues)
    BY <1>0, ClearHolds
  <2>3. Len(<<>>) <= MaxRing
    BY RingAssumption
  <2> QED
    BY <2>1, <2>2, <2>3
<1>5. CASE UNCHANGED ringVars
  BY <1>0, <1>5 DEF ringVars
<1> QED
  BY <1>2, <1>3, <1>4, <1>5 DEF RingNext

\* CircularBuffer is a sequence: its iterators, Front, Back and Size agree with
\* what PushBack, PopFront and Clear were called with, for every word size, every
\* first capacity and every position the counters have wrapped to.
THEOREM RingStaysSequence == RingSpec => []RingIsSequence
<1>1. RingInit => RingInv
  <2> SUFFICES ASSUME RingInit PROVE RingInv
    OBVIOUS
  <2>1. PICK cap \in RingCaps : ring = NewRing(cap)
    BY DEF RingInit
  <2>2. cap \in Nat \ {0} /\ 2 * cap <= SizeMod
    BY RingAssumption
  <2>3. RingHolds(NewRing(cap), <<>>, RingValues)
    BY <2>2, NewHolds
  <2>4. Len(<<>>) <= MaxRing
    BY RingAssumption
  <2> QED
    BY <2>1, <2>3, <2>4 DEF RingInit, RingInv
<1> QED
  BY <1>1, RingStep, RingInvImplies, PTL DEF RingSpec

-----------------------------------------------------------------------------
(* The queue of blocks.                                                    *)

\* What an iterator of the queue may be.
Iterators == [block : Blocks, pos : 0 .. PerBlock]

\* The slots before a block's first, counted from the first block's first.
Row(n) == (n - 1) * PerBlock

\* The slots in use of the n-th block: from the first iterator in the first block,
\* up to the last iterator in the last one.
FirstSlot(qb, n) == IF n = 1 THEN qb.pos ELSE 0
LastSlot(qe, bl, n) == IF n = Len(bl) THEN qe.pos ELSE PerBlock
InUse(qb, qe, bl, n, i) == FirstSlot(qb, n) <= i /\ i < LastSlot(qe, bl, n)

\* The iterators are in the first and the last block, as far apart as the
\* sequence is long.
QueueShape(cl, qb, qe, sq, bl) ==
    /\ Len(bl) >= 1 /\ bl \in Seq(Blocks)
    /\ cl \in [Blocks -> [0 .. PerBlock - 1 -> QueueValues \cup {Raw}]]
    /\ qb \in Iterators /\ qb.block = bl[1]
    /\ qe \in Iterators /\ qe.block = bl[Len(bl)]
    /\ sq \in Seq(QueueValues) /\ Len(sq) <= MaxQueue
    /\ Row(Len(bl)) + qe.pos = qb.pos + Len(sq)

\* A block is in the map once, or it is free.
BlocksOnce(bl) == \A m, n \in 1 .. Len(bl) : bl[m] = bl[n] => m = n
BlocksFree(bl, fb) == fb = Blocks \ {bl[n] : n \in 1 .. Len(bl)}

\* The slots in use hold the sequence, row by row.
CellsHold(cl, qb, qe, sq, bl) ==
    \A n \in 1 .. Len(bl), i \in 0 .. PerBlock - 1 :
        InUse(qb, qe, bl, n, i) => cl[bl[n]][i] = sq[Row(n) + i - qb.pos + 1]

QueueHolds(cl, qb, qe, fb, sq, bl) ==
    /\ QueueShape(cl, qb, qe, sq, bl)
    /\ BlocksOnce(bl) /\ BlocksFree(bl, fb)
    /\ CellsHold(cl, qb, qe, sq, bl)

\* Rows follow one another.
LEMMA RowFacts ==
    /\ Row(1) = 0
    /\ \A n \in Int : Row(n) \in Int /\ Row(n + 1) = Row(n) + PerBlock
    /\ \A m, n \in Int : m <= n => Row(m) <= Row(n)
    /\ \A m, n \in Int : m < n => Row(m) + PerBlock <= Row(n)
<1>1. Row(1) = 0
  BY PerBlockAssumption DEF Row
<1>2. ASSUME NEW n \in Int PROVE Row(n) \in Int /\ Row(n + 1) = Row(n) + PerBlock
  BY PerBlockAssumption DEF Row
<1>3. ASSUME NEW m \in Int, NEW n \in Int, m <= n PROVE Row(m) <= Row(n)
  <2>1. n - m \in Nat
    BY <1>3
  <2>2. (n - m) * PerBlock >= 0
    BY <2>1, PerBlockAssumption
  <2>3. Row(n) = Row(m) + (n - m) * PerBlock
    BY PerBlockAssumption DEF Row
  <2> QED
    BY <1>2, <2>1, <2>2, <2>3, PerBlockAssumption
<1>4. ASSUME NEW m \in Int, NEW n \in Int, m < n PROVE Row(m) + PerBlock <= Row(n)
  <2>1. m + 1 <= n /\ m + 1 \in Int
    BY <1>4
  <2> QED
    BY <1>2, <1>3, <2>1
<1> QED
  BY <1>1, <1>2, <1>3, <1>4

\* What the positions of a queue are.
LEMMA QueueNumbers ==
    ASSUME NEW cl, NEW qb, NEW qe, NEW sq, NEW bl, QueueShape(cl, qb, qe, sq, bl)
    PROVE  /\ Len(bl) \in Nat \ {0} /\ Len(sq) \in Nat
           /\ qb.pos \in 0 .. PerBlock /\ qe.pos \in 0 .. PerBlock
           /\ Row(Len(bl)) \in Nat
           /\ Row(Len(bl)) + qe.pos = qb.pos + Len(sq)
           /\ PerBlock \in Nat \ {0}
<1>1. Len(bl) \in Nat \ {0} /\ Len(sq) \in Nat
  BY DEF QueueShape
<1>2. /\ qb.pos \in 0 .. PerBlock /\ qe.pos \in 0 .. PerBlock
      /\ Row(Len(bl)) + qe.pos = qb.pos + Len(sq)
  BY DEF QueueShape, Iterators
<1>3. 1 \in Int /\ Len(bl) \in Int /\ 1 <= Len(bl)
  BY <1>1
<1>4. Row(1) <= Row(Len(bl)) /\ Row(1) = 0 /\ Row(Len(bl)) \in Int
  BY <1>3, RowFacts
<1>5. Row(Len(bl)) \in Nat
  BY <1>4
<1> QED
  BY <1>1, <1>2, <1>5, PerBlockAssumption

\* The place in the sequence of a slot in use.
LEMMA PlaceOfSlot ==
    ASSUME NEW cl, NEW qb, NEW qe, NEW sq, NEW bl, QueueShape(cl, qb, qe, sq, bl),
           NEW n \in 1 .. Len(bl), NEW i \in 0 .. PerBlock - 1, InUse(qb, qe, bl, n, i)
    PROVE  Row(n) \in Nat /\ Row(n) + i - qb.pos + 1 \in 1 .. Len(sq)
<1> DEFINE N == Len(bl)
           L == Len(sq)
           P == PerBlock
           b == qb.pos
           e == qe.pos
<1>1. /\ N \in Nat \ {0} /\ L \in Nat /\ b \in 0 .. P /\ e \in 0 .. P
      /\ Row(N) \in Nat /\ Row(N) + e = b + L /\ P \in Nat \ {0}
  BY QueueNumbers
<1>2. n \in Int /\ n >= 1 /\ n <= N /\ i \in 0 .. P - 1
  BY <1>1
<1>3. (n = 1 => b <= i) /\ (n = N => i < e)
  BY DEF InUse, FirstSlot, LastSlot
<1> HIDE DEF N, L, P, b, e
<1>4. Row(1) = 0 /\ Row(n) \in Int /\ Row(1) <= Row(n)
  BY <1>2, RowFacts
<1>5. n > 1 => P <= Row(n)
  <2> SUFFICES ASSUME n > 1 PROVE P <= Row(n)
    OBVIOUS
  <2>1. Row(1) + PerBlock <= Row(n)
    BY <1>2, RowFacts
  <2> QED
    BY <1>1, <1>4, <2>1 DEF P
<1>6. n < N => Row(n) + P <= Row(N)
  BY <1>1, <1>2, RowFacts DEF P
<1>7. Row(n) + i - b + 1 >= 1
  BY <1>1, <1>2, <1>3, <1>4, <1>5
<1>8. Row(n) + i - b + 1 <= L
  <2>1. CASE n = N
    BY <1>1, <1>2, <1>3, <1>4, <2>1
  <2>2. CASE n < N
    BY <1>1, <1>2, <1>4, <1>6, <2>2
  <2> QED
    BY <1>1, <1>2, <2>1, <2>2
<1> QED
  BY <1>1, <1>2, <1>4, <1>7, <1>8 DEF b, L

\* An iterator one further.
LEMMA NextPosition ==
    ASSUME NEW q \in Iterators
    PROVE  [q EXCEPT !.pos = @ + 1] = [block |-> q.block, pos |-> q.pos + 1]
  BY DEF Iterators

\* A push into the last block.
LEMMA PushIntoBlock ==
    ASSUME NEW cl, NEW qb, NEW qe, NEW fb, NEW sq, NEW bl, NEW x \in QueueValues,
           QueueHolds(cl, qb, qe, fb, sq, bl), Len(sq) < MaxQueue, qe.pos < PerBlock
    PROVE  QueueHolds([cl EXCEPT ![qe.block][qe.pos] = x], qb, [block |-> qe.block, pos |-> qe.pos + 1],
                      fb, Append(sq, x), bl)
<1> DEFINE N == Len(bl)
           L == Len(sq)
           P == PerBlock
           b == qb.pos
           e == qe.pos
           ce == [cl EXCEPT ![qe.block][qe.pos] = x]
           qf == [block |-> qe.block, pos |-> qe.pos + 1]
           sx == Append(sq, x)
<1>0. /\ QueueShape(cl, qb, qe, sq, bl) /\ BlocksOnce(bl) /\ BlocksFree(bl, fb)
      /\ CellsHold(cl, qb, qe, sq, bl)
  BY DEF QueueHolds
<1>1. /\ N \in Nat \ {0} /\ L \in Nat /\ b \in 0 .. P /\ e \in 0 .. P
      /\ Row(N) \in Nat /\ Row(N) + e = b + L /\ P \in Nat \ {0}
  BY <1>0, QueueNumbers
<1>2. /\ bl \in Seq(Blocks) /\ cl \in [Blocks -> [0 .. P - 1 -> QueueValues \cup {Raw}]]
      /\ qb \in Iterators /\ qb.block = bl[1] /\ qe \in Iterators /\ qe.block = bl[N]
      /\ sq \in Seq(QueueValues) /\ L < MaxQueue
  BY <1>0 DEF QueueShape
<1>3. qf.block = bl[N] /\ qf.pos = e + 1 /\ qf \in Iterators
  <2>1. e + 1 \in 0 .. P /\ qe.block \in Blocks
    BY <1>1, <1>2 DEF Iterators
  <2> QED
    BY <1>2, <2>1 DEF Iterators
<1>4. sx \in Seq(QueueValues) /\ Len(sx) = L + 1 /\ sx[L + 1] = x /\ \A k \in 1 .. L : sx[k] = sq[k]
  BY <1>2
<1>5. ASSUME NEW c \in Blocks, NEW i \in 0 .. P - 1
      PROVE  ce[c][i] = IF c = bl[N] /\ i = e THEN x ELSE cl[c][i]
  BY <1>2
<1>6. ce \in [Blocks -> [0 .. P - 1 -> QueueValues \cup {Raw}]]
  BY <1>2
<1> HIDE DEF N, L, P, b, e, ce, qf, sx
<1>7. QueueShape(ce, qb, qf, sx, bl)
  <2>1. Len(bl) >= 1 /\ Len(sx) <= MaxQueue /\ Row(N) + (e + 1) = b + (L + 1)
    <3>1. L < MaxQueue /\ Len(sx) = L + 1
      BY <1>2, <1>4
    <3>2. Len(bl) >= 1
      BY <1>1 DEF N
    <3>3. Len(sx) <= MaxQueue
      BY <1>1, <3>1, QueueAssumption
    <3>4. Row(N) + (e + 1) = b + (L + 1)
      BY <1>1
    <3> QED
      BY <3>2, <3>3, <3>4
  <2> QED
    BY <1>2, <1>3, <1>4, <1>6, <2>1 DEF QueueShape, N, P, b
<1>8. ASSUME NEW n \in 1 .. N, NEW i \in 0 .. P - 1
      PROVE  InUse(qb, qf, bl, n, i) <=> InUse(qb, qe, bl, n, i) \/ (n = N /\ i = e)
  <2>1. e \in 0 .. P - 1 /\ N \in Nat
    BY <1>1 DEF e, P
  <2>2. N = 1 => b <= e
    <3>1. N = 1 => Row(N) = 0
      BY RowFacts
    <3> QED
      BY <1>1, <3>1
  <2>3. n # N => (InUse(qb, qf, bl, n, i) <=> InUse(qb, qe, bl, n, i))
    BY DEF InUse, FirstSlot, LastSlot, N
  <2>4. CASE n = N
    <3>1. InUse(qb, qf, bl, n, i) <=> FirstSlot(qb, n) <= i /\ i < e + 1
      BY <1>3, <2>4 DEF InUse, LastSlot, N
    <3>2. InUse(qb, qe, bl, n, i) <=> FirstSlot(qb, n) <= i /\ i < e
      BY <2>4 DEF InUse, LastSlot, N, e
    <3>3. FirstSlot(qb, n) <= e
      BY <2>1, <2>2, <2>4 DEF FirstSlot, b
    <3>4. i < e + 1 <=> i < e \/ i = e
      BY <2>1
    <3> QED
      BY <2>4, <3>1, <3>2, <3>3, <3>4
  <2> QED
    BY <2>3, <2>4
<1>9. ASSUME NEW n \in 1 .. N PROVE bl[n] \in Blocks /\ (bl[n] = bl[N] => n = N)
  <2>1. N \in 1 .. N
    BY <1>1
  <2> QED
    BY <1>0, <1>2, <2>1 DEF BlocksOnce, N
<1>10. CellsHold(ce, qb, qf, sx, bl)
  <2> SUFFICES ASSUME NEW n \in 1 .. N, NEW i \in 0 .. P - 1, InUse(qb, qf, bl, n, i)
               PROVE  ce[bl[n]][i] = sx[Row(n) + i - b + 1]
    BY DEF CellsHold, N, P, b
  <2>1. CASE n = N /\ i = e
    <3>1. Row(n) + i - b + 1 = L + 1
      BY <1>1, <2>1
    <3>2. ce[bl[n]][i] = x
      BY <1>5, <1>9, <2>1
    <3> QED
      BY <1>4, <3>1, <3>2
  <2>2. CASE ~ (n = N /\ i = e)
    <3>1. InUse(qb, qe, bl, n, i)
      BY <1>8, <2>2
    <3>2. cl[bl[n]][i] = sq[Row(n) + i - b + 1]
      BY <1>0, <3>1 DEF CellsHold, N, P, b
    <3>3. Row(n) + i - b + 1 \in 1 .. L
      BY <1>0, <3>1, PlaceOfSlot DEF N, P, b, L
    <3>4. ce[bl[n]][i] = cl[bl[n]][i]
      BY <1>5, <1>9, <2>2
    <3> QED
      BY <1>4, <3>2, <3>3, <3>4
  <2> QED
    BY <2>1, <2>2
<1> QED
  BY <1>0, <1>7, <1>10 DEF QueueHolds, ce, qf, sx

\* A push that begins a new block.
LEMMA PushIntoNext ==
    ASSUME NEW cl, NEW qb, NEW qe, NEW fb, NEW sq, NEW bl, NEW x \in QueueValues, NEW a \in fb,
           QueueHolds(cl, qb, qe, fb, sq, bl), Len(sq) < MaxQueue, qe.pos = PerBlock
    PROVE  QueueHolds([cl EXCEPT ![a][0] = x], qb, [block |-> a, pos |-> 1],
                      fb \ {a}, Append(sq, x), Append(bl, a))
<1> DEFINE N == Len(bl)
           L == Len(sq)
           P == PerBlock
           b == qb.pos
           ce == [cl EXCEPT ![a][0] = x]
           qf == [block |-> a, pos |-> 1]
           sx == Append(sq, x)
           bx == Append(bl, a)
<1>0. /\ QueueShape(cl, qb, qe, sq, bl) /\ BlocksOnce(bl) /\ BlocksFree(bl, fb)
      /\ CellsHold(cl, qb, qe, sq, bl)
  BY DEF QueueHolds
<1>1. /\ N \in Nat \ {0} /\ L \in Nat /\ b \in 0 .. P
      /\ Row(N) \in Nat /\ Row(N) + P = b + L /\ P \in Nat \ {0}
  BY <1>0, QueueNumbers
<1>2. /\ bl \in Seq(Blocks) /\ cl \in [Blocks -> [0 .. P - 1 -> QueueValues \cup {Raw}]]
      /\ qb \in Iterators /\ qb.block = bl[1]
      /\ sq \in Seq(QueueValues) /\ L < MaxQueue
  BY <1>0 DEF QueueShape
<1>3. a \in Blocks /\ \A n \in 1 .. N : bl[n] # a
  BY <1>0 DEF BlocksFree
<1>4. sx \in Seq(QueueValues) /\ Len(sx) = L + 1 /\ sx[L + 1] = x /\ \A k \in 1 .. L : sx[k] = sq[k]
  BY <1>2
<1>5. bx \in Seq(Blocks) /\ Len(bx) = N + 1 /\ bx[N + 1] = a /\ \A k \in 1 .. N : bx[k] = bl[k]
  BY <1>2, <1>3
<1>6. ASSUME NEW c \in Blocks, NEW i \in 0 .. P - 1
      PROVE  ce[c][i] = IF c = a /\ i = 0 THEN x ELSE cl[c][i]
  BY <1>2
<1>7. ce \in [Blocks -> [0 .. P - 1 -> QueueValues \cup {Raw}]]
  BY <1>2
<1>8. qf.block = a /\ qf.pos = 1 /\ qf \in Iterators
  BY <1>1, <1>3 DEF Iterators
<1> HIDE DEF N, L, P, b, ce, qf, sx, bx
<1>9. Row(N + 1) = Row(N) + P
  BY <1>1, RowFacts DEF P
<1>10. QueueShape(ce, qb, qf, sx, bx)
  <2>1. Len(bx) >= 1 /\ Len(sx) <= MaxQueue /\ Row(N + 1) + 1 = b + (L + 1)
    <3>1. L < MaxQueue /\ Len(sx) = L + 1 /\ Len(bx) = N + 1
      BY <1>2, <1>4, <1>5
    <3>2. Len(bx) >= 1
      BY <1>1, <3>1
    <3>3. Len(sx) <= MaxQueue
      BY <1>1, <3>1, QueueAssumption
    <3>4. Row(N + 1) + 1 = b + (L + 1)
      BY <1>1, <1>9
    <3> QED
      BY <3>2, <3>3, <3>4
  <2>2. bx[1] = bl[1]
    BY <1>1, <1>5
  <2> QED
    BY <1>2, <1>4, <1>5, <1>7, <1>8, <2>1, <2>2 DEF QueueShape, P, b
<1>11. BlocksOnce(bx)
  <2> SUFFICES ASSUME NEW m \in 1 .. N + 1, NEW n \in 1 .. N + 1, bx[m] = bx[n] PROVE m = n
    BY <1>5 DEF BlocksOnce
  <2>1. \A k \in 1 .. N + 1 : k = N + 1 \/ k \in 1 .. N
    BY <1>1
  <2> QED
    BY <1>0, <1>3, <1>5, <2>1 DEF BlocksOnce, N
<1>12. BlocksFree(bx, fb \ {a})
  <2>1. 1 .. N + 1 = 1 .. N \cup {N + 1}
    BY <1>1
  <2>2. {bx[n] : n \in 1 .. N + 1} = {bl[n] : n \in 1 .. N} \cup {a}
    BY <1>5, <2>1
  <2> QED
    BY <1>0, <1>5, <2>2 DEF BlocksFree, N
<1>13. ASSUME NEW n \in 1 .. N + 1, NEW i \in 0 .. P - 1
       PROVE  InUse(qb, qf, bx, n, i) <=>
                  (n \in 1 .. N /\ InUse(qb, qe, bl, n, i)) \/ (n = N + 1 /\ i = 0)
  <2>1. CASE n = N + 1
    <3>1. n # 1 /\ ~ (n \in 1 .. N)
      BY <1>1, <2>1
    <3>2. InUse(qb, qf, bx, n, i) <=> 0 <= i /\ i < 1
      BY <1>5, <1>8, <2>1, <3>1 DEF InUse, FirstSlot, LastSlot
    <3>3. 0 <= i /\ i < 1 <=> i = 0
      BY <1>1
    <3> QED
      BY <2>1, <3>1, <3>2, <3>3
  <2>2. CASE n # N + 1
    <3>1. n \in 1 .. N
      BY <1>1, <2>2
    <3>2. InUse(qb, qf, bx, n, i) <=> FirstSlot(qb, n) <= i /\ i < P
      BY <1>5, <2>2 DEF InUse, LastSlot, P
    <3>3. InUse(qb, qe, bl, n, i) <=> FirstSlot(qb, n) <= i /\ i < P
      BY DEF InUse, LastSlot, P
    <3> QED
      BY <2>2, <3>1, <3>2, <3>3
  <2> QED
    BY <2>1, <2>2
<1>14. CellsHold(ce, qb, qf, sx, bx)
  <2> SUFFICES ASSUME NEW n \in 1 .. N + 1, NEW i \in 0 .. P - 1, InUse(qb, qf, bx, n, i)
               PROVE  ce[bx[n]][i] = sx[Row(n) + i - b + 1]
    BY <1>5 DEF CellsHold, P, b
  <2>1. CASE n = N + 1 /\ i = 0
    <3>1. Row(n) + i - b + 1 = L + 1
      BY <1>1, <1>9, <2>1
    <3>2. ce[bx[n]][i] = x
      BY <1>3, <1>5, <1>6, <2>1
    <3> QED
      BY <1>4, <3>1, <3>2
  <2>2. CASE n \in 1 .. N /\ InUse(qb, qe, bl, n, i)
    <3>1. cl[bl[n]][i] = sq[Row(n) + i - b + 1]
      BY <1>0, <2>2 DEF CellsHold, N, P, b
    <3>2. Row(n) + i - b + 1 \in 1 .. L
      BY <1>0, <2>2, PlaceOfSlot DEF N, P, b, L
    <3>3. bl[n] \in Blocks /\ bl[n] # a
      BY <1>2, <1>3, <2>2 DEF N
    <3>4. ce[bx[n]][i] = cl[bl[n]][i]
      BY <1>5, <1>6, <2>2, <3>3
    <3> QED
      BY <1>4, <3>1, <3>2, <3>4
  <2> QED
    BY <1>13, <2>1, <2>2
<1> QED
  BY <1>10, <1>11, <1>12, <1>14 DEF QueueHolds, ce, qf, sx, bx

\* A pop from the first block.
LEMMA PopFromBlock ==
    ASSUME NEW cl, NEW qb, NEW qe, NEW fb, NEW sq, NEW bl,
           QueueHolds(cl, qb, qe, fb, sq, bl), sq # <<>>, qb.pos < PerBlock
    PROVE  QueueHolds([cl EXCEPT ![qb.block][qb.pos] = Raw],
                      [block |-> qb.block, pos |-> qb.pos + 1], qe, fb, Tail(sq), bl)
<1> DEFINE N == Len(bl)
           L == Len(sq)
           P == PerBlock
           b == qb.pos
           e == qe.pos
           ce == [cl EXCEPT ![qb.block][qb.pos] = Raw]
           qc == [block |-> qb.block, pos |-> qb.pos + 1]
           st == Tail(sq)
<1>0. /\ QueueShape(cl, qb, qe, sq, bl) /\ BlocksOnce(bl) /\ BlocksFree(bl, fb)
      /\ CellsHold(cl, qb, qe, sq, bl)
  BY DEF QueueHolds
<1>1. /\ N \in Nat \ {0} /\ L \in Nat /\ b \in 0 .. P - 1 /\ e \in 0 .. P
      /\ Row(N) \in Nat /\ Row(N) + e = b + L /\ P \in Nat \ {0}
  <2>1. b \in 0 .. P
    BY <1>0, QueueNumbers
  <2> QED
    BY <1>0, <2>1, QueueNumbers
<1>2. /\ bl \in Seq(Blocks) /\ cl \in [Blocks -> [0 .. P - 1 -> QueueValues \cup {Raw}]]
      /\ qb \in Iterators /\ qb.block = bl[1] /\ qe \in Iterators /\ qe.block = bl[N]
      /\ sq \in Seq(QueueValues) /\ L <= MaxQueue
  BY <1>0 DEF QueueShape
<1>3. qc.block = bl[1] /\ qc.pos = b + 1 /\ qc \in Iterators
  <2>1. b + 1 \in 0 .. P /\ qb.block \in Blocks
    BY <1>1, <1>2 DEF Iterators
  <2> QED
    BY <1>2, <2>1 DEF Iterators
<1>4. st \in Seq(QueueValues) /\ Len(st) = L - 1 /\ L >= 1 /\ \A k \in 1 .. L - 1 : st[k] = sq[k + 1]
  BY <1>2
<1>5. ASSUME NEW c \in Blocks, NEW i \in 0 .. P - 1
      PROVE  ce[c][i] = IF c = bl[1] /\ i = b THEN Raw ELSE cl[c][i]
  BY <1>2
<1>6. ce \in [Blocks -> [0 .. P - 1 -> QueueValues \cup {Raw}]]
  BY <1>2
<1> HIDE DEF N, L, P, b, e, ce, qc, st
<1>7. QueueShape(ce, qc, qe, st, bl)
  <2>1. Len(bl) >= 1 /\ Len(st) <= MaxQueue /\ Row(N) + e = (b + 1) + (L - 1)
    <3>1. L <= MaxQueue /\ Len(st) = L - 1
      BY <1>2, <1>4
    <3>2. Len(bl) >= 1
      BY <1>1 DEF N
    <3>3. Len(st) <= MaxQueue
      BY <1>1, <3>1, QueueAssumption
    <3>4. Row(N) + e = (b + 1) + (L - 1)
      BY <1>1
    <3> QED
      BY <3>2, <3>3, <3>4
  <2> QED
    BY <1>2, <1>3, <1>4, <1>6, <2>1 DEF QueueShape, N, P, e
<1>8. ASSUME NEW n \in 1 .. N, NEW i \in 0 .. P - 1
      PROVE  InUse(qc, qe, bl, n, i) <=> InUse(qb, qe, bl, n, i) /\ ~ (n = 1 /\ i = b)
  <2>1. CASE n = 1
    <3>1. InUse(qc, qe, bl, n, i) <=> b + 1 <= i /\ i < LastSlot(qe, bl, n)
      BY <1>3, <2>1 DEF InUse, FirstSlot
    <3>2. InUse(qb, qe, bl, n, i) <=> b <= i /\ i < LastSlot(qe, bl, n)
      BY <2>1 DEF InUse, FirstSlot, b
    <3>3. b + 1 <= i <=> b <= i /\ i # b
      BY <1>1
    <3> QED
      BY <2>1, <3>1, <3>2, <3>3
  <2>2. CASE n # 1
    BY <2>2 DEF InUse, FirstSlot
  <2> QED
    BY <2>1, <2>2
<1>9. ASSUME NEW n \in 1 .. N PROVE bl[n] \in Blocks /\ (bl[n] = bl[1] => n = 1)
  <2>1. 1 \in 1 .. N
    BY <1>1
  <2>2. \A m, k \in 1 .. N : bl[m] = bl[k] => m = k
    BY <1>0 DEF BlocksOnce, N
  <2>3. bl[n] = bl[1] => n = 1
    BY <2>1, <2>2, Zenon
  <2>4. bl[n] \in Blocks
    BY <1>2 DEF N
  <2> QED
    BY <2>3, <2>4
<1>10. CellsHold(ce, qc, qe, st, bl)
  <2> SUFFICES ASSUME NEW n \in 1 .. N, NEW i \in 0 .. P - 1, InUse(qc, qe, bl, n, i)
               PROVE  ce[bl[n]][i] = st[Row(n) + i - (b + 1) + 1]
    BY <1>3 DEF CellsHold, N, P
  <2>1. InUse(qb, qe, bl, n, i) /\ ~ (n = 1 /\ i = b)
    BY <1>8
  <2>2. cl[bl[n]][i] = sq[Row(n) + i - b + 1]
    BY <1>0, <2>1 DEF CellsHold, N, P, b
  <2>3. Row(n) \in Nat /\ Row(n) + i - b + 1 \in 1 .. L
    BY <1>0, <2>1, PlaceOfSlot DEF N, P, b, L
  <2>4. Row(n) + i - (b + 1) + 1 \in 1 .. L - 1
    <3>1. Row(n) \in Nat /\ Row(n) + i - (b + 1) + 1 \in 1 .. Len(st)
      BY <1>3, <1>7, PlaceOfSlot DEF N, P
    <3> QED
      BY <1>4, <3>1
  <2>5. (Row(n) + i - (b + 1) + 1) + 1 = Row(n) + i - b + 1
    BY <1>1, <2>3
  <2>6. ce[bl[n]][i] = cl[bl[n]][i]
    BY <1>5, <1>9, <2>1
  <2> QED
    BY <1>4, <2>2, <2>4, <2>5, <2>6
<1> QED
  BY <1>0, <1>7, <1>10 DEF QueueHolds, ce, qc, st

\* A pop that first gives the exhausted block back.
LEMMA PopFromNext ==
    ASSUME NEW cl, NEW qb, NEW qe, NEW fb, NEW sq, NEW bl,
           QueueHolds(cl, qb, qe, fb, sq, bl), sq # <<>>, qb.pos = PerBlock
    PROVE  /\ Len(bl) >= 2
           /\ QueueHolds([cl EXCEPT ![bl[2]][0] = Raw], [block |-> bl[2], pos |-> 1], qe,
                         fb \cup {bl[1]}, Tail(sq), Tail(bl))
<1> DEFINE N == Len(bl)
           L == Len(sq)
           P == PerBlock
           e == qe.pos
           ce == [cl EXCEPT ![bl[2]][0] = Raw]
           qc == [block |-> bl[2], pos |-> 1]
           st == Tail(sq)
           bt == Tail(bl)
<1>0. /\ QueueShape(cl, qb, qe, sq, bl) /\ BlocksOnce(bl) /\ BlocksFree(bl, fb)
      /\ CellsHold(cl, qb, qe, sq, bl)
  BY DEF QueueHolds
<1>1. /\ N \in Nat \ {0} /\ L \in Nat /\ e \in 0 .. P
      /\ Row(N) \in Nat /\ Row(N) + e = P + L /\ P \in Nat \ {0}
  BY <1>0, QueueNumbers
<1>2. /\ bl \in Seq(Blocks) /\ cl \in [Blocks -> [0 .. P - 1 -> QueueValues \cup {Raw}]]
      /\ qe \in Iterators /\ qe.block = bl[N]
      /\ sq \in Seq(QueueValues) /\ L <= MaxQueue
  BY <1>0 DEF QueueShape
<1>4. st \in Seq(QueueValues) /\ Len(st) = L - 1 /\ L >= 1 /\ \A k \in 1 .. L - 1 : st[k] = sq[k + 1]
  BY <1>2
<1>3. N >= 2
  <2>1. N = 1 => Row(N) = 0
    BY RowFacts
  <2> HIDE DEF N, L, P, e, ce, qc, st, bt
  <2> QED
    BY <1>1, <1>4, <2>1
<1>5. bt \in Seq(Blocks) /\ Len(bt) = N - 1 /\ \A k \in 1 .. N - 1 : bt[k] = bl[k + 1]
  BY <1>2, <1>3
<1>6. bl[2] \in Blocks /\ bl[1] \in Blocks
  BY <1>2, <1>3
<1>7. ASSUME NEW c \in Blocks, NEW i \in 0 .. P - 1
      PROVE  ce[c][i] = IF c = bl[2] /\ i = 0 THEN Raw ELSE cl[c][i]
  BY <1>2
<1>8. ce \in [Blocks -> [0 .. P - 1 -> QueueValues \cup {Raw}]]
  BY <1>2
<1>9. qc.block = bl[2] /\ qc.pos = 1 /\ qc \in Iterators
  BY <1>1, <1>6 DEF Iterators
<1> HIDE DEF N, L, P, e, ce, qc, st, bt
<1>10. \A n \in Int : Row(n) \in Int /\ Row(n + 1) = Row(n) + P
  BY RowFacts DEF P
<1>11. QueueShape(ce, qc, qe, st, bt)
  <2>1. N - 1 \in Int /\ (N - 1) + 1 = N
    BY <1>1
  <2>2. Row(N) = Row(N - 1) + P /\ Row(N - 1) \in Int
    BY <1>10, <2>1
  <2>3. Row(N - 1) + e = 1 + (L - 1)
    BY <1>1, <2>2
  <2>4. 1 \in 1 .. N - 1 /\ N - 1 \in 1 .. N - 1 /\ 1 + 1 = 2
    BY <1>1, <1>3
  <2>5. bt[1] = bl[2] /\ bt[N - 1] = bl[N]
    BY <1>5, <2>1, <2>4
  <2>6. Len(bt) >= 1 /\ Len(st) <= MaxQueue
    BY <1>1, <1>2, <1>3, <1>4, <1>5, QueueAssumption
  <2> QED
    BY <1>2, <1>4, <1>5, <1>8, <1>9, <2>3, <2>5, <2>6 DEF QueueShape, P, e
<1>12. BlocksOnce(bt)
  <2> SUFFICES ASSUME NEW m \in 1 .. N - 1, NEW n \in 1 .. N - 1, bt[m] = bt[n] PROVE m = n
    BY <1>5 DEF BlocksOnce
  <2>1. m + 1 \in 1 .. N /\ n + 1 \in 1 .. N
    BY <1>1
  <2>2. m + 1 = n + 1
    BY <1>0, <1>5, <2>1 DEF BlocksOnce, N
  <2> QED
    BY <2>2
<1>13. BlocksFree(bt, fb \cup {bl[1]})
  <2>1. ASSUME NEW n \in 1 .. N - 1 PROVE bt[n] # bl[1] /\ bt[n] \in {bl[k] : k \in 1 .. N}
    <3>1. n + 1 \in 1 .. N /\ 1 \in 1 .. N /\ n + 1 # 1
      BY <1>1
    <3> QED
      BY <1>0, <1>5, <3>1 DEF BlocksOnce, N
  <2>2. ASSUME NEW k \in 1 .. N, bl[k] # bl[1] PROVE bl[k] \in {bt[n] : n \in 1 .. N - 1}
    <3>1. k - 1 \in 1 .. N - 1 /\ (k - 1) + 1 = k
      BY <1>1, <2>2
    <3> QED
      BY <1>5, <3>1
  <2>3. {bt[n] : n \in 1 .. N - 1} = {bl[k] : k \in 1 .. N} \ {bl[1]}
    BY <2>1, <2>2
  <2>4. fb = Blocks \ {bl[k] : k \in 1 .. N}
    BY <1>0 DEF BlocksFree, N
  <2>5. bl[1] \in {bl[k] : k \in 1 .. N}
    <3>1. 1 \in 1 .. N
      BY <1>1
    <3> QED
      BY <3>1
  <2>6. fb \cup {bl[1]} = Blocks \ {bt[n] : n \in 1 .. N - 1}
    BY <1>6, <2>3, <2>4, <2>5
  <2> QED
    BY <1>5, <2>6 DEF BlocksFree
<1>14. ASSUME NEW n \in 1 .. N - 1, NEW i \in 0 .. P - 1
       PROVE  /\ n + 1 \in 1 .. N
              /\ InUse(qc, qe, bt, n, i) <=>
                     InUse(qb, qe, bl, n + 1, i) /\ ~ (n = 1 /\ i = 0)
  <2>1. n + 1 \in 1 .. N /\ n + 1 # 1 /\ (n = N - 1 <=> n + 1 = N)
    BY <1>1
  <2>2. LastSlot(qe, bt, n) = LastSlot(qe, bl, n + 1)
    BY <1>5, <2>1 DEF LastSlot, N
  <2>3. FirstSlot(qb, n + 1) = 0
    BY <2>1 DEF FirstSlot
  <2>4. FirstSlot(qc, n) <= i <=> 0 <= i /\ ~ (n = 1 /\ i = 0)
    BY <1>1, <1>9 DEF FirstSlot
  <2> QED
    BY <2>1, <2>2, <2>3, <2>4 DEF InUse
<1>15. ASSUME NEW n \in 1 .. N - 1 PROVE bt[n] \in Blocks /\ (bt[n] = bl[2] => n = 1)
  <2>1. n + 1 \in 1 .. N /\ 2 \in 1 .. N
    BY <1>1, <1>3
  <2>2. bt[n] = bl[2] => n + 1 = 2
    BY <1>0, <1>5, <2>1 DEF BlocksOnce, N
  <2>3. n + 1 = 2 => n = 1
    BY <1>1
  <2>4. bt[n] \in Blocks
    BY <1>5
  <2> QED
    BY <2>2, <2>3, <2>4
<1>16. CellsHold(ce, qc, qe, st, bt)
  <2> SUFFICES ASSUME NEW n \in 1 .. N - 1, NEW i \in 0 .. P - 1, InUse(qc, qe, bt, n, i)
               PROVE  ce[bt[n]][i] = st[Row(n) + i - 1 + 1]
    BY <1>5, <1>9 DEF CellsHold, P
  <2>1. n + 1 \in 1 .. N /\ InUse(qb, qe, bl, n + 1, i) /\ ~ (n = 1 /\ i = 0)
    BY <1>14
  <2>2. cl[bl[n + 1]][i] = sq[Row(n + 1) + i - P + 1]
    BY <1>0, <2>1 DEF CellsHold, N, P
  <2>3. Row(n + 1) = Row(n) + P /\ Row(n) \in Int
    BY <1>10, <1>1
  <2>4. Row(n) + i - 1 + 1 \in 1 .. L - 1
    <3>1. Row(n) + i - qc.pos + 1 \in 1 .. Len(st)
      BY <1>5, <1>11, PlaceOfSlot DEF P
    <3> QED
      BY <1>4, <1>9, <3>1
  <2>5. (Row(n) + i - 1 + 1) + 1 = Row(n + 1) + i - P + 1
    BY <1>1, <2>3
  <2>6. ce[bt[n]][i] = cl[bl[n + 1]][i]
    BY <1>5, <1>7, <1>15, <2>1
  <2> QED
    BY <1>4, <2>2, <2>4, <2>5, <2>6
<1> QED
  BY <1>3, <1>11, <1>12, <1>13, <1>16 DEF QueueHolds, ce, qc, st, bt, N

\* What Clear leaves of the map: its last block.
LastOnly(m, bl) ==
    [vector |-> [j \in DOMAIN m.vector |->
                    IF m.vector[j] = bl[Len(bl)] THEN bl[Len(bl)] ELSE Raw],
     capacity |-> m.capacity, size |-> 1,
     begin |-> (m.begin + (Len(bl) - 1)) % SizeMod, end |-> m.end]

\* That is a map of one block.
LEMMA LastOnlyHolds ==
    ASSUME NEW V, Raw \notin V, NEW m, NEW bl, RingHolds(m, bl, V), Len(bl) >= 1, BlocksOnce(bl)
    PROVE  RingHolds(LastOnly(m, bl), <<bl[Len(bl)]>>, V)
<1>0. RingShape(m, bl, V) /\ SlotsHold(m, bl) /\ OthersRaw(m, bl)
  BY DEF RingHolds
<1> DEFINE c == m.capacity
           N == Len(bl)
           b == m.begin
           x == b + (N - 1)
           last == bl[N]
           vec == [j \in DOMAIN m.vector |-> IF m.vector[j] = last THEN last ELSE Raw]
           s == LastOnly(m, bl)
           t == <<last>>
<1>1. /\ c \in Nat \ {0} /\ b \in Nat /\ N \in Nat \ {0} /\ SizeMod \in Nat \ {0}
      /\ bl \in Seq(V) /\ c \in PowersOfTwo /\ c < SizeMod
      /\ m.vector \in [0 .. c - 1 -> V \cup {Raw}]
      /\ m.end = (b + N) % SizeMod /\ m.end \in Nat
  <2>1. /\ bl \in Seq(V) /\ c \in PowersOfTwo /\ c < SizeMod /\ m \in RingRecords(V)
        /\ m.vector \in [0 .. c - 1 -> V \cup {Raw}]
        /\ m.end = (b + N) % SizeMod
    BY <1>0 DEF RingShape
  <2>2. m.end \in Nat
    BY <2>1 DEF RingRecords
  <2> QED
    BY <1>0, <2>1, <2>2, ShapeNumbers
<1>2. last \in V /\ N \in 1 .. N
  BY <1>1
<1>3. s = [vector |-> vec, capacity |-> c, size |-> 1, begin |-> x % SizeMod, end |-> m.end]
  BY DEF LastOnly
<1>4. vec \in [0 .. c - 1 -> V \cup {Raw}]
  BY <1>1, <1>2
<1>5. ASSUME NEW j \in 0 .. c - 1 PROVE vec[j] = IF m.vector[j] = last THEN last ELSE Raw
  BY <1>1
<1>6. t \in Seq(V) /\ Len(t) = 1 /\ t[1] = last
  BY <1>2
<1>7. x \in Nat /\ x + 1 = b + N /\ x = b + N - 1
  BY <1>1
<1> HIDE DEF c, N, b, x, last, vec, s, t
<1>8. /\ (x % SizeMod) % c = x % c /\ x % c \in 0 .. c - 1
      /\ x % SizeMod \in 0 .. SizeMod - 1
  BY <1>1, <1>7, SameSlot
<1>9. m.end = ((x % SizeMod) + 1) % SizeMod
  BY <1>1, <1>7, NextTurn
<1>10. m.vector[x % c] = last
  BY <1>0, <1>2, <1>7 DEF SlotsHold, c, N, b, last
<1>11. s \in RingRecords(V)
  <2>1. vec \in UNION {[0 .. k - 1 -> V \cup {Raw}] : k \in Nat}
    BY <1>1, <1>4
  <2>2. x % SizeMod \in Nat /\ 1 \in Nat
    BY <1>1, <1>8
  <2> QED
    BY <1>1, <1>3, <2>1, <2>2 DEF RingRecords
<1>12. RingShape(s, t, V)
  <2>1. 1 <= c /\ x % SizeMod < SizeMod
    BY <1>1, <1>8
  <2> QED
    BY <1>1, <1>3, <1>4, <1>6, <1>9, <1>11, <2>1 DEF RingShape
<1>13. (x % SizeMod) + 1 - 1 = x % SizeMod
  BY <1>1, <1>8
<1>14. SlotsHold(s, t)
  <2> SUFFICES ASSUME NEW i \in 1 .. 1
               PROVE  vec[((x % SizeMod) + i - 1) % c] = t[i]
    BY <1>3, <1>6 DEF SlotsHold
  <2>1. i = 1
    OBVIOUS
  <2> QED
    BY <1>5, <1>6, <1>8, <1>10, <1>13, <2>1
<1>15. OthersRaw(s, t)
  <2> SUFFICES ASSUME NEW j \in 0 .. c - 1, vec[j] # Raw
               PROVE  \E i \in 1 .. 1 : j = ((x % SizeMod) + i - 1) % c
    BY <1>3, <1>6 DEF OthersRaw
  <2>1. m.vector[j] = last /\ last # Raw
    BY <1>2, <1>5
  <2>2. PICK i \in 1 .. N : j = (b + i - 1) % c
    BY <1>0, <2>1 DEF OthersRaw, c, N, b
  <2>3. bl[i] = bl[N]
    BY <1>0, <2>1, <2>2 DEF SlotsHold, c, N, b, last
  <2>4. i = N
    BY <1>2, <2>3 DEF BlocksOnce, N
  <2>5. j = x % c
    BY <1>7, <2>2, <2>4
  <2>6. 1 \in 1 .. 1
    OBVIOUS
  <2> QED
    BY <1>8, <1>13, <2>5, <2>6
<1> QED
  BY <1>12, <1>14, <1>15 DEF RingHolds, s, t, last, N

\* A queue that starts in block b is empty, whatever the bytes of b are.
LEMMA EmptyQueueHolds ==
    ASSUME NEW cl \in [Blocks -> [0 .. PerBlock - 1 -> QueueValues \cup {Raw}]], NEW b \in Blocks
    PROVE  QueueHolds(cl, Iterator(b), Iterator(b), Blocks \ {b}, <<>>, <<b>>)
<1> DEFINE it == Iterator(b)
           t == <<b>>
<1>1. PerBlock \in Nat \ {0} /\ 0 <= MaxQueue
  BY PerBlockAssumption, QueueAssumption
<1>2. it.block = b /\ it.pos = 0 /\ it \in Iterators
  BY <1>1 DEF Iterator, Iterators
<1>3. t \in Seq(Blocks) /\ Len(t) = 1 /\ t[1] = b
  OBVIOUS
<1> HIDE DEF it, t
<1>4. QueueShape(cl, it, it, <<>>, t)
  <2>1. Row(1) + 0 = 0 + 0 /\ 1 >= 1 /\ <<>> \in Seq(QueueValues) /\ Len(<<>>) = 0
    BY RowFacts
  <2> QED
    BY <1>1, <1>2, <1>3, <2>1 DEF QueueShape
<1>5. BlocksOnce(t) /\ BlocksFree(t, Blocks \ {b})
  BY <1>3 DEF BlocksOnce, BlocksFree
<1>6. CellsHold(cl, it, it, <<>>, t)
  <2> SUFFICES ASSUME NEW n \in 1 .. Len(t), NEW i \in 0 .. PerBlock - 1, InUse(it, it, t, n, i)
               PROVE  FALSE
    BY DEF CellsHold
  <2>1. n = 1
    BY <1>3
  <2>2. i < 0
    BY <1>2, <1>3, <2>1 DEF InUse, LastSlot
  <2> QED
    BY <1>1, <2>2
<1> QED
  BY <1>4, <1>5, <1>6 DEF QueueHolds, it, t

\* What Clear gives back and what it keeps make up the map.
LEMMA ClearedAndKept ==
    ASSUME NEW bl \in Seq(Blocks), Len(bl) >= 1, BlocksOnce(bl), NEW fb, BlocksFree(bl, fb)
    PROVE  LET cleared == {bl[n] : n \in 1 .. Len(bl) - 1}
           IN  /\ bl[Len(bl)] \in Blocks
               /\ cleared \subseteq Blocks
               /\ cleared \cap fb = {}
               /\ fb \cup cleared = Blocks \ {bl[Len(bl)]}
<1> DEFINE N == Len(bl)
           last == bl[N]
           cleared == {bl[n] : n \in 1 .. N - 1}
<1>1. N \in Nat \ {0} /\ N \in 1 .. N
  OBVIOUS
<1>2. \A n \in 1 .. N : bl[n] \in Blocks
  OBVIOUS
<1>3. fb = Blocks \ {bl[n] : n \in 1 .. N}
  BY DEF BlocksFree
<1>4. \A n \in 1 .. N - 1 : n \in 1 .. N /\ n # N
  BY <1>1
<1>5. \A n \in 1 .. N - 1 : bl[n] # last /\ bl[n] \in Blocks
  BY <1>1, <1>2, <1>4 DEF BlocksOnce
<1>6. 1 .. N = 1 .. N - 1 \cup {N}
  BY <1>1
<1> HIDE DEF N
<1>7. {bl[n] : n \in 1 .. N} = cleared \cup {last}
  BY <1>6
<1>8. cleared \subseteq Blocks /\ last \notin cleared /\ last \in Blocks
  BY <1>1, <1>2, <1>5
<1> HIDE DEF cleared, last
<1>9. cleared \cap fb = {} /\ fb \cup cleared = Blocks \ {last}
  BY <1>3, <1>7, <1>8
<1> QED
  BY <1>8, <1>9 DEF cleared, last, N

-----------------------------------------------------------------------------
(* Counting the slots in use.                                              *)

\* The slots in use.
SlotsOf(qb, qe, bl) ==
    {s \in (1 .. Len(bl)) \X (0 .. PerBlock - 1) : InUse(qb, qe, bl, s[1], s[2])}

\* The slots in use of the first K places are K.
LEMMA SlotsOfPlaces ==
    ASSUME NEW cl, NEW qb, NEW qe, NEW sq, NEW bl, QueueShape(cl, qb, qe, sq, bl),
           NEW K \in 0 .. Len(sq)
    PROVE  Cardinality({s \in SlotsOf(qb, qe, bl) : Row(s[1]) + s[2] - qb.pos + 1 <= K}) = K
<1> DEFINE N == Len(bl)
           L == Len(sq)
           P == PerBlock
           b == qb.pos
           e == qe.pos
           T == {s \in SlotsOf(qb, qe, bl) : Row(s[1]) + s[2] - b + 1 <= K}
           f == [k \in 1 .. K |-> <<((k + b - 1) \div P) + 1, (k + b - 1) % P>>]
<1>1. /\ N \in Nat \ {0} /\ L \in Nat /\ b \in 0 .. P /\ e \in 0 .. P
      /\ Row(N) \in Nat /\ Row(N) + e = b + L /\ P \in Nat \ {0} /\ K \in Nat /\ K <= L
  BY QueueNumbers
<1> HIDE DEF N, L, P, b, e
<1>2. \A n \in Int : Row(n) \in Int /\ Row(n + 1) = Row(n) + P
  BY RowFacts DEF P
\* The slot of place k.
<1>3. ASSUME NEW k \in 1 .. K
      PROVE  /\ f[k] \in T
             /\ Row(f[k][1]) + f[k][2] - b + 1 = k
  <2> DEFINE x == k + b - 1
             q == x \div P
             r == x % P
  <2>1. x \in Nat /\ k = x - b + 1 /\ b <= x /\ x < Row(N) + e
    BY <1>1
  <2>2. x = q * P + r /\ q \in Nat /\ r \in 0 .. P - 1
    BY <1>1, <2>1, DivMod
  <2>3. f[k] = <<q + 1, r>>
    OBVIOUS
  <2> HIDE DEF x, q, r, f
  <2>4. f[k][1] = q + 1 /\ f[k][2] = r
    BY <2>3
  <2>5. Row(q + 1) = q * P
    BY <1>1, <2>2 DEF Row, P
  <2>6. q + 1 <= N
    <3> SUFFICES ASSUME N < q + 1 PROVE FALSE
      BY <1>1, <2>2
    <3>1. Row(N) + P <= Row(q + 1)
      BY <1>1, <2>2, RowFacts DEF P
    <3> QED
      BY <1>1, <2>1, <2>2, <2>5, <3>1
  <2>7. q + 1 \in 1 .. N
    BY <1>1, <2>2, <2>6
  <2>8. InUse(qb, qe, bl, q + 1, r)
    <3>1. q + 1 = 1 => b <= r
      <4>1. q + 1 = 1 => q = 0
        BY <2>2
      <4> QED
        BY <1>1, <2>1, <2>2, <4>1
    <3>2. q + 1 = N => r < e
      <4> SUFFICES ASSUME q + 1 = N PROVE r < e
        OBVIOUS
      <4>1. Row(N) = q * P
        BY <2>5
      <4> QED
        BY <1>1, <2>1, <2>2, <4>1
    <3>3. 0 <= r /\ r < P
      BY <1>1, <2>2
    <3> QED
      BY <3>1, <3>2, <3>3 DEF InUse, FirstSlot, LastSlot, N, P, b, e
  <2>9. f[k] \in SlotsOf(qb, qe, bl)
    BY <2>2, <2>3, <2>4, <2>7, <2>8 DEF SlotsOf, N, P
  <2>10. Row(f[k][1]) + f[k][2] - b + 1 = k
    <3>1. q * P + r - b + 1 = k
      <4>1. x - b + 1 = k
        BY <1>1, <2>1
      <4>2. q * P \in Int /\ r \in Int /\ b \in Int /\ x = q * P + r
        BY <1>1, <2>2
      <4> QED
        BY <4>1, <4>2
    <3>2. Row(q + 1) + r - b + 1 = k
      BY <2>5, <3>1
    <3> QED
      BY <2>4, <3>2
  <2>11. Row(f[k][1]) + f[k][2] - b + 1 <= K
    BY <1>1, <2>10
  <2> QED
    BY <2>9, <2>10, <2>11
<1>4. f \in [1 .. K -> T]
  <2>1. f = [k \in 1 .. K |-> f[k]]
    OBVIOUS
  <2> HIDE DEF f, T
  <2> QED
    BY <1>3, <2>1
<1>5. ASSUME NEW k \in 1 .. K, NEW m \in 1 .. K, f[k] = f[m] PROVE k = m
  <2> HIDE DEF f, T
  <2> QED
    BY <1>3, <1>5
<1>6. ASSUME NEW s \in T PROVE \E k \in 1 .. K : f[k] = s
  <2> DEFINE n == s[1]
             i == s[2]
             k == Row(n) + i - b + 1
  <2>1. s = <<n, i>> /\ n \in 1 .. N /\ i \in 0 .. P - 1 /\ InUse(qb, qe, bl, n, i) /\ k <= K
    BY DEF SlotsOf, N, P
  <2> HIDE DEF n, i
  <2>2. Row(n) \in Nat /\ k \in 1 .. L
    BY <2>1, PlaceOfSlot DEF N, P, L, b
  <2>3. k \in 1 .. K /\ k + b - 1 = Row(n) + i
    <3> HIDE DEF f, T
    <3>1. i \in Nat /\ b \in Nat
      BY <1>1, <2>1
    <3>2. k + b - 1 = Row(n) + i
      BY <2>2, <3>1
    <3> HIDE DEF k
    <3> QED
      BY <1>1, <2>1, <2>2, <3>2
  <2>4. n - 1 \in Nat /\ Row(n) = (n - 1) * P /\ (n - 1) + 1 = n /\ i \in Nat /\ i < P
    BY <1>1, <2>1 DEF Row, P
  <2>5. ((n - 1) * P + i) % P = i /\ ((n - 1) * P + i) \div P = n - 1
    <3> DEFINE m == n - 1
    <3>1. m \in Nat
      BY <2>4
    <3> HIDE DEF m
    <3>2. (m * P + i) % P = i
      BY <1>1, <2>4, <3>1, Remainder
    <3>3. (m * P + i) \div P = m
      BY <1>1, <2>4, <3>1, Quotient
    <3> QED
      BY <3>2, <3>3 DEF m
  <2>6. f[k] = <<(n - 1) + 1, i>>
    <3> HIDE DEF k
    <3>1. f[k] = <<((k + b - 1) \div P) + 1, (k + b - 1) % P>>
      BY <2>3
    <3>2. k + b - 1 = (n - 1) * P + i
      BY <2>3, <2>4
    <3> QED
      BY <2>5, <3>1, <3>2
  <2> QED
    BY <2>1, <2>3, <2>4, <2>6
<1>7. f \in Bijection(1 .. K, T)
  <2> HIDE DEF f, T
  <2> QED
    BY <1>4, <1>5, <1>6 DEF Bijection, Injection, Surjection, IsInjective
<1> HIDE DEF f, T
<1>8. IsFiniteSet(1 .. K) /\ Cardinality(1 .. K) = K
  BY <1>1, FS_Interval
<1>9. Cardinality(T) = K
  <2>1. ExistsBijection(1 .. K, T)
    BY <1>7 DEF ExistsBijection
  <2> QED
    BY <1>8, <2>1, FS_Bijection
<1> QED
  BY <1>9 DEF T, b

-----------------------------------------------------------------------------

\* What a queue holds is what was pushed and not popped.
LEMMA QueueHeldIsFound ==
    ASSUME RingHolds(map, Elements(map), Blocks), qsize = Len(queueSeq),
           QueueHolds(cell, qbegin, qend, freeBlocks \cup lostBlocks, queueSeq, Elements(map)),
           freeBlocks \cap lostBlocks = {}
    PROVE  QueueIsSequence
<1> DEFINE bl == Elements(map)
           P == PerBlock
           b == qbegin.pos
           place(s) == Row(s[1]) + s[2] - b + 1
           rank(s) == 1 + Cardinality({r \in Slots : Before(r, s)})
<1>0. /\ QueueShape(cell, qbegin, qend, queueSeq, bl) /\ BlocksOnce(bl)
      /\ BlocksFree(bl, freeBlocks \cup lostBlocks)
      /\ CellsHold(cell, qbegin, qend, queueSeq, bl)
  BY DEF QueueHolds
<1>1. Slots = SlotsOf(qbegin, qend, bl)
  BY DEF Slots, SlotsOf, InUse, FirstSlot, LastSlot
<1>2. /\ bl \in Seq(Blocks) /\ queueSeq \in Seq(QueueValues)
      /\ qbegin.block = bl[1] /\ qend.block = bl[Len(bl)]
  BY <1>0 DEF QueueShape
<1>3. /\ Len(bl) \in Nat \ {0} /\ Len(queueSeq) \in Nat /\ b \in 0 .. P
      /\ P \in Nat \ {0} /\ qend.pos \in 0 .. P
      /\ Row(Len(bl)) + qend.pos = b + Len(queueSeq)
  BY <1>0, QueueNumbers
<1>4. DOMAIN bl = 1 .. Len(bl)
  BY <1>2
<1> HIDE DEF bl, b, P
<1>5. BlocksAreAccounted
  <2> DEFINE used == {bl[n] : n \in DOMAIN bl}
  <2>1. freeBlocks \cup lostBlocks = Blocks \ used
    BY <1>0, <1>4 DEF BlocksFree
  <2>2. freeBlocks = Blocks \ (used \cup lostBlocks) /\ lostBlocks \cap used = {}
    <3> HIDE DEF used
    <3> QED
      BY <2>1
  <2> QED
    BY <1>0, <1>2, <1>4, <2>2 DEF BlocksAreAccounted, BlocksOnce, bl
<1>6. ASSUME NEW s \in Slots
      PROVE  /\ s[1] \in 1 .. Len(bl) /\ s[2] \in 0 .. P - 1 /\ s = <<s[1], s[2]>>
             /\ InUse(qbegin, qend, bl, s[1], s[2])
             /\ Row(s[1]) \in Nat /\ place(s) \in 1 .. Len(queueSeq)
             /\ cell[bl[s[1]]][s[2]] = queueSeq[place(s)]
  <2>1. /\ s[1] \in 1 .. Len(bl) /\ s[2] \in 0 .. P - 1 /\ s = <<s[1], s[2]>>
        /\ InUse(qbegin, qend, bl, s[1], s[2])
    BY <1>1 DEF SlotsOf, P
  <2>2. Row(s[1]) \in Nat /\ place(s) \in 1 .. Len(queueSeq)
    BY <1>0, <2>1, PlaceOfSlot DEF P, b
  <2>3. cell[bl[s[1]]][s[2]] = queueSeq[place(s)]
    BY <1>0, <2>1 DEF CellsHold, P, b
  <2> QED
    BY <2>1, <2>2, <2>3
<1>7. ASSUME NEW r \in Slots, NEW s \in Slots
      PROVE  Before(r, s) <=> place(r) <= place(s) - 1
  <2> DEFINE m == r[1]
             n == s[1]
             i == r[2]
             j == s[2]
  <2>1. /\ m \in Int /\ n \in Int /\ i \in 0 .. P - 1 /\ j \in 0 .. P - 1
        /\ Row(m) \in Nat /\ Row(n) \in Nat
    BY <1>3, <1>6
  <2>2. Before(r, s) <=> m < n \/ (m = n /\ i < j)
    BY DEF Before
  <2>3. place(r) = Row(m) + i - b + 1 /\ place(s) = Row(n) + j - b + 1
    OBVIOUS
  <2> HIDE DEF m, n, i, j, place
  <2>4. m < n => Row(m) + P <= Row(n)
    BY <2>1, RowFacts DEF P
  <2>5. n < m => Row(n) + P <= Row(m)
    BY <2>1, RowFacts DEF P
  <2>6. CASE m < n
    BY <1>3, <2>1, <2>2, <2>3, <2>4, <2>6
  <2>7. CASE n < m
    BY <1>3, <2>1, <2>2, <2>3, <2>5, <2>7
  <2>8. CASE m = n
    BY <1>3, <2>1, <2>2, <2>3, <2>8
  <2> QED
    BY <2>1, <2>6, <2>7, <2>8
<1>8. ASSUME NEW s \in Slots PROVE rank(s) = place(s)
  <2>1. place(s) \in 1 .. Len(queueSeq)
    BY <1>6
  <2> DEFINE K == place(s) - 1
  <2>2. {r \in Slots : Before(r, s)} = {r \in Slots : place(r) <= K}
    BY <1>7
  <2>3. K \in 0 .. Len(queueSeq) /\ 1 + K = place(s)
    <3> HIDE DEF place
    <3> QED
      BY <1>3, <2>1
  <2> HIDE DEF K
  <2>4. {r \in Slots : place(r) <= K} =
            {r \in SlotsOf(qbegin, qend, bl) : Row(r[1]) + r[2] - qbegin.pos + 1 <= K}
    BY <1>1 DEF b
  <2>5. Cardinality({r \in Slots : place(r) <= K}) = K
    BY <1>0, <2>3, <2>4, SlotsOfPlaces
  <2> QED
    BY <2>2, <2>3, <2>5
<1>9. Cardinality(Slots) = Len(queueSeq)
  <2> DEFINE K == Len(queueSeq)
  <2>1. K \in 0 .. Len(queueSeq)
    BY <1>3
  <2>2. \A s \in Slots : place(s) <= K
    <3> TAKE s \in Slots
    <3>1. place(s) \in 1 .. Len(queueSeq)
      BY <1>6
    <3> HIDE DEF place
    <3> QED
      BY <1>3, <3>1
  <2> HIDE DEF K
  <2>3. Slots = {r \in SlotsOf(qbegin, qend, bl) : Row(r[1]) + r[2] - qbegin.pos + 1 <= K}
    BY <1>1, <2>2 DEF b
  <2>4. Cardinality(Slots) = K
    BY <1>0, <2>1, <2>3, SlotsOfPlaces
  <2> QED
    BY <2>4 DEF K
<1>10. \A s \in Slots : cell[bl[s[1]]][s[2]] = queueSeq[rank(s)]
  BY <1>6, <1>8
<1> QED
  BY <1>5, <1>9, <1>10 DEF QueueIsSequence, bl

\* The queue holds what was pushed and not popped in the blocks of its map.
QueueInv ==
    /\ RingHolds(map, Elements(map), Blocks)
    /\ QueueHolds(cell, qbegin, qend, freeBlocks \cup lostBlocks, queueSeq, Elements(map))
    /\ freeBlocks \cap lostBlocks = {}
    /\ qsize = Len(queueSeq)

\* What QueueInv says of the queue's positions.
LEMMA QueueInvSays ==
    ASSUME QueueInv
    PROVE  LET bl == Elements(map)
           IN  /\ QueueShape(cell, qbegin, qend, queueSeq, bl)
               /\ BlocksOnce(bl) /\ BlocksFree(bl, freeBlocks \cup lostBlocks)
               /\ Len(bl) \in Nat \ {0} /\ Len(queueSeq) \in Nat /\ PerBlock \in Nat \ {0}
               /\ qbegin.pos \in 0 .. PerBlock /\ qend.pos \in 0 .. PerBlock
               /\ Row(Len(bl)) \in Nat
               /\ Row(Len(bl)) + qend.pos = qbegin.pos + Len(queueSeq)
               /\ qbegin \in Iterators /\ qend \in Iterators /\ bl \in Seq(Blocks)
               /\ cell \in [Blocks -> [0 .. PerBlock - 1 -> QueueValues \cup {Raw}]]
               /\ queueSeq \in Seq(QueueValues)
               /\ qbegin.block = bl[1] /\ qend.block = bl[Len(bl)]
               /\ bl # <<>> /\ Raw \notin Blocks
               /\ freeBlocks \cap {bl[n] : n \in 1 .. Len(bl)} = {}
               /\ lostBlocks \cap {bl[n] : n \in 1 .. Len(bl)} = {}
<1> DEFINE bl == Elements(map)
<1>1. /\ QueueShape(cell, qbegin, qend, queueSeq, bl)
      /\ BlocksOnce(bl) /\ BlocksFree(bl, freeBlocks \cup lostBlocks)
  BY DEF QueueInv, QueueHolds
<1>2. /\ Len(bl) \in Nat \ {0} /\ Len(queueSeq) \in Nat /\ PerBlock \in Nat \ {0}
      /\ qbegin.pos \in 0 .. PerBlock /\ qend.pos \in 0 .. PerBlock
      /\ Row(Len(bl)) \in Nat
      /\ Row(Len(bl)) + qend.pos = qbegin.pos + Len(queueSeq)
  BY <1>1, QueueNumbers
<1>3. /\ qbegin \in Iterators /\ qend \in Iterators /\ bl \in Seq(Blocks)
      /\ cell \in [Blocks -> [0 .. PerBlock - 1 -> QueueValues \cup {Raw}]]
      /\ queueSeq \in Seq(QueueValues) /\ qbegin.block = bl[1] /\ qend.block = bl[Len(bl)]
  BY <1>1 DEF QueueShape
<1>4. bl # <<>> /\ Raw \notin Blocks
  BY <1>2, <1>3, EmptySeq, QueueAssumption
<1>5. /\ freeBlocks \cap {bl[n] : n \in 1 .. Len(bl)} = {}
      /\ lostBlocks \cap {bl[n] : n \in 1 .. Len(bl)} = {}
  <2> DEFINE used == {bl[n] : n \in 1 .. Len(bl)}
  <2>1. freeBlocks \cup lostBlocks = Blocks \ used
    BY <1>1 DEF BlocksFree
  <2> HIDE DEF used
  <2>2. freeBlocks \cap used = {} /\ lostBlocks \cap used = {}
    BY <2>1
  <2> QED
    BY <2>2 DEF used
<1> HIDE DEF bl
<1> QED
  BY <1>1, <1>2, <1>3, <1>4, <1>5 DEF bl

\* What is to be shown of a step: what its map holds, and the rest of it.
LEMMA QueueInvNext ==
    ASSUME NEW bx, RingHolds(map', bx, Blocks), qsize' = Len(queueSeq'),
           QueueHolds(cell', qbegin', qend', freeBlocks' \cup lostBlocks', queueSeq', bx),
           freeBlocks' \cap lostBlocks' = {}
    PROVE  QueueInv' /\ Elements(map)' = bx
<1>1. Elements(map') = bx
  BY QueueAssumption, HeldIsFound
<1>2. Elements(map)' = Elements(map')
  BY DEF Elements, Positions, Get, GetIndex
<1>3. Elements(map)' = bx
  BY <1>1, <1>2
<1>4. QueueInv' = (/\ RingHolds(map', Elements(map)', Blocks)
                   /\ QueueHolds(cell', qbegin', qend', freeBlocks' \cup lostBlocks', queueSeq',
                                 Elements(map)')
                   /\ freeBlocks' \cap lostBlocks' = {}
                   /\ qsize' = Len(queueSeq'))
  BY <1>2 DEF QueueInv
<1> QED
  BY <1>3, <1>4

\* A map of one block is what a queue begins with.
LEMMA NewMapHolds ==
    ASSUME NEW b \in Blocks
    PROVE  RingHolds(PushBack(NewRing(1), b), <<b>>, Blocks)
<1>1. /\ Raw \notin Blocks /\ 2 * 1 <= SizeMod /\ 2 * (0 + 1) <= SizeMod
  BY QueueAssumption, SizeModAssumption
<1>2. RingHolds(NewRing(1), <<>>, Blocks)
  BY <1>1, NewHolds
<1>3. Append(<<>>, b) = <<b>> /\ Len(<<>>) = 0
  OBVIOUS
<1>4. RingHolds(PushBack(NewRing(1), b), Append(<<>>, b), Blocks)
  BY <1>1, <1>2, <1>3, PushHolds
<1> QED
  BY <1>3, <1>4

\* What Push does to the map and to end_.
LEMMA PushDoes ==
    ASSUME QueueInv, NEW x \in QueueValues, NEW a \in Blocks, QueuePush(x, a)
    PROVE  /\ QueueInv'
           /\ qbegin' = qbegin /\ destroyed' = {}
           /\ \/ /\ Elements(map)' = Append(Elements(map), a)
                 /\ qend' = [block |-> a, pos |-> 1]
              \/ /\ Elements(map)' = Elements(map)
                 /\ qend' = [block |-> qend.block, pos |-> qend.pos + 1]
<1> DEFINE bl == Elements(map)
           fb == freeBlocks \cup lostBlocks
<1>0. /\ RingHolds(map, bl, Blocks) /\ qsize = Len(queueSeq)
      /\ QueueHolds(cell, qbegin, qend, fb, queueSeq, bl)
      /\ freeBlocks \cap lostBlocks = {}
  BY DEF QueueInv
<1>1. /\ Len(bl) \in Nat \ {0} /\ Len(queueSeq) \in Nat /\ PerBlock \in Nat \ {0}
      /\ qbegin.pos \in 0 .. PerBlock /\ qend.pos \in 0 .. PerBlock
      /\ Row(Len(bl)) \in Nat
      /\ Row(Len(bl)) + qend.pos = qbegin.pos + Len(queueSeq)
      /\ qend \in Iterators /\ queueSeq \in Seq(QueueValues) /\ Raw \notin Blocks
  BY QueueInvSays
<1>2. /\ Len(queueSeq) < MaxQueue /\ qsize' = qsize + 1 /\ queueSeq' = Append(queueSeq, x)
      /\ qbegin' = qbegin /\ lostBlocks' = lostBlocks /\ destroyed' = {}
  BY DEF QueuePush
<1>3. qsize' = Len(queueSeq')
  BY <1>0, <1>1, <1>2
<1>4. CASE AtBlockEnd(qend)
  <2>1. /\ a \in freeBlocks /\ map' = PushBack(map, a) /\ freeBlocks' = freeBlocks \ {a}
        /\ cell' = [cell EXCEPT ![Iterator(a).block][Iterator(a).pos] = x]
        /\ qend' = [Iterator(a) EXCEPT !.pos = @ + 1]
    BY <1>4 DEF QueuePush, EndAfterPush
  <2>2. Iterator(a) = [block |-> a, pos |-> 0]
    BY DEF Iterator
  <2>3. cell' = [cell EXCEPT ![a][0] = x] /\ qend' = [block |-> a, pos |-> 1]
    <3>1. Iterator(a).block = a /\ Iterator(a).pos = 0 /\ Iterator(a) \in Iterators /\ 0 + 1 = 1
      BY <1>1, <2>2 DEF Iterators
    <3>2. [Iterator(a) EXCEPT !.pos = @ + 1] = [block |-> a, pos |-> 1]
      BY <3>1, NextPosition
    <3> QED
      BY <2>1, <3>1, <3>2
  <2>4. qend.pos = PerBlock
    BY <1>1, <1>4 DEF AtBlockEnd
  <2>5. a \in fb /\ fb \ {a} = freeBlocks' \cup lostBlocks' /\ freeBlocks' \cap lostBlocks' = {}
    BY <1>0, <1>2, <2>1
  <2>6. QueueHolds(cell', qbegin', qend', freeBlocks' \cup lostBlocks', queueSeq', Append(bl, a))
    <3> HIDE DEF bl, fb
    <3>1. QueueHolds([cell EXCEPT ![a][0] = x], qbegin, [block |-> a, pos |-> 1],
                     fb \ {a}, Append(queueSeq, x), Append(bl, a))
      BY <1>0, <1>2, <2>4, <2>5, PushIntoNext
    <3> QED
      BY <1>2, <2>3, <2>5, <3>1
  <2>7. 2 * (Len(bl) + 1) <= SizeMod
    <3>1. Len(bl) - 1 <= Row(Len(bl))
      <4> DEFINE N == Len(bl)
      <4>1. N \in Nat \ {0}
        BY <1>1
      <4> HIDE DEF N
      <4>2. N - 1 <= (N - 1) * PerBlock
        <5>1. N - 1 \in Nat /\ PerBlock \in Nat \ {0}
          BY <4>1, PerBlockAssumption
        <5> QED
          BY ONLY <5>1, Z3
      <4> QED
        BY <4>2 DEF N, Row
    <3>2. Len(bl) <= MaxQueue
      BY <1>1, <1>2, <2>4, <3>1, QueueAssumption
    <3> QED
      BY <1>1, <3>2, QueueAssumption, SizeModAssumption
  <2>8. RingHolds(map', Append(bl, a), Blocks)
    BY <1>0, <1>1, <2>1, <2>7, PushHolds
  <2>9. QueueInv' /\ Elements(map)' = Append(bl, a)
    <3> HIDE DEF bl
    <3> QED
      BY <1>3, <2>5, <2>6, <2>8, QueueInvNext
  <2> QED
    BY <1>2, <2>3, <2>9
<1>5. CASE ~ AtBlockEnd(qend)
  <2>1. /\ map' = map /\ freeBlocks' = freeBlocks
        /\ cell' = [cell EXCEPT ![qend.block][qend.pos] = x]
        /\ qend' = [qend EXCEPT !.pos = @ + 1]
    BY <1>5 DEF QueuePush
  <2>2. qend' = [block |-> qend.block, pos |-> qend.pos + 1]
    BY <1>1, <2>1, NextPosition
  <2>3. qend.pos < PerBlock
    BY <1>1, <1>5 DEF AtBlockEnd
  <2>4. QueueHolds(cell', qbegin', qend', freeBlocks' \cup lostBlocks', queueSeq', bl)
    <3> HIDE DEF bl
    <3>1. QueueHolds([cell EXCEPT ![qend.block][qend.pos] = x], qbegin,
                     [block |-> qend.block, pos |-> qend.pos + 1],
                     fb, Append(queueSeq, x), bl)
      BY <1>0, <1>2, <2>3, PushIntoBlock
    <3> QED
      BY <1>2, <2>1, <2>2, <3>1
  <2>5. RingHolds(map', bl, Blocks) /\ freeBlocks' \cap lostBlocks' = {}
    BY <1>0, <1>2, <2>1
  <2>6. QueueInv' /\ Elements(map)' = bl
    <3> HIDE DEF bl
    <3> QED
      BY <1>3, <2>4, <2>5, QueueInvNext
  <2> QED
    BY <1>2, <2>2, <2>6
<1> QED
  BY <1>4, <1>5

\* What Pop does to the map and to begin_, and where it runs ~T.
LEMMA PopDoes ==
    ASSUME QueueInv, QueuePop
    PROVE  LET bl == Elements(map)
           IN  /\ QueueInv'
               /\ qend' = qend /\ queueSeq # <<>>
               /\ \/ /\ qbegin.pos = PerBlock /\ Len(bl) >= 2
                     /\ Elements(map)' = Tail(bl)
                     /\ qbegin' = [block |-> bl[2], pos |-> 1]
                     /\ destroyed' = {<<bl[2], 0>>}
                  \/ /\ qbegin.pos < PerBlock
                     /\ Elements(map)' = bl
                     /\ qbegin' = [block |-> qbegin.block, pos |-> qbegin.pos + 1]
                     /\ destroyed' = {<<qbegin.block, qbegin.pos>>}
<1> DEFINE bl == Elements(map)
           fb == freeBlocks \cup lostBlocks
<1>0. /\ RingHolds(map, bl, Blocks) /\ qsize = Len(queueSeq)
      /\ QueueHolds(cell, qbegin, qend, fb, queueSeq, bl)
      /\ freeBlocks \cap lostBlocks = {}
  BY DEF QueueInv
<1>1. /\ Len(bl) \in Nat \ {0} /\ Len(queueSeq) \in Nat /\ PerBlock \in Nat \ {0}
      /\ qbegin.pos \in 0 .. PerBlock
      /\ qbegin \in Iterators /\ queueSeq \in Seq(QueueValues) /\ bl \in Seq(Blocks)
      /\ Raw \notin Blocks /\ bl # <<>>
      /\ lostBlocks \cap {bl[n] : n \in 1 .. Len(bl)} = {}
  BY QueueInvSays
<1>2. /\ queueSeq # <<>> /\ qsize' = qsize - 1 /\ queueSeq' = Tail(queueSeq) /\ qend' = qend
      /\ lostBlocks' = lostBlocks
  BY DEF QueuePop
<1>3. qsize' = Len(queueSeq')
  BY <1>0, <1>1, <1>2
<1>4. CASE AtBlockEnd(qbegin)
  <2> DEFINE rest == PopFront(map)
  <2>1. /\ map' = rest /\ freeBlocks' = freeBlocks \cup {RingFront(map)}
        /\ cell' = [cell EXCEPT ![Iterator(RingFront(rest)).block]
                                 [Iterator(RingFront(rest)).pos] = Raw]
        /\ qbegin' = [Iterator(RingFront(rest)) EXCEPT !.pos = @ + 1]
        /\ destroyed' = {<<Iterator(RingFront(rest)).block, Iterator(RingFront(rest)).pos>>}
    BY <1>4 DEF QueuePop, DropFront
  <2>2. qbegin.pos = PerBlock
    BY <1>1, <1>4 DEF AtBlockEnd
  <2>3. /\ Len(bl) >= 2
        /\ QueueHolds([cell EXCEPT ![bl[2]][0] = Raw], [block |-> bl[2], pos |-> 1], qend,
                      fb \cup {bl[1]}, Tail(queueSeq), Tail(bl))
    <3> HIDE DEF bl, fb
    <3> QED
      BY <1>0, <1>2, <2>2, PopFromNext
  <2>4. RingHolds(rest, Tail(bl), Blocks)
    BY <1>0, <1>1, PopHolds
  <2>5. RingFront(map) = bl[1]
    BY <1>0, <1>1, HeldIsFound
  <2>6. RingFront(rest) = bl[2] /\ bl[2] \in Blocks
    <3>1. Tail(bl) # <<>> /\ Tail(bl)[1] = bl[2] /\ bl[2] \in Blocks
      <4>1. bl \in Seq(Blocks) /\ Len(bl) >= 2 /\ Len(bl) \in Nat
        BY <1>1, <2>3
      <4> HIDE DEF bl
      <4>2. Len(Tail(bl)) = Len(bl) - 1 /\ Tail(bl)[1] = bl[2]
        BY <4>1
      <4>3. Tail(bl) # <<>>
        <5>0. \A n \in Nat : n >= 2 => n - 1 # 0
          OBVIOUS
        <5>1. Len(Tail(bl)) # 0
          BY <4>1, <4>2, <5>0, Zenon
        <5>2. Len(<<>>) = 0
          OBVIOUS
        <5> QED
          BY <5>1, <5>2, Zenon
      <4>4. bl[2] \in Blocks
        BY <4>1
      <4> QED
        BY <4>2, <4>3, <4>4
    <3> HIDE DEF rest
    <3> QED
      BY <1>1, <2>4, <3>1, HeldIsFound
  <2>7. /\ cell' = [cell EXCEPT ![bl[2]][0] = Raw] /\ qbegin' = [block |-> bl[2], pos |-> 1]
        /\ destroyed' = {<<bl[2], 0>>}
    <3> DEFINE it == Iterator(bl[2])
    <3>1. it.block = bl[2] /\ it.pos = 0 /\ it \in Iterators /\ 0 + 1 = 1
      BY <1>1, <2>6 DEF Iterators, Iterator
    <3>2. [it EXCEPT !.pos = @ + 1] = [block |-> bl[2], pos |-> 1]
      <4> HIDE DEF it
      <4> QED
        BY <3>1, NextPosition
    <3> QED
      BY <2>1, <2>6, <3>1, <3>2
  <2>8. /\ freeBlocks' \cup lostBlocks' = fb \cup {bl[1]}
        /\ freeBlocks' \cap lostBlocks' = {}
    <3>1. bl[1] \in {bl[n] : n \in 1 .. Len(bl)}
      BY <1>1
    <3>2. bl[1] \notin lostBlocks
      BY <1>1, <3>1
    <3> HIDE DEF bl
    <3> QED
      BY <1>0, <1>2, <2>1, <2>5, <3>2
  <2>9. QueueHolds(cell', qbegin', qend', freeBlocks' \cup lostBlocks', queueSeq', Tail(bl))
    <3> HIDE DEF bl, fb
    <3> QED
      BY <1>2, <2>3, <2>7, <2>8
  <2>10. QueueInv' /\ Elements(map)' = Tail(bl)
    <3> HIDE DEF bl
    <3> QED
      BY <1>3, <2>1, <2>4, <2>8, <2>9, QueueInvNext
  <2> QED
    BY <1>2, <2>2, <2>3, <2>7, <2>10
<1>5. CASE ~ AtBlockEnd(qbegin)
  <2>1. /\ map' = map /\ freeBlocks' = freeBlocks
        /\ cell' = [cell EXCEPT ![qbegin.block][qbegin.pos] = Raw]
        /\ qbegin' = [qbegin EXCEPT !.pos = @ + 1]
        /\ destroyed' = {<<qbegin.block, qbegin.pos>>}
    BY <1>5 DEF QueuePop
  <2>2. qbegin' = [block |-> qbegin.block, pos |-> qbegin.pos + 1]
    BY <1>1, <2>1, NextPosition
  <2>3. qbegin.pos < PerBlock
    BY <1>1, <1>5 DEF AtBlockEnd
  <2>4. QueueHolds(cell', qbegin', qend', freeBlocks' \cup lostBlocks', queueSeq', bl)
    <3> HIDE DEF bl
    <3>1. QueueHolds([cell EXCEPT ![qbegin.block][qbegin.pos] = Raw],
                     [block |-> qbegin.block, pos |-> qbegin.pos + 1],
                     qend, fb, Tail(queueSeq), bl)
      BY <1>0, <1>2, <2>3, PopFromBlock
    <3> QED
      BY <1>2, <2>1, <2>2, <3>1
  <2>5. RingHolds(map', bl, Blocks) /\ freeBlocks' \cap lostBlocks' = {}
    BY <1>0, <1>2, <2>1
  <2>6. QueueInv' /\ Elements(map)' = bl
    <3> HIDE DEF bl
    <3> QED
      BY <1>3, <2>4, <2>5, QueueInvNext
  <2> QED
    BY <1>2, <2>1, <2>2, <2>3, <2>6
<1> QED
  BY <1>4, <1>5

\* Clear and ~Queue give back what is not the last block.
LEMMA DestroyAllDoes ==
    ASSUME QueueInv, DestroyAll
    PROVE  LET bl == Elements(map)
           IN  /\ cell' \in [Blocks -> [0 .. PerBlock - 1 -> QueueValues \cup {Raw}]]
               /\ destroyed' = ClearDestroys
               /\ KeptBlock = bl[Len(bl)] /\ KeptBlock \in Blocks
               /\ ClearedBlocks \subseteq Blocks /\ ClearedBlocks \cap lostBlocks = {}
               /\ KeptBlock \notin freeBlocks \cup lostBlocks \cup ClearedBlocks
               /\ freeBlocks \cup lostBlocks \cup ClearedBlocks = Blocks \ {KeptBlock}
<1> DEFINE bl == Elements(map)
           fb == freeBlocks \cup lostBlocks
           dead == ClearDestroys
           gone == ClearedBlocks
<1>1. /\ BlocksOnce(bl) /\ BlocksFree(bl, fb) /\ Len(bl) \in Nat \ {0} /\ bl \in Seq(Blocks)
      /\ cell \in [Blocks -> [0 .. PerBlock - 1 -> QueueValues \cup {Raw}]]
  BY QueueInvSays
<1>2. /\ gone = {bl[n] : n \in 1 .. Len(bl) - 1} /\ KeptBlock = bl[Len(bl)]
  BY DEF ClearedBlocks, KeptBlock
<1>3. /\ destroyed' = dead
      /\ cell' = [b \in Blocks |-> [i \in 0 .. PerBlock - 1 |->
                     IF b \in gone \/ <<b, i>> \in dead THEN Raw ELSE cell[b][i]]]
  BY DEF DestroyAll
<1> HIDE DEF bl, fb, dead, gone
<1>4. cell' \in [Blocks -> [0 .. PerBlock - 1 -> QueueValues \cup {Raw}]]
  BY <1>1, <1>3
<1>5. /\ bl[Len(bl)] \in Blocks /\ gone \subseteq Blocks /\ gone \cap fb = {}
      /\ fb \cup gone = Blocks \ {bl[Len(bl)]}
  <2>1. Len(bl) >= 1
    BY <1>1
  <2> QED
    BY <1>1, <1>2, <2>1, ClearedAndKept
<1>6. /\ gone \cap lostBlocks = {}
      /\ KeptBlock \notin freeBlocks \cup lostBlocks \cup gone
      /\ freeBlocks \cup lostBlocks \cup gone = Blocks \ {KeptBlock}
  BY <1>2, <1>5 DEF fb
<1> QED
  BY <1>2, <1>3, <1>4, <1>5, <1>6 DEF bl, dead, gone

\* What Clear leaves: an empty queue in the block it keeps.
LEMMA ClearDoes ==
    ASSUME QueueInv, QueueClear
    PROVE  /\ QueueInv' /\ Elements(map)' = <<KeptBlock>>
           /\ qbegin' = Iterator(KeptBlock) /\ qend' = Iterator(KeptBlock)
           /\ queueSeq' = <<>> /\ destroyed' = ClearDestroys
<1> DEFINE bl == Elements(map)
           last == KeptBlock
           gone == ClearedBlocks
           vec == [j \in DOMAIN map.vector |-> IF map.vector[j] = last THEN last ELSE Raw]
<1>0. RingHolds(map, bl, Blocks) /\ freeBlocks \cap lostBlocks = {}
  BY DEF QueueInv
<1>1. Len(bl) \in Nat \ {0} /\ BlocksOnce(bl) /\ Raw \notin Blocks
  BY QueueInvSays
<1>2. /\ DestroyAll
      /\ map' = [map EXCEPT !.begin = (map.begin + Len(bl) - 1) % SizeMod, !.size = 1,
                            !.vector = vec]
      /\ freeBlocks' = freeBlocks \cup gone /\ lostBlocks' = lostBlocks
      /\ qbegin' = Iterator(last) /\ qend' = Iterator(last)
      /\ qsize' = 0 /\ queueSeq' = <<>>
  BY DEF QueueClear, Restart
<1>3. /\ cell' \in [Blocks -> [0 .. PerBlock - 1 -> QueueValues \cup {Raw}]]
      /\ destroyed' = ClearDestroys
      /\ last = bl[Len(bl)] /\ last \in Blocks /\ gone \cap lostBlocks = {}
      /\ freeBlocks \cup lostBlocks \cup gone = Blocks \ {last}
  BY <1>2, DestroyAllDoes
<1> HIDE DEF last, gone
<1>4. map' = LastOnly(map, bl)
  <2>1. map \in RingRecords(Blocks)
    BY <1>0 DEF RingHolds, RingShape
  <2>2. map.begin + Len(bl) - 1 = map.begin + (Len(bl) - 1)
    <3>1. map.begin \in Nat
      BY <2>1 DEF RingRecords
    <3> QED
      BY <1>1, <3>1
  <2> HIDE DEF vec, bl
  <2>3. map' = [vector |-> vec, capacity |-> map.capacity, size |-> 1,
                begin |-> (map.begin + (Len(bl) - 1)) % SizeMod, end |-> map.end]
    BY <1>2, <2>1, <2>2 DEF RingRecords
  <2> QED
    BY <1>3, <2>3 DEF LastOnly, vec
<1>5. RingHolds(map', <<last>>, Blocks)
  <2>1. Len(bl) >= 1
    BY <1>1
  <2> QED
    BY <1>0, <1>1, <1>3, <1>4, <2>1, LastOnlyHolds
<1> HIDE DEF bl
<1>6. /\ freeBlocks' \cup lostBlocks' = Blocks \ {last}
      /\ freeBlocks' \cap lostBlocks' = {}
  BY <1>0, <1>2, <1>3
<1>7. QueueHolds(cell', qbegin', qend', freeBlocks' \cup lostBlocks', queueSeq', <<last>>)
  BY <1>2, <1>3, <1>6, EmptyQueueHolds
<1>8. qsize' = Len(queueSeq')
  BY <1>2
<1>9. QueueInv' /\ Elements(map)' = <<last>>
  BY <1>5, <1>6, <1>7, <1>8, QueueInvNext
<1> QED
  BY <1>2, <1>3, <1>9 DEF last

\* What the end of a queue and the next one leave.
LEMMA RenewDoes ==
    ASSUME QueueInv, NEW b \in Blocks, QueueRenew(b)
    PROVE  /\ QueueInv' /\ Elements(map)' = <<b>>
           /\ qbegin' = Iterator(b) /\ qend' = Iterator(b)
           /\ queueSeq' = <<>> /\ destroyed' = ClearDestroys
<1> DEFINE last == KeptBlock
           gone == ClearedBlocks
<1>0. freeBlocks \cap lostBlocks = {}
  BY DEF QueueInv
<1>2. /\ DestroyAll
      /\ b \in freeBlocks \cup gone
      /\ map' = PushBack(NewRing(1), b)
      /\ freeBlocks' = (freeBlocks \cup gone) \ {b} /\ lostBlocks' = lostBlocks \cup {last}
      /\ qbegin' = Iterator(b) /\ qend' = Iterator(b)
      /\ qsize' = 0 /\ queueSeq' = <<>>
  BY DEF QueueRenew, Restart
<1>3. /\ cell' \in [Blocks -> [0 .. PerBlock - 1 -> QueueValues \cup {Raw}]]
      /\ destroyed' = ClearDestroys
      /\ last \in Blocks /\ gone \cap lostBlocks = {}
      /\ last \notin freeBlocks \cup lostBlocks \cup gone
      /\ freeBlocks \cup lostBlocks \cup gone = Blocks \ {last}
  BY <1>2, DestroyAllDoes
<1> HIDE DEF last, gone
<1>4. RingHolds(map', <<b>>, Blocks)
  BY <1>2, NewMapHolds
<1>5. b \notin lostBlocks /\ b # last
  BY <1>0, <1>2, <1>3
<1>6. /\ freeBlocks' \cup lostBlocks' = Blocks \ {b}
      /\ freeBlocks' \cap lostBlocks' = {}
  BY <1>0, <1>2, <1>3, <1>5
<1>7. QueueHolds(cell', qbegin', qend', freeBlocks' \cup lostBlocks', queueSeq', <<b>>)
  BY <1>2, <1>3, <1>6, EmptyQueueHolds
<1>8. qsize' = Len(queueSeq')
  BY <1>2
<1>9. QueueInv' /\ Elements(map)' = <<b>>
  BY <1>4, <1>6, <1>7, <1>8, QueueInvNext
<1> QED
  BY <1>2, <1>3, <1>9

\* Every operation of the queue keeps it.
LEMMA QueueStep == QueueInv /\ [QueueNext]_blockQueueVars => QueueInv'
<1> SUFFICES ASSUME QueueInv, [QueueNext]_blockQueueVars PROVE QueueInv'
  OBVIOUS
<1>1. ASSUME NEW x \in QueueValues, NEW a \in Blocks, QueuePush(x, a) PROVE QueueInv'
  BY <1>1, PushDoes
<1>2. CASE QueuePop
  BY <1>2, PopDoes
<1>3. CASE QueueClear
  BY <1>3, ClearDoes
<1>4. ASSUME NEW b \in Blocks, QueueRenew(b) PROVE QueueInv'
  BY <1>4, RenewDoes
<1>5. CASE UNCHANGED blockQueueVars
  <2>1. /\ map' = map /\ cell' = cell /\ qbegin' = qbegin /\ qend' = qend /\ qsize' = qsize
        /\ freeBlocks' = freeBlocks /\ lostBlocks' = lostBlocks /\ queueSeq' = queueSeq
    BY <1>5 DEF blockQueueVars
  <2> DEFINE bl == Elements(map)
  <2>2. /\ RingHolds(map', bl, Blocks) /\ qsize' = Len(queueSeq')
        /\ QueueHolds(cell', qbegin', qend', freeBlocks' \cup lostBlocks', queueSeq', bl)
        /\ freeBlocks' \cap lostBlocks' = {}
    BY <2>1 DEF QueueInv
  <2> HIDE DEF bl
  <2> QED
    BY <2>2, QueueInvNext
<1> QED
  BY <1>1, <1>2, <1>3, <1>4, <1>5 DEF QueueNext

\* A new queue holds nothing.
LEMMA QueueStart == QueueInit => QueueInv
<1> SUFFICES ASSUME QueueInit PROVE QueueInv
  OBVIOUS
<1>1. PICK b \in Blocks :
        /\ map = PushBack(NewRing(1), b)
        /\ cell = [c \in Blocks |-> RawBlock(PerBlock)]
        /\ qbegin = Iterator(b) /\ qend = Iterator(b)
        /\ qsize = 0 /\ freeBlocks = Blocks \ {b} /\ lostBlocks = {} /\ queueSeq = <<>>
  BY DEF QueueInit
<1>2. RingHolds(map, <<b>>, Blocks)
  BY <1>1, NewMapHolds
<1>3. Elements(map) = <<b>>
  BY <1>2, QueueAssumption, HeldIsFound
<1>4. cell \in [Blocks -> [0 .. PerBlock - 1 -> QueueValues \cup {Raw}]]
  <2>1. RawBlock(PerBlock) \in [0 .. PerBlock - 1 -> QueueValues \cup {Raw}]
    BY DEF RawBlock
  <2> QED
    BY <1>1, <2>1
<1>5. freeBlocks \cup lostBlocks = Blocks \ {b} /\ freeBlocks \cap lostBlocks = {}
  BY <1>1
<1>6. QueueHolds(cell, qbegin, qend, freeBlocks \cup lostBlocks, queueSeq, <<b>>)
  BY <1>1, <1>4, <1>5, EmptyQueueHolds
<1> QED
  BY <1>1, <1>2, <1>3, <1>5, <1>6 DEF QueueInv

\* BlockQueue is a sequence: what its iterators find in the blocks of the map is
\* what Push was called with and Pop, Clear and ~Queue have not taken out, and a
\* block is in the map once, free, or was the last one of a queue that ended,
\* for every block size, every number of blocks, however they adjoin, and every
\* length.
THEOREM QueueStaysSequence == QueueSpec => []QueueIsSequence
<1>1. QueueInv => QueueIsSequence
  BY QueueHeldIsFound DEF QueueInv
<1> QED
  BY <1>1, QueueStart, QueueStep, PTL DEF QueueSpec

\* The slots of a queue's objects.
LEMMA HeldSlotsAre ==
    ASSUME NEW h
    PROVE  h \in HeldSlots <=>
               \E n \in 1 .. Len(Elements(map)), i \in 0 .. PerBlock - 1 :
                   InUse(qbegin, qend, Elements(map), n, i) /\ h = <<Elements(map)[n], i>>
<1> DEFINE bl == Elements(map)
<1>1. Slots = SlotsOf(qbegin, qend, bl)
  BY DEF Slots, SlotsOf, InUse, FirstSlot, LastSlot
<1>2. HeldSlots = {<<bl[s[1]], s[2]>> : s \in Slots}
  BY DEF HeldSlots
<1> HIDE DEF bl
<1>3. ASSUME h \in HeldSlots
      PROVE  \E n \in 1 .. Len(bl), i \in 0 .. PerBlock - 1 :
                 InUse(qbegin, qend, bl, n, i) /\ h = <<bl[n], i>>
  <2>1. PICK s \in SlotsOf(qbegin, qend, bl) : h = <<bl[s[1]], s[2]>>
    BY <1>1, <1>2, <1>3
  <2>2. s[1] \in 1 .. Len(bl) /\ s[2] \in 0 .. PerBlock - 1 /\ InUse(qbegin, qend, bl, s[1], s[2])
    BY DEF SlotsOf
  <2> QED
    BY <2>1, <2>2
<1>4. ASSUME NEW n \in 1 .. Len(bl), NEW i \in 0 .. PerBlock - 1,
             InUse(qbegin, qend, bl, n, i), h = <<bl[n], i>>
      PROVE  h \in HeldSlots
  <2>1. <<n, i>>[1] = n /\ <<n, i>>[2] = i /\ <<n, i>> \in (1 .. Len(bl)) \X (0 .. PerBlock - 1)
    OBVIOUS
  <2>2. <<n, i>> \in SlotsOf(qbegin, qend, bl)
    BY <1>4, <2>1 DEF SlotsOf
  <2> QED
    BY <1>1, <1>2, <1>4, <2>1, <2>2
<1> QED
  BY <1>3, <1>4 DEF bl

\* The same of the next state.
LEMMA HeldSlotsWillBe ==
    ASSUME NEW h
    PROVE  h \in HeldSlots' <=>
               \E n \in 1 .. Len(Elements(map)'), i \in 0 .. PerBlock - 1 :
                   InUse(qbegin', qend', Elements(map)', n, i) /\ h = <<Elements(map)'[n], i>>
<1> DEFINE bl == Elements(map)'
<1>1. Slots' = SlotsOf(qbegin', qend', bl)
  BY DEF Slots, SlotsOf, InUse, FirstSlot, LastSlot
<1>2. HeldSlots' = {<<bl[s[1]], s[2]>> : s \in Slots'}
  BY DEF HeldSlots
<1> HIDE DEF bl
<1>3. ASSUME h \in HeldSlots'
      PROVE  \E n \in 1 .. Len(bl), i \in 0 .. PerBlock - 1 :
                 InUse(qbegin', qend', bl, n, i) /\ h = <<bl[n], i>>
  <2>1. PICK s \in SlotsOf(qbegin', qend', bl) : h = <<bl[s[1]], s[2]>>
    BY <1>1, <1>2, <1>3
  <2>2. s[1] \in 1 .. Len(bl) /\ s[2] \in 0 .. PerBlock - 1 /\ InUse(qbegin', qend', bl, s[1], s[2])
    BY DEF SlotsOf
  <2> QED
    BY <2>1, <2>2
<1>4. ASSUME NEW n \in 1 .. Len(bl), NEW i \in 0 .. PerBlock - 1,
             InUse(qbegin', qend', bl, n, i), h = <<bl[n], i>>
      PROVE  h \in HeldSlots'
  <2>1. <<n, i>>[1] = n /\ <<n, i>>[2] = i /\ <<n, i>> \in (1 .. Len(bl)) \X (0 .. PerBlock - 1)
    OBVIOUS
  <2>2. <<n, i>> \in SlotsOf(qbegin', qend', bl)
    BY <1>4, <2>1 DEF SlotsOf
  <2> QED
    BY <1>1, <1>2, <1>4, <2>1, <2>2
<1> QED
  BY <1>3, <1>4 DEF bl

\* No object leaves in a Push.
LEMMA PushKeepsAll ==
    ASSUME QueueInv, NEW x \in QueueValues, NEW a \in Blocks, QueuePush(x, a)
    PROVE  destroyed' = HeldSlots \ HeldSlots'
<1> DEFINE bl == Elements(map)
           N == Len(bl)
<1>1. N \in Nat \ {0} /\ bl \in Seq(Blocks) /\ qend.pos \in 0 .. PerBlock /\ PerBlock \in Nat \ {0}
  BY QueueInvSays
<1>2. /\ qbegin' = qbegin /\ destroyed' = {}
      /\ \/ Elements(map)' = Append(bl, a) /\ qend' = [block |-> a, pos |-> 1]
         \/ Elements(map)' = bl /\ qend' = [block |-> qend.block, pos |-> qend.pos + 1]
  BY PushDoes
<1>3. ASSUME NEW h \in HeldSlots PROVE h \in HeldSlots'
  <2>1. PICK n \in 1 .. N, i \in 0 .. PerBlock - 1 : InUse(qbegin, qend, bl, n, i) /\ h = <<bl[n], i>>
    BY HeldSlotsAre
  <2> HIDE DEF bl, N
  <2>2. FirstSlot(qbegin, n) <= i /\ i < PerBlock /\ (n = N => i < qend.pos)
    BY <1>1, <2>1 DEF InUse, LastSlot, N
  <2>3. CASE Elements(map)' = Append(bl, a) /\ qend' = [block |-> a, pos |-> 1]
    <3> DEFINE bx == Append(bl, a)
    <3>1. Len(bx) = N + 1 /\ bx[n] = bl[n] /\ n \in 1 .. N + 1 /\ n # N + 1
      BY <1>1, <2>1 DEF N
    <3> HIDE DEF bx
    <3>2. InUse(qbegin', qend', bx, n, i)
      BY <1>2, <2>2, <3>1 DEF InUse, LastSlot
    <3>3. n \in 1 .. Len(bx) /\ h = <<bx[n], i>> /\ Elements(map)' = bx
      BY <2>1, <2>3, <3>1 DEF bx
    <3> QED
      BY <3>2, <3>3, HeldSlotsWillBe
  <2>4. CASE Elements(map)' = bl /\ qend' = [block |-> qend.block, pos |-> qend.pos + 1]
    <3>1. InUse(qbegin', qend', bl, n, i)
      <4>1. qend'.pos = qend.pos + 1
        BY <2>4
      <4>2. i < LastSlot(qend', bl, n)
        BY <1>1, <2>2, <4>1 DEF LastSlot, N
      <4> QED
        BY <1>2, <2>2, <4>2 DEF InUse
    <3> QED
      BY <2>1, <2>4, <3>1, HeldSlotsWillBe DEF N
  <2> QED
    BY <1>2, <2>3, <2>4
<1> QED
  BY <1>2, <1>3

\* In a Pop it is the first one.
LEMMA PopTakesFirst ==
    ASSUME QueueInv, QueuePop
    PROVE  destroyed' = HeldSlots \ HeldSlots'
<1> DEFINE bl == Elements(map)
           N == Len(bl)
           P == PerBlock
           b == qbegin.pos
           e == qend.pos
<1>1. /\ N \in Nat \ {0} /\ bl \in Seq(Blocks) /\ BlocksOnce(bl)
      /\ b \in 0 .. P /\ e \in 0 .. P /\ P \in Nat \ {0} /\ Len(queueSeq) \in Nat
      /\ Row(N) \in Nat /\ Row(N) + e = b + Len(queueSeq) /\ qbegin.block = bl[1]
  BY QueueInvSays
<1>2. /\ qend' = qend /\ queueSeq # <<>>
      /\ \/ /\ b = P /\ N >= 2 /\ Elements(map)' = Tail(bl)
            /\ qbegin' = [block |-> bl[2], pos |-> 1]
            /\ destroyed' = {<<bl[2], 0>>}
         \/ /\ b < P /\ Elements(map)' = bl
            /\ qbegin' = [block |-> qbegin.block, pos |-> b + 1]
            /\ destroyed' = {<<qbegin.block, b>>}
  BY PopDoes
<1>3. Len(queueSeq) > 0
  <2>1. queueSeq \in Seq(QueueValues)
    BY QueueInvSays
  <2> QED
    BY <1>1, <1>2, <2>1, EmptySeq
<1> HIDE DEF bl, N, P, b, e
<1>4. CASE /\ b < P /\ Elements(map)' = bl
           /\ qbegin' = [block |-> qbegin.block, pos |-> b + 1]
           /\ destroyed' = {<<qbegin.block, b>>}
  <2>0. qbegin'.pos = b + 1
    BY <1>4
  <2>1. 1 \in 1 .. N /\ b \in 0 .. P - 1 /\ InUse(qbegin, qend, bl, 1, b)
    <3>1. N = 1 => b < e
      BY <1>1, <1>3, RowFacts
    <3>2. 1 \in 1 .. N /\ b \in 0 .. P - 1
      BY <1>1, <1>4
    <3>3. FirstSlot(qbegin, 1) = b /\ LastSlot(qend, bl, 1) = IF 1 = N THEN e ELSE P
      BY DEF FirstSlot, LastSlot, N, P, b, e
    <3>4. b < IF 1 = N THEN e ELSE P
      BY <1>4, <3>1
    <3>5. b \in Int
      BY <1>1
    <3> QED
      BY <3>2, <3>3, <3>4, <3>5 DEF InUse
  <2>2. <<bl[1], b>> \in HeldSlots
    BY <2>1, HeldSlotsAre DEF bl, N, P
  <2>3. <<bl[1], b>> \notin HeldSlots'
    <3> SUFFICES ASSUME <<bl[1], b>> \in HeldSlots' PROVE FALSE
      OBVIOUS
    <3>1. PICK n \in 1 .. N, i \in 0 .. P - 1 :
            InUse(qbegin', qend', bl, n, i) /\ <<bl[1], b>> = <<bl[n], i>>
      BY <1>4, HeldSlotsWillBe DEF N, P
    <3>2. n = 1 /\ i = b
      BY <1>1, <2>1, <3>1 DEF BlocksOnce, N
    <3>3. b + 1 <= b
      BY <2>0, <3>1, <3>2 DEF InUse, FirstSlot
    <3> QED
      BY <1>1, <3>3
  <2>4. ASSUME NEW h \in HeldSlots, h \notin HeldSlots' PROVE h = <<bl[1], b>>
    <3>1. PICK n \in 1 .. N, i \in 0 .. P - 1 : InUse(qbegin, qend, bl, n, i) /\ h = <<bl[n], i>>
      BY HeldSlotsAre DEF bl, N, P
    <3>2. ~ InUse(qbegin', qend', bl, n, i)
      BY <1>4, <2>4, <3>1, HeldSlotsWillBe DEF N, P
    <3>3. n = 1 /\ b <= i /\ ~ (b + 1 <= i)
      BY <1>2, <2>0, <3>1, <3>2 DEF InUse, FirstSlot, LastSlot, b
    <3>4. i = b
      BY <1>1, <3>1, <3>3
    <3> QED
      BY <3>1, <3>3, <3>4
  <2> QED
    BY <1>1, <1>4, <2>2, <2>3, <2>4
<1>5. CASE /\ b = P /\ N >= 2 /\ Elements(map)' = Tail(bl)
           /\ qbegin' = [block |-> bl[2], pos |-> 1]
           /\ destroyed' = {<<bl[2], 0>>}
  <2> DEFINE bt == Tail(bl)
  <2>0. /\ qbegin'.pos = 1 /\ Len(bt) = N - 1 /\ 2 \in 1 .. N /\ 0 \in 0 .. P - 1
        /\ \A n \in 1 .. N - 1 : bt[n] = bl[n + 1] /\ n + 1 \in 1 .. N
    BY <1>1, <1>5 DEF N
  <2>1. Elements(map)' = bt
    BY <1>5
  <2> HIDE DEF bt
  <2>2. InUse(qbegin, qend, bl, 2, 0)
    <3>1. N = 2 => 0 < e
      <4>1. Row(2) = P
        <5>1. Row(1 + 1) = Row(1) + PerBlock /\ 1 + 1 = 2
          BY RowFacts
        <5> QED
          BY <1>1, <5>1, RowFacts DEF P
      <4> QED
        BY <1>1, <1>3, <1>5, <4>1
    <3> QED
      BY <1>1, <1>5, <2>0, <3>1 DEF InUse, FirstSlot, LastSlot, N, P, e
  <2>3. <<bl[2], 0>> \in HeldSlots
    BY <2>0, <2>2, HeldSlotsAre DEF bl, N, P
  <2>4. <<bl[2], 0>> \notin HeldSlots'
    <3> SUFFICES ASSUME <<bl[2], 0>> \in HeldSlots' PROVE FALSE
      OBVIOUS
    <3>1. PICK n \in 1 .. N - 1, i \in 0 .. P - 1 :
            InUse(qbegin', qend', bt, n, i) /\ <<bl[2], 0>> = <<bt[n], i>>
      BY <2>0, <2>1, HeldSlotsWillBe DEF P
    <3>2. n + 1 = 2 /\ i = 0
      BY <1>1, <2>0, <3>1 DEF BlocksOnce, N
    <3>3. n = 1
      BY <1>1, <3>1, <3>2
    <3>4. 1 <= 0
      BY <2>0, <3>1, <3>2, <3>3 DEF InUse, FirstSlot
    <3> QED
      BY <3>4
  <2>5. ASSUME NEW h \in HeldSlots, h \notin HeldSlots' PROVE h = <<bl[2], 0>>
    <3>1. PICK n \in 1 .. N, i \in 0 .. P - 1 : InUse(qbegin, qend, bl, n, i) /\ h = <<bl[n], i>>
      BY HeldSlotsAre DEF bl, N, P
    <3>2. n # 1
      <4>1. n = 1 => P <= i
        BY <1>5, <3>1 DEF InUse, FirstSlot, b
      <4> QED
        BY <1>1, <3>1, <4>1
    <3>3. n - 1 \in 1 .. N - 1 /\ bt[n - 1] = bl[n] /\ (n - 1 = N - 1 <=> n = N)
          /\ (n - 1 = 1 <=> n = 2)
      <4>1. n - 1 \in 1 .. N - 1 /\ n - 1 + 1 = n
        BY <1>1, <3>1, <3>2
      <4> QED
        BY <1>1, <2>0, <3>1, <4>1
    <3>4. ~ InUse(qbegin', qend', bt, n - 1, i)
      BY <2>0, <2>1, <2>5, <3>1, <3>3, HeldSlotsWillBe DEF P
    <3>5. i < LastSlot(qend', bt, n - 1)
      BY <1>2, <2>0, <3>1, <3>3 DEF InUse, LastSlot, N
    <3>6. ~ (FirstSlot(qbegin', n - 1) <= i)
      BY <3>4, <3>5 DEF InUse
    <3>7. n = 2 /\ i = 0
      BY <1>1, <2>0, <3>1, <3>3, <3>6 DEF FirstSlot
    <3> QED
      BY <3>1, <3>7
  <2> QED
    BY <1>5, <2>3, <2>4, <2>5
<1> QED
  BY <1>2, <1>4, <1>5

\* In a Clear it is all of them, but for those it passes over.
LEMMA ClearTakesAll ==
    ASSUME QueueInv, NEW c \in Blocks, Elements(map)' = <<c>>, qbegin' = Iterator(c),
           qend' = Iterator(c), queueSeq' = <<>>, destroyed' = ClearDestroys
    PROVE  ClearedRoughly(HeldSlots \ HeldSlots')
<1> DEFINE bl == Elements(map)
           N == Len(bl)
           P == PerBlock
           b == qbegin.pos
           e == qend.pos
<1>1. /\ N \in Nat \ {0} /\ bl \in Seq(Blocks) /\ BlocksOnce(bl)
      /\ b \in 0 .. P /\ e \in 0 .. P /\ P \in Nat \ {0}
      /\ qbegin.block = bl[1] /\ qend.block = bl[N]
  BY QueueInvSays
<1>2. qbegin'.pos = 0 /\ qend'.pos = 0
  BY DEF Iterator
<1>3. HeldSlots \ HeldSlots' = HeldSlots
  <2> SUFFICES ASSUME NEW h, h \in HeldSlots' PROVE FALSE
    OBVIOUS
  <2>1. PICK n \in 1 .. Len(<<c>>), i \in 0 .. P - 1 : InUse(qbegin', qend', <<c>>, n, i)
    BY HeldSlotsWillBe DEF P
  <2>2. n = Len(<<c>>)
    OBVIOUS
  <2>3. i < 0
    BY <1>2, <2>1, <2>2 DEF InUse, LastSlot
  <2> QED
    BY <1>1, <2>1, <2>3
<1>4. \A s : s \in ClearDestroys <=>
        /\ s \in QueueSlots
        /\ \/ s[1] = bl[1] /\ s[2] >= b
           \/ \E n \in 2 .. N : s[1] = bl[n] /\ s[2] < LoopEnd(s[1])
  BY DEF ClearDestroys
<1> HIDE DEF bl, N, P, b, e
<1>5. ASSUME NEW n \in 2 .. N
      PROVE  /\ n \in 1 .. N /\ bl[n] # bl[1]
             /\ n = N => LoopEnd(bl[n]) = e
             /\ n # N => \/ LoopEnd(bl[n]) = P
                         \/ LoopEnd(bl[n]) = 0 /\ AtBlockEnd(qend) /\ bl[n] = Behind[qend.block]
  <2>1. n \in 1 .. N /\ 1 \in 1 .. N /\ N \in 1 .. N /\ n # 1
    BY <1>1
  <2>2. bl[n] # bl[1] /\ (n # N => bl[n] # bl[N])
    BY <1>1, <2>1 DEF BlocksOnce, N
  <2>3. n = N => LoopEnd(bl[n]) = e
    BY <1>1 DEF LoopEnd, e
  <2>4. n # N => \/ LoopEnd(bl[n]) = P
                 \/ LoopEnd(bl[n]) = 0 /\ AtBlockEnd(qend) /\ bl[n] = Behind[qend.block]
    BY <1>1, <2>2 DEF LoopEnd, P
  <2> QED
    BY <2>1, <2>2, <2>3, <2>4
<1>6. HeldSlots \ SkippedSlots \subseteq ClearDestroys
  <2> SUFFICES ASSUME NEW h \in HeldSlots, h \notin SkippedSlots PROVE h \in ClearDestroys
    OBVIOUS
  <2>1. PICK n \in 1 .. N, i \in 0 .. P - 1 : InUse(qbegin, qend, bl, n, i) /\ h = <<bl[n], i>>
    BY HeldSlotsAre DEF bl, N, P
  <2>2. h[1] = bl[n] /\ h[2] = i /\ bl[n] \in Blocks /\ h \in QueueSlots
    BY <1>1, <2>1 DEF QueueSlots, N, P
  <2>3. (n = 1 => b <= i) /\ (n = N => i < e) /\ i < P
    BY <1>1, <2>1 DEF InUse, FirstSlot, LastSlot, N, b, e
  <2>4. CASE n = 1
    BY <1>1, <1>4, <2>1, <2>2, <2>3, <2>4
  <2>5. CASE n # 1
    <3>1. n \in 2 .. N
      BY <1>1, <2>1, <2>5
    <3>2. ~ (AtBlockEnd(qend) /\ bl[n] = Behind[qend.block])
      BY <1>1, <1>5, <2>2, <3>1 DEF SkippedSlots
    <3>3. i < LoopEnd(bl[n])
      BY <1>5, <2>3, <3>1, <3>2
    <3> QED
      BY <1>4, <2>2, <3>1, <3>3
  <2> QED
    BY <2>4, <2>5
<1>7. ClearDestroys \subseteq HeldSlots \cup UnbegunSlots
  <2> SUFFICES ASSUME NEW s \in ClearDestroys, s \notin UnbegunSlots PROVE s \in HeldSlots
    OBVIOUS
  <2>1. s \in QueueSlots /\ s[2] \in 0 .. P - 1 /\ s = <<s[1], s[2]>>
    BY <1>4 DEF QueueSlots, P
  <2>2. CASE s[1] = bl[1] /\ s[2] >= b
    <3>1. N = 1 => s[2] < e
      BY <1>1, <2>1, <2>2 DEF UnbegunSlots, N, bl, e
    <3>2. InUse(qbegin, qend, bl, 1, s[2]) /\ 1 \in 1 .. N
      BY <1>1, <2>1, <2>2, <3>1 DEF InUse, FirstSlot, LastSlot, N, P, b, e
    <3> QED
      BY <2>1, <2>2, <3>2, HeldSlotsAre DEF bl, N, P
  <2>3. CASE \E n \in 2 .. N : s[1] = bl[n] /\ s[2] < LoopEnd(s[1])
    <3>1. PICK n \in 2 .. N : s[1] = bl[n] /\ s[2] < LoopEnd(s[1])
      BY <2>3
    <3>2. n \in 1 .. N /\ n # 1 /\ (n = N => s[2] < e)
      BY <1>1, <1>5, <3>1
    <3>3. InUse(qbegin, qend, bl, n, s[2])
      BY <1>1, <2>1, <3>2 DEF InUse, FirstSlot, LastSlot, N, P, e
    <3> QED
      BY <2>1, <3>1, <3>2, <3>3, HeldSlotsAre DEF bl, N, P
  <2> QED
    BY <1>4, <2>2, <2>3
<1> QED
  BY <1>2, <1>3, <1>6, <1>7 DEF ClearedRoughly

\* ~T of a queue's objects runs when they leave it and for nothing else, but for
\* what Clear passes over behind a full last block and what it destroys behind
\* end_ of an only block, for every block size, every number of blocks, however
\* they adjoin, and every length.
THEOREM QueueDestroysWhatLeaves == QueueSpec => DestroysWhatLeaves
<1> DEFINE gone == HeldSlots \ HeldSlots'
<1>1. QueueInv /\ [QueueNext]_blockQueueVars =>
          [destroyed' = gone \/ ClearedRoughly(gone)]_blockQueueVars
  <2> SUFFICES ASSUME QueueInv, QueueNext
               PROVE  destroyed' = gone \/ ClearedRoughly(gone)
    OBVIOUS
  <2>1. ASSUME NEW x \in QueueValues, NEW a \in Blocks, QueuePush(x, a)
        PROVE  destroyed' = gone
    BY <2>1, PushKeepsAll
  <2>2. CASE QueuePop
    BY <2>2, PopTakesFirst
  <2>3. CASE QueueClear
    <3>1. KeptBlock \in Blocks
      BY <2>3, DestroyAllDoes DEF QueueClear
    <3> QED
      BY <2>3, <3>1, ClearDoes, ClearTakesAll
  <2>4. ASSUME NEW b \in Blocks, QueueRenew(b)
        PROVE  ClearedRoughly(gone)
    BY <2>4, RenewDoes, ClearTakesAll
  <2> QED
    BY <2>1, <2>2, <2>3, <2>4 DEF QueueNext
<1> QED
  BY <1>1, QueueStart, QueueStep, PTL DEF QueueSpec, DestroysWhatLeaves

-----------------------------------------------------------------------------
(* The stopwatch.                                                          *)

\* The numbers that the first k digits of ds make of n, one after the other.
Reads(n, ds, k, r) ==
    /\ r \in [0 .. k -> Nat] /\ r[0] = n
    /\ \A i \in 1 .. k : r[i] = 10 * r[i - 1] + ds[i]

\* There are such numbers, however many the digits.
LEMMA ReadsAll ==
    ASSUME NEW n \in Nat, NEW ds \in Seq(Nat)
    PROVE  \A k \in 0 .. Len(ds) : \E r : Reads(n, ds, k, r)
<1> DEFINE Bad == {k \in 0 .. Len(ds) : ~ \E r : Reads(n, ds, k, r)}
<1> SUFFICES ASSUME Bad # {} PROVE FALSE
  OBVIOUS
<1>0. Len(ds) \in Nat /\ Bad \subseteq Nat
  OBVIOUS
<1>1. PICK k \in Bad : \A j \in Bad : k <= j
  <2> HIDE DEF Bad
  <2> QED
    BY <1>0, LeastNumber
<1>2. k \in Nat /\ k <= Len(ds)
  BY <1>0, <1>1
<1>3. CASE k = 0
  <2>1. Reads(n, ds, k, [i \in 0 .. 0 |-> n])
    BY <1>3 DEF Reads
  <2> QED
    BY <1>1, <2>1
<1>4. CASE k # 0
  <2>1. k - 1 \in 0 .. Len(ds) /\ k - 1 \in Nat /\ ~ (k <= k - 1)
    BY <1>0, <1>2, <1>4
  <2>2. k - 1 \notin Bad
    <3> HIDE DEF Bad
    <3> QED
      BY <1>1, <2>1
  <2>3. PICK q : Reads(n, ds, k - 1, q)
    BY <2>1, <2>2
  <2> DEFINE r == [i \in 0 .. k |-> IF i < k THEN q[i] ELSE 10 * q[k - 1] + ds[k]]
  <2>4. ds[k] \in Nat
    BY <1>0, <1>2, <1>4
  <2>5. \A i \in 0 .. k - 1 : q[i] \in Nat
    BY <2>3 DEF Reads
  <2>6. r \in [0 .. k -> Nat] /\ r[0] = n
    BY <1>2, <1>4, <2>3, <2>4, <2>5 DEF Reads
  <2>7. ASSUME NEW i \in 1 .. k PROVE r[i] = 10 * r[i - 1] + ds[i]
    <3>1. i - 1 \in 0 .. k /\ i \in 0 .. k /\ i - 1 < k /\ (i = k \/ (i < k /\ i \in 1 .. k - 1))
      BY <1>2, <1>4
    <3>2. r[i - 1] = q[i - 1]
      BY <3>1
    <3>3. CASE i = k
      BY <3>1, <3>2, <3>3
    <3>4. CASE i < k /\ i \in 1 .. k - 1
      BY <2>3, <3>1, <3>2, <3>4 DEF Reads
    <3> QED
      BY <3>1, <3>3, <3>4
  <2>8. Reads(n, ds, k, r)
    BY <2>6, <2>7 DEF Reads
  <2> QED
    BY <1>1, <2>8
<1> QED
  BY <1>3, <1>4

\* And only these.
LEMMA ReadsAgree ==
    ASSUME NEW n, NEW ds, NEW es, NEW k \in Nat, NEW q, NEW r,
           Reads(n, ds, k, q), Reads(n, es, k, r), \A i \in 1 .. k : ds[i] = es[i]
    PROVE  \A i \in 0 .. k : q[i] = r[i]
<1> DEFINE Apart == {i \in 0 .. k : q[i] # r[i]}
<1> SUFFICES ASSUME Apart # {} PROVE FALSE
  OBVIOUS
<1>0. Apart \subseteq Nat
  OBVIOUS
<1>1. PICK i \in Apart : \A j \in Apart : i <= j
  <2> HIDE DEF Apart
  <2> QED
    BY <1>0, LeastNumber
<1>2. i \in 0 .. k /\ q[i] # r[i]
  BY <1>1
<1>3. i # 0
  BY <1>2 DEF Reads
<1>4. i \in 1 .. k /\ i - 1 \in 0 .. k /\ ~ (i <= i - 1)
  BY <1>2, <1>3
<1>5. i - 1 \notin Apart
  <2> HIDE DEF Apart
  <2> QED
    BY <1>1, <1>4
<1>6. q[i - 1] = r[i - 1]
  BY <1>4, <1>5
<1>7. q[i] = 10 * q[i - 1] + ds[i] /\ r[i] = 10 * r[i - 1] + es[i] /\ ds[i] = es[i]
  BY <1>4 DEF Reads
<1> QED
  BY <1>2, <1>6, <1>7

\* Digits is the last of them: its recursion has a solution.
LEMMA DigitsIs ==
    ASSUME NEW n \in Nat, NEW ds \in Seq(Nat)
    PROVE  \E r : Reads(n, ds, Len(ds), r) /\ Digits(n, ds) = r[Len(ds)]
<1> DEFINE Is(f) == f = [i \in 0 .. Len(ds) |-> IF i = 0 THEN n ELSE 10 * f[i - 1] + ds[i]]
           res == CHOOSE f : Is(f)
<1>0. Len(ds) \in Nat
  OBVIOUS
<1>1. PICK r : Reads(n, ds, Len(ds), r)
  BY <1>0, ReadsAll
<1>2. Is(r)
  <2> DEFINE s == [i \in 0 .. Len(ds) |-> IF i = 0 THEN n ELSE 10 * r[i - 1] + ds[i]]
  <2>1. \A i \in 0 .. Len(ds) : r[i] = s[i]
    BY <1>0, <1>1 DEF Reads
  <2>2. r = [i \in 0 .. Len(ds) |-> r[i]]
    BY <1>1 DEF Reads
  <2> QED
    BY <2>1, <2>2
<1>3. Is(res)
  <2> HIDE DEF Is
  <2> QED
    BY <1>2, Zenon
<1>4. Digits(n, ds) = res[Len(ds)]
  BY Zenon DEF Digits
<1> HIDE DEF res
<1>5. res[0] = n /\ \A i \in 1 .. Len(ds) : res[i] = 10 * res[i - 1] + ds[i]
  <2>1. 0 \in 0 .. Len(ds) /\ \A i \in 1 .. Len(ds) : i \in 0 .. Len(ds) /\ i # 0
    BY <1>0
  <2>2. \A i \in 0 .. Len(ds) : res[i] = IF i = 0 THEN n ELSE 10 * res[i - 1] + ds[i]
    BY <1>3, Zenon
  <2> QED
    BY <2>1, <2>2, Zenon
<1>6. \A i \in 0 .. Len(ds) : res[i] \in Nat
  <2> DEFINE Odd == {i \in 0 .. Len(ds) : res[i] \notin Nat}
  <2> SUFFICES ASSUME Odd # {} PROVE FALSE
    OBVIOUS
  <2>0. Odd \subseteq Nat
    OBVIOUS
  <2>1. PICK i \in Odd : \A j \in Odd : i <= j
    <3> HIDE DEF Odd
    <3> QED
      BY <2>0, LeastNumber
  <2>2. i \in 1 .. Len(ds) /\ i - 1 \in 0 .. Len(ds) /\ ~ (i <= i - 1)
    BY <1>0, <1>5, <2>1
  <2>3. i - 1 \notin Odd
    <3> HIDE DEF Odd
    <3> QED
      BY <2>1, <2>2
  <2>4. res[i - 1] \in Nat /\ ds[i] \in Nat
    BY <2>2, <2>3
  <2> QED
    BY <1>5, <2>1, <2>2, <2>4
<1>7. res \in [0 .. Len(ds) -> Nat]
  <2>1. res = [i \in 0 .. Len(ds) |-> res[i]]
    <3> DEFINE g(i) == IF i = 0 THEN n ELSE 10 * res[i - 1] + ds[i]
    <3>1. res = [i \in 0 .. Len(ds) |-> g(i)]
      BY <1>3
    <3> HIDE DEF g
    <3> QED
      BY <3>1, Zenon
  <2> QED
    BY <1>6, <2>1
<1> QED
  BY <1>4, <1>5, <1>7 DEF Reads

\* The digits of ds, up to any numbers that read them.
LEMMA DigitsAre ==
    ASSUME NEW n \in Nat, NEW ds \in Seq(Nat), NEW q, Reads(n, ds, Len(ds), q)
    PROVE  Digits(n, ds) = q[Len(ds)] /\ Digits(n, ds) \in Nat
<1>1. PICK r : Reads(n, ds, Len(ds), r) /\ Digits(n, ds) = r[Len(ds)]
  BY DigitsIs
<1>2. Len(ds) \in Nat /\ Len(ds) \in 0 .. Len(ds)
  OBVIOUS
<1>3. r[Len(ds)] = q[Len(ds)]
  BY <1>1, <1>2, ReadsAgree
<1> QED
  BY <1>1, <1>2, <1>3 DEF Reads

\* Digits make a number.
LEMMA DigitsNat ==
    ASSUME NEW n \in Nat, NEW ds \in Seq(Nat)
    PROVE  Digits(n, ds) \in Nat
  BY DigitsIs, DigitsAre

\* Digits behind digits.
LEMMA DigitsConcat ==
    ASSUME NEW n \in Nat, NEW ds \in Seq(Nat), NEW es \in Seq(Nat)
    PROVE  Digits(n, ds \o es) = Digits(Digits(n, ds), es)
<1> DEFINE a == Len(ds)
           b == Len(es)
           m == Digits(n, ds)
<1>1. a \in Nat /\ b \in Nat
  OBVIOUS
<1>2. /\ ds \o es \in Seq(Nat) /\ Len(ds \o es) = a + b
      /\ \A i \in 1 .. a + b : (ds \o es)[i] = IF i <= a THEN ds[i] ELSE es[i - a]
  BY ConcatProperties
<1>3. PICK q : Reads(n, ds, a, q) /\ m = q[a]
  BY DigitsIs
<1>4. m \in Nat
  BY DigitsNat
<1> HIDE DEF m
<1>5. PICK p : Reads(m, es, b, p) /\ Digits(m, es) = p[b]
  BY <1>4, DigitsIs
<1> HIDE DEF a, b
<1> DEFINE r == [i \in 0 .. a + b |-> IF i <= a THEN q[i] ELSE p[i - a]]
<1>6. r \in [0 .. a + b -> Nat] /\ r[0] = n
  BY <1>1, <1>3, <1>5 DEF Reads
<1>7. ASSUME NEW i \in 1 .. a + b PROVE r[i] = 10 * r[i - 1] + (ds \o es)[i]
  <2>1. i \in 0 .. a + b /\ i - 1 \in 0 .. a + b
    BY <1>1
  <2>2. CASE i <= a
    <3>1. r[i] = q[i] /\ r[i - 1] = q[i - 1] /\ (ds \o es)[i] = ds[i] /\ i \in 1 .. a
      BY <1>1, <1>2, <2>1, <2>2
    <3> QED
      BY <1>3, <3>1 DEF Reads
  <2>3. CASE i > a
    <3>1. i - a \in 1 .. b /\ (i - 1) - a = (i - a) - 1 /\ ~ (i <= a)
      BY <1>1, <2>3
    <3>2. r[i] = p[i - a] /\ (ds \o es)[i] = es[i - a]
      <4>1. (ds \o es)[i] = IF i <= a THEN ds[i] ELSE es[i - a]
        BY <1>2, Zenon
      <4> QED
        BY <2>1, <3>1, <4>1, Zenon
    <3>3. r[i - 1] = p[(i - a) - 1]
      <4>1. CASE i - 1 = a
        <5>1. r[i - 1] = q[a] /\ (i - a) - 1 = 0
          BY <1>1, <2>1, <4>1
        <5> QED
          BY <1>3, <1>5, <5>1 DEF Reads
      <4>2. CASE ~ (i - 1 <= a)
        BY <2>1, <3>1, <4>2
      <4> QED
        BY <1>1, <2>3, <4>1, <4>2
    <3>4. p[i - a] = 10 * p[(i - a) - 1] + es[i - a]
      BY <1>5, <3>1 DEF Reads
    <3> QED
      BY <3>2, <3>3, <3>4
  <2>4. i <= a \/ i > a
    BY <1>1
  <2> QED
    BY <2>2, <2>3, <2>4, Zenon
<1>8. Reads(n, ds \o es, Len(ds \o es), r)
  BY <1>2, <1>6, <1>7 DEF Reads
<1>9. r[a + b] = p[b]
  <2>1. CASE b = 0
    BY <1>1, <1>3, <1>5, <2>1 DEF Reads
  <2>2. CASE b # 0
    BY <1>1, <2>2
  <2> QED
    BY <2>1, <2>2
<1> HIDE DEF r
<1>10. Digits(n, ds \o es) = r[a + b]
  <2>1. Digits(n, ds \o es) = r[Len(ds \o es)]
    BY <1>2, <1>8, DigitsAre, Zenon
  <2> QED
    BY <1>2, <2>1, Zenon
<1> QED
  BY <1>5, <1>9, <1>10 DEF m

\* Zeros are digits, one run of them behind another is a run.
LEMMA ZerosAre ==
    ASSUME NEW k \in Nat, NEW l \in Nat
    PROVE  /\ Zeros(k) \in Seq(Nat) /\ Len(Zeros(k)) = k
           /\ \A i \in 1 .. k : Zeros(k)[i] = 0
           /\ Zeros(k) \o Zeros(l) = Zeros(k + l)
<1>1. ASSUME NEW j \in Nat
      PROVE  Zeros(j) \in Seq(Nat) /\ Len(Zeros(j)) = j /\ \A i \in 1 .. j : Zeros(j)[i] = 0
  <2>1. \A i \in 1 .. j : 0 \in Nat
    OBVIOUS
  <2>2. Zeros(j) \in Seq(Nat)
    BY <2>1, IsASeq DEF Zeros
  <2>3. DOMAIN Zeros(j) = 1 .. j
    BY DEF Zeros
  <2>4. Len(Zeros(j)) = j
    BY <2>2, <2>3, LenProperties
  <2> QED
    BY <2>2, <2>4 DEF Zeros
<1>2. /\ Zeros(k) \o Zeros(l) \in Seq(Nat) /\ Len(Zeros(k) \o Zeros(l)) = k + l
      /\ \A i \in 1 .. k + l :
           (Zeros(k) \o Zeros(l))[i] = IF i <= k THEN Zeros(k)[i] ELSE Zeros(l)[i - k]
  <2>1. /\ Zeros(k) \in Seq(Nat) /\ Len(Zeros(k)) = k
        /\ Zeros(l) \in Seq(Nat) /\ Len(Zeros(l)) = l
    BY <1>1, Zenon
  <2>2. \A s, t \in Seq(Nat) :
          /\ s \o t \in Seq(Nat) /\ Len(s \o t) = Len(s) + Len(t)
          /\ \A i \in 1 .. Len(s) + Len(t) :
               (s \o t)[i] = IF i <= Len(s) THEN s[i] ELSE t[i - Len(s)]
    BY ConcatProperties, Zenon
  <2> DEFINE s == Zeros(k)
             t == Zeros(l)
  <2> HIDE DEF s, t
  <2>3. s \in Seq(Nat) /\ Len(s) = k /\ t \in Seq(Nat) /\ Len(t) = l
    BY <2>1, Zenon DEF s, t
  <2>4. /\ s \o t \in Seq(Nat) /\ Len(s \o t) = k + l
        /\ \A i \in 1 .. k + l : (s \o t)[i] = IF i <= k THEN s[i] ELSE t[i - k]
    BY <2>2, <2>3
  <2> QED
    BY <2>4, Zenon DEF s, t
<1>3. \A i \in 1 .. k + l : (Zeros(k) \o Zeros(l))[i] = Zeros(k + l)[i]
  <2> TAKE i \in 1 .. k + l
  <2>1. Zeros(k + l)[i] = 0
    BY <1>1
  <2>2. (i <= k => i \in 1 .. k) /\ (~ (i <= k) => i - k \in 1 .. l)
    OBVIOUS
  <2>3. i <= k => (Zeros(k) \o Zeros(l))[i] = 0
    BY <1>1, <1>2, <2>2, Zenon
  <2>4. ~ (i <= k) => (Zeros(k) \o Zeros(l))[i] = 0
    BY <1>1, <1>2, <2>2, Zenon
  <2> QED
    BY <2>1, <2>3, <2>4, Zenon
<1>4. k + l \in Nat
  OBVIOUS
<1> QED
  BY <1>1, <1>2, <1>3, <1>4, SeqEqual

\* Zeros multiply by a power of ten.
LEMMA ZerosMultiply ==
    ASSUME NEW n \in Nat, NEW k \in Nat
    PROVE  Digits(n, Zeros(k)) = n * PowerOfTen(k) /\ PowerOfTen(k) \in Nat
<1>1. Zeros(k) \in Seq(Nat) /\ Len(Zeros(k)) = k /\ \A i \in 1 .. k : Zeros(k)[i] = 0
  BY ZerosAre
<1>2. PICK q : Reads(1, Zeros(k), k, q) /\ PowerOfTen(k) = q[k]
  BY <1>1, DigitsIs DEF PowerOfTen
<1> DEFINE r == [i \in 0 .. k |-> n * q[i]]
<1>3. \A i \in 0 .. k : q[i] \in Nat /\ r[i] = n * q[i] /\ r[i] \in Nat
  BY <1>2 DEF Reads
<1>4. r \in [0 .. k -> Nat] /\ r[0] = n
  <2>1. 0 \in 0 .. k /\ q[0] = 1
    BY <1>2 DEF Reads
  <2>2. r[0] = n * 1
    BY <2>1
  <2> QED
    BY <1>3, <2>2
<1> HIDE DEF r
<1>5. ASSUME NEW i \in 1 .. k PROVE r[i] = 10 * r[i - 1] + Zeros(k)[i]
  <2>1. i \in 0 .. k /\ i - 1 \in 0 .. k
    OBVIOUS
  <2>2. q[i] = 10 * q[i - 1]
    BY <1>1, <1>2, <1>3, <2>1 DEF Reads
  <2>3. \A x \in Nat : n * (10 * x) = 10 * (n * x) + 0
    OBVIOUS
  <2> QED
    BY <1>1, <1>3, <2>1, <2>2, <2>3
<1>6. Reads(n, Zeros(k), Len(Zeros(k)), r)
  BY <1>1, <1>4, <1>5 DEF Reads
<1>7. Digits(n, Zeros(k)) = r[k]
  BY <1>1, <1>6, DigitsAre
<1>8. k \in 0 .. k
  OBVIOUS
<1> QED
  BY <1>2, <1>3, <1>7, <1>8

\* Powers of ten multiply.
LEMMA PowersMultiply ==
    ASSUME NEW k \in Nat, NEW l \in Nat
    PROVE  PowerOfTen(k + l) = PowerOfTen(k) * PowerOfTen(l)
<1>1. Zeros(k) \o Zeros(l) = Zeros(k + l) /\ Zeros(k) \in Seq(Nat) /\ Zeros(l) \in Seq(Nat)
  BY ZerosAre
<1>2. Digits(1, Zeros(k + l)) = Digits(Digits(1, Zeros(k)), Zeros(l))
  <2>1. 1 \in Nat
    OBVIOUS
  <2>2. Digits(1, Zeros(k) \o Zeros(l)) = Digits(Digits(1, Zeros(k)), Zeros(l))
    BY <1>1, <2>1, DigitsConcat, Zenon
  <2> QED
    BY <1>1, <2>2, Zenon
<1>3. PowerOfTen(k) \in Nat
  BY ZerosMultiply
<1>4. Digits(PowerOfTen(k), Zeros(l)) = PowerOfTen(k) * PowerOfTen(l)
  BY <1>3, ZerosMultiply
<1> QED
  BY <1>2, <1>4 DEF PowerOfTen

\* The frequency is in Hz, however many decimals the line has.
LEMMA ReadsHz ==
    ASSUME NEW line \in CpuLines
    PROVE  /\ ReadCpuFrequency(line) \in Nat
           /\ ReadCpuFrequency(line) * PowerOfTen(Len(line.fraction)) =
                 Digits(0, line.mhz \o line.fraction) * PowerOfTen(MhzDigits)
<1> DEFINE a == line.mhz
           b == line.fraction
           l == Len(b)
           x == Digits(0, a \o b)
<1>1. a \in Seq(0 .. 9) /\ b \in Seq(0 .. 9) /\ l <= MhzDigits /\ MhzDigits \in Nat
  BY PerSecondAssumption
<1>2. a \in Seq(Nat) /\ b \in Seq(Nat) /\ l \in Nat
  <2>1. Seq(0 .. 9) \subseteq Seq(Nat)
    OBVIOUS
  <2> QED
    BY <1>1, <2>1
<1>3. x = Digits(Digits(0, a), b) /\ x \in Nat
  <2>1. x = Digits(Digits(0, a), b)
    BY <1>2, DigitsConcat
  <2>2. Digits(0, a) \in Nat
    BY <1>2, DigitsNat
  <2> QED
    BY <1>2, <2>1, <2>2, DigitsNat
<1> HIDE DEF x
<1>4. MhzDigits - l \in Nat /\ (MhzDigits - l) + l = MhzDigits
  BY <1>1, <1>2
<1>5. ReadCpuFrequency(line) = Digits(x, Zeros(MhzDigits - l))
  BY <1>3 DEF ReadCpuFrequency
<1>6. ReadCpuFrequency(line) = x * PowerOfTen(MhzDigits - l) /\ PowerOfTen(MhzDigits - l) \in Nat
  BY <1>3, <1>4, <1>5, ZerosMultiply
<1>7. PowerOfTen(MhzDigits) = PowerOfTen(MhzDigits - l) * PowerOfTen(l)
  <2> HIDE DEF l
  <2>1. PowerOfTen((MhzDigits - l) + l) = PowerOfTen(MhzDigits - l) * PowerOfTen(l)
    BY <1>2, <1>4, PowersMultiply
  <2> QED
    BY <1>4, <2>1
<1>8. PowerOfTen(l) \in Nat
  BY <1>2, ZerosMultiply
<1>9. \A u, v, w \in Nat : (u * v) * w = u * (v * w) /\ u * v \in Nat
  OBVIOUS
<1>10. ReadCpuFrequency(line) \in Nat
  BY <1>3, <1>6, <1>9
<1>11. ReadCpuFrequency(line) * PowerOfTen(l) = x * PowerOfTen(MhzDigits)
  BY <1>3, <1>6, <1>7, <1>8, <1>9
<1> QED
  BY <1>10, <1>11 DEF x

\* The frequency is that of the line, and the counter is as far behind Start as
\* time has passed, around the end of its word.
StopwatchInv ==
    /\ cpuinfo \in CpuLines /\ freq = ReadInvariantCpuFrequency(cpuinfo)
    /\ counter \in 0 .. CountMod - 1 /\ start \in 0 .. CountMod - 1
    /\ ticks \in 0 .. CountMod - 1
    /\ counter = (start + ticks) % CountMod

\* The counter and Start keep it.
LEMMA StopwatchStep == StopwatchInv /\ [StopwatchNext]_stopwatchVars => StopwatchInv'
<1> SUFFICES ASSUME StopwatchInv, [StopwatchNext]_stopwatchVars PROVE StopwatchInv'
  OBVIOUS
<1>0. CountMod \in Nat \ {0}
  BY PerSecondAssumption
<1>1. CASE CounterRuns
  <2>1. ticks + 1 \in 0 .. CountMod - 1 /\ ticks \in Nat /\ start \in Nat /\ start + ticks \in Nat
    BY <1>0, <1>1 DEF CounterRuns, StopwatchInv
  <2>2. counter' = (((start + ticks) % CountMod) + 1) % CountMod
    BY <1>1 DEF CounterRuns, Wrap, StopwatchInv
  <2>3. counter' = ((start + ticks) + 1) % CountMod
    BY <1>0, <2>1, <2>2, NextTurn
  <2>4. (start + ticks) + 1 = start + (ticks + 1) /\ (start + ticks) + 1 \in Nat
    BY <2>1
  <2>5. counter' \in 0 .. CountMod - 1
    BY <1>0, <2>3, <2>4, DivMod
  <2> QED
    BY <1>1, <2>1, <2>3, <2>4, <2>5 DEF CounterRuns, StopwatchInv
<1>2. CASE StartTimer
  <2>1. counter % CountMod = counter /\ counter + 0 = counter
    BY <1>0 DEF StopwatchInv
  <2> QED
    BY <1>0, <1>2, <2>1 DEF StartTimer, StopwatchInv
<1>3. CASE UNCHANGED stopwatchVars
  BY <1>3 DEF stopwatchVars, StopwatchInv
<1> QED
  BY <1>1, <1>2, <1>3 DEF StopwatchNext

\* A difference that did not wrap.
LEMMA DiffIs ==
    ASSUME NEW a \in Nat, NEW b \in Nat, b <= a, a < CountMod
    PROVE  Diff(a, b) = a - b
<1>0. CountMod \in Nat \ {0}
  BY PerSecondAssumption
<1>1. b % CountMod = b
  BY <1>0, NoTurn
<1>2. (1 * CountMod + (a - b)) % CountMod = a - b
  BY <1>0, Remainder
<1>3. a + CountMod - b = 1 * CountMod + (a - b)
  BY <1>0
<1> QED
  BY <1>1, <1>2, <1>3 DEF Diff, Wrap

\* Elapsed is the time since Start.
LEMMA ElapsedIs == StopwatchInv => Elapsed = ticks
<1> SUFFICES ASSUME StopwatchInv PROVE Elapsed = ticks
  OBVIOUS
<1>0. /\ CountMod \in Nat \ {0} /\ start \in Nat /\ start < CountMod
      /\ ticks \in Nat /\ ticks < CountMod /\ counter = (start + ticks) % CountMod
  BY PerSecondAssumption DEF StopwatchInv
<1>1. CASE start + ticks < CountMod
  <2>1. counter = start + ticks
    BY <1>0, <1>1, NoTurn
  <2>2. Diff(counter, start) = counter - start
    BY <1>0, <1>1, <2>1, DiffIs
  <2> QED
    BY <1>0, <2>1, <2>2 DEF Elapsed
<1>2. CASE ~ (start + ticks < CountMod)
  <2>1. start + ticks = 1 * CountMod + (start + ticks - CountMod)
        /\ start + ticks - CountMod \in Nat /\ start + ticks - CountMod < CountMod
    BY <1>0, <1>2
  <2>2. counter = start + ticks - CountMod
    BY <1>0, <2>1, Remainder
  <2>3. start % CountMod = start /\ ticks % CountMod = ticks
    BY <1>0, NoTurn
  <2>4. counter + CountMod - start = ticks
    BY <1>0, <2>2
  <2> QED
    BY <2>3, <2>4 DEF Elapsed, Diff, Wrap
<1> QED
  BY <1>1, <1>2

\* Within a second, or with a counter of nanoseconds, the conversion is exact.
LEMMA ConversionIs ==
    ASSUME NEW t \in Nat, t < CountMod, t * PerSecond < CountMod, freq \in Nat \ {0},
           t < freq \/ freq = PerSecond
    PROVE  ToNonoseconds(t) = (t * PerSecond) \div freq
<1>0. CountMod \in Nat \ {0} /\ PerSecond \in Nat \ {0}
  BY PerSecondAssumption
<1> DEFINE sec == t \div freq
           nsec == Wrap(Diff(t, sec * PerSecond) * PerSecond) \div freq
<1>1. ToNonoseconds(t) = Wrap(sec * PerSecond + nsec)
  BY DEF ToNonoseconds
<1>2. t * PerSecond \in Nat
  BY <1>0
<1>3. CASE t < freq
  <2>1. t = 0 * freq + t
    OBVIOUS
  <2>2. sec = 0
    BY <1>3, <2>1, Quotient
  <2>3. sec * PerSecond = 0
    BY <1>0, <2>2
  <2>4. Diff(t, 0) = t
    BY <1>0, DiffIs
  <2>5. (t * PerSecond) % CountMod = t * PerSecond
    BY <1>0, <1>2, NoTurn
  <2>6. nsec = (t * PerSecond) \div freq
    BY <2>3, <2>4, <2>5 DEF Wrap
  <2> DEFINE x == t * PerSecond
             y == x \div freq
  <2>7. x = y * freq + (x % freq) /\ y \in Nat /\ x % freq \in Nat /\ x \in Nat
    <3>1. x \in Nat
      BY <1>2
    <3> HIDE DEF x
    <3>2. \A z \in 0 .. freq - 1 : z \in Nat
      OBVIOUS
    <3>3. x = (x \div freq) * freq + (x % freq) /\ x \div freq \in Nat /\ x % freq \in 0 .. freq - 1
      BY <3>1, DivMod, Zenon
    <3> QED
      BY <3>1, <3>2, <3>3, Zenon
  <2> HIDE DEF x, y, nsec, sec
  <2>8. y <= x
    <3>1. y * freq >= y
      BY <2>7
    <3> QED
      BY <2>7, <3>1
  <2>9. y % CountMod = y /\ x < CountMod
    <3>1. x < CountMod
      BY DEF x
    <3>2. y < CountMod
      BY <1>0, <2>7, <2>8, <3>1
    <3> QED
      BY <1>0, <2>7, <3>1, <3>2, NoTurn
  <2>10. sec * PerSecond + nsec = y
    BY <2>3, <2>6, <2>7 DEF x, y
  <2> QED
    BY <1>1, <2>9, <2>10 DEF Wrap, x, y
<1>4. CASE freq = PerSecond
  <2> DEFINE r == t % PerSecond
  <2>1. t = sec * PerSecond + r /\ sec \in Nat /\ r \in 0 .. PerSecond - 1
    BY <1>0, <1>4, DivMod
  <2> HIDE DEF sec, r
  <2> DEFINE p == sec * PerSecond
  <2>2. p \in Nat /\ p <= t /\ t - p = r /\ r \in Nat /\ r <= t
    BY <1>0, <2>1
  <2> HIDE DEF p
  <2>3. Diff(t, p) = r
    BY <1>0, <2>2, DiffIs
  <2>4. r * PerSecond \in Nat /\ r * PerSecond <= t * PerSecond
    BY <1>0, <2>2
  <2>5. (r * PerSecond) % CountMod = r * PerSecond
    BY <1>0, <1>2, <2>4, NoTurn
  <2>6. (r * PerSecond + 0) \div PerSecond = r
    BY <1>0, <2>2, Quotient
  <2>7. nsec = r
    BY <1>0, <1>4, <2>2, <2>3, <2>4, <2>5, <2>6 DEF Wrap, p
  <2>8. (t * PerSecond + 0) \div PerSecond = t
    BY <1>0, Quotient
  <2> HIDE DEF nsec
  <2>9. sec * PerSecond + nsec = t
    BY <2>2, <2>7 DEF p
  <2>10. t % CountMod = t
    BY <1>0, NoTurn
  <2>11. t * PerSecond + 0 = t * PerSecond
    BY <1>2
  <2> QED
    BY <1>1, <1>4, <2>8, <2>9, <2>10, <2>11 DEF Wrap
<1> QED
  BY <1>3, <1>4

\* Timer::Elapsed().ToNonoseconds() is the time that passed since Start, for
\* every word size and every frequency that ReadCpuFrequency finds, where the
\* conversion is exact at all; and that frequency is in Hz.
THEOREM StopwatchIsRight == StopwatchSpec => []ElapsedIsRight
<1>0. CountMod \in Nat \ {0}
  BY PerSecondAssumption
<1>1. StopwatchInit => StopwatchInv
  <2> SUFFICES ASSUME StopwatchInit PROVE StopwatchInv
    OBVIOUS
  <2>1. counter \in Nat /\ counter < CountMod /\ start = counter /\ ticks = 0
    BY <1>0 DEF StopwatchInit
  <2>2. (start + ticks) % CountMod = counter
    BY <1>0, <2>1, NoTurn
  <2> QED
    BY <1>0, <2>1, <2>2 DEF StopwatchInit, StopwatchInv
<1>2. StopwatchInv => ElapsedIsRight
  <2> SUFFICES ASSUME StopwatchInv PROVE ElapsedIsRight
    OBVIOUS
  <2>1. freq \in Nat /\ FrequencyIsHz
    <3>1. /\ ReadCpuFrequency(cpuinfo) \in Nat
          /\ ReadCpuFrequency(cpuinfo) * PowerOfTen(Len(cpuinfo.fraction)) =
                Digits(0, cpuinfo.mhz \o cpuinfo.fraction) * PowerOfTen(MhzDigits)
      BY ReadsHz DEF StopwatchInv
    <3>2. freq = IF cpuinfo.invariant THEN ReadCpuFrequency(cpuinfo) ELSE 0
      BY DEF StopwatchInv, ReadInvariantCpuFrequency
    <3>3. CASE cpuinfo.invariant
      BY <3>1, <3>2, <3>3 DEF FrequencyIsHz
    <3>4. CASE ~ cpuinfo.invariant
      BY <3>1, <3>2, <3>4 DEF FrequencyIsHz
    <3> QED
      BY <3>3, <3>4
  <2>2. Elapsed = ticks /\ ticks \in Nat /\ ticks < CountMod
    BY <1>0, ElapsedIs DEF StopwatchInv
  <2>3. CASE freq = 0
    <3>1. ToNonoseconds(Elapsed) = ticks
      BY <2>2, <2>3 DEF ToNonoseconds
    <3> QED
      BY <2>1, <2>3, <3>1 DEF ElapsedIsRight
  <2>4. CASE freq # 0
    <3>1. ASSUME ticks * PerSecond < CountMod, ticks < freq \/ freq = PerSecond
          PROVE  ToNonoseconds(ticks) = (ticks * PerSecond) \div freq
      BY <2>1, <2>2, <2>4, <3>1, ConversionIs
    <3> QED
      BY <2>1, <2>2, <2>4, <3>1 DEF ElapsedIsRight
  <2> QED
    BY <2>3, <2>4
<1> QED
  BY <1>1, <1>2, StopwatchStep, PTL DEF StopwatchSpec

-----------------------------------------------------------------------------
(* The jumps of libcontext.                                                *)

\* Where the i-th pop reads; the address to go on at is behind the last one.
Slot(j, i) == j.area + (i - 1) * j.word

\* The pops take in reverse order what the pushes left, beside the floating
\* point state; make_fcontext puts the function where the address is read and
\* finish where the function returns to, and the bounds of the stack where the
\* thread block has them.
JumpFits(j) ==
    LET n == Len(j.push) IN
    /\ n \in Nat /\ Len(j.pop) = n /\ DOMAIN j.push = 1 .. n
    /\ j.area \in Nat /\ j.word \in Nat \ {0} /\ j.fresh \in Nat /\ j.fpu \in Int
    /\ \A i \in 1 .. n : j.pop[i] = j.push[n + 1 - i] /\ j.push[i] # "fpu"
    /\ \A i \in 0 .. n : j.fpu # j.area + i * j.word
MakeFits(j, make) ==
    LET n == Len(j.push)
        Is(i, words) == /\ Slot(j, i) + j.fresh \in DOMAIN make
                        /\ make[Slot(j, i) + j.fresh] \in words
    IN
    /\ Is(n + 1, {"fn"})
    /\ (\A i \in 1 .. n : j.pop[i] # "lr") => Is(n + 2, {"finish"})
    /\ \A i \in 1 .. n : j.pop[i] = "lr" => Is(i, {"finish"})
    /\ \A i \in 1 .. n : j.pop[i] \in {"tib4", "tib8"} => Is(i, {"base", "limit"})

\* That is so on 32-bit Windows.
LEMMA WindowsI386Fits == JumpFits(JumpWindowsI386) /\ MakeFits(JumpWindowsI386, MakeWindowsI386)
<1>1. JumpFits(JumpWindowsI386)
  BY DEF JumpFits, JumpWindowsI386
<1>2. MakeFits(JumpWindowsI386, MakeWindowsI386)
  BY DEF MakeFits, Slot, JumpWindowsI386, MakeWindowsI386
<1> QED
  BY <1>1, <1>2

\* The same on 64-bit Windows.
LEMMA WindowsX64Fits == JumpFits(JumpWindowsX64) /\ MakeFits(JumpWindowsX64, MakeWindowsX64)
<1>1. JumpFits(JumpWindowsX64)
  BY DEF JumpFits, JumpWindowsX64
<1>2. MakeFits(JumpWindowsX64, MakeWindowsX64)
  BY DEF MakeFits, Slot, JumpWindowsX64, MakeWindowsX64
<1> QED
  BY <1>1, <1>2

\* On 32-bit Linux.
LEMMA LinuxI386Fits == JumpFits(JumpLinuxI386) /\ MakeFits(JumpLinuxI386, MakeLinuxI386)
<1>1. JumpFits(JumpLinuxI386)
  BY DEF JumpFits, JumpLinuxI386
<1>2. MakeFits(JumpLinuxI386, MakeLinuxI386)
  BY DEF MakeFits, Slot, JumpLinuxI386, MakeLinuxI386
<1> QED
  BY <1>1, <1>2

\* On 64-bit Linux, the platform mcast asks for.
LEMMA LinuxX64Fits == JumpFits(JumpLinuxX64) /\ MakeFits(JumpLinuxX64, MakeLinuxX64)
<1>1. JumpFits(JumpLinuxX64)
  BY DEF JumpFits, JumpLinuxX64
<1>2. MakeFits(JumpLinuxX64, MakeLinuxX64)
  BY DEF MakeFits, Slot, JumpLinuxX64, MakeLinuxX64
<1> QED
  BY <1>1, <1>2

\* On 64-bit Apple.
LEMMA AppleX64Fits == JumpFits(JumpAppleX64) /\ MakeFits(JumpAppleX64, MakeAppleX64)
<1>1. JumpFits(JumpAppleX64)
  BY DEF JumpFits, JumpAppleX64
<1>2. MakeFits(JumpAppleX64, MakeAppleX64)
  BY DEF MakeFits, Slot, JumpAppleX64, MakeAppleX64
<1> QED
  BY <1>1, <1>2

\* On 32-bit Apple.
LEMMA AppleI386Fits == JumpFits(JumpAppleI386) /\ MakeFits(JumpAppleI386, MakeAppleI386)
<1>1. JumpFits(JumpAppleI386)
  BY DEF JumpFits, JumpAppleI386
<1>2. MakeFits(JumpAppleI386, MakeAppleI386)
  BY DEF MakeFits, Slot, JumpAppleI386, MakeAppleI386
<1> QED
  BY <1>1, <1>2

\* On 32-bit ARM, where the function returns to what is popped into lr.
LEMMA LinuxArm32Fits == JumpFits(JumpLinuxArm32) /\ MakeFits(JumpLinuxArm32, MakeLinuxArm32)
<1>1. JumpFits(JumpLinuxArm32)
  BY DEF JumpFits, JumpLinuxArm32
<1>2. MakeFits(JumpLinuxArm32, MakeLinuxArm32)
  BY DEF MakeFits, Slot, JumpLinuxArm32, MakeLinuxArm32
<1> QED
  BY <1>1, <1>2

\* On 64-bit ARM, where the registers are stored by offset.
LEMMA LinuxArm64Fits == JumpFits(JumpLinuxArm64) /\ MakeFits(JumpLinuxArm64, MakeLinuxArm64)
<1>1. JumpFits(JumpLinuxArm64)
  BY DEF JumpFits, JumpLinuxArm64, NotInArea
<1>2. MakeFits(JumpLinuxArm64, MakeLinuxArm64)
  <2> DEFINE j == JumpLinuxArm64
             make == MakeLinuxArm64
  <2>1. /\ Len(j.push) = 20 /\ j.pop[20] = "lr" /\ j.fresh = 0
        /\ \A i \in 1 .. 20 : j.pop[i] = "lr" => i = 20
        /\ \A i \in 1 .. 20 : j.pop[i] \notin {"tib4", "tib8"}
    BY DEF JumpLinuxArm64
  <2>2. Slot(j, 20) = 152 /\ Slot(j, 21) = 160
    BY DEF Slot, JumpLinuxArm64
  <2>3. /\ DOMAIN make = {152, 160}
        /\ make[152] = "finish" /\ make[160] = "fn"
    BY DEF MakeLinuxArm64
  <2> HIDE DEF j, make
  <2> QED
    BY <2>1, <2>2, <2>3 DEF MakeFits, j, make
<1> QED
  BY <1>1, <1>2

\* So whatever the platform is.
LEMMA PlatformsFit ==
    \A p \in DOMAIN Platforms :
        JumpFits(Platforms[p].jump) /\ MakeFits(Platforms[p].jump, Platforms[p].make)
  BY WindowsI386Fits, WindowsX64Fits, LinuxI386Fits, LinuxX64Fits, AppleX64Fits,
     AppleI386Fits, LinuxArm32Fits, LinuxArm64Fits DEF Platforms

-----------------------------------------------------------------------------
\* The stack of a context that has jumped away holds its registers where they
\* are popped, and where it goes on.
FrameHolds(j, f, c, regs, fp) ==
    LET n == Len(j.push) IN
    /\ \A i \in 1 .. n : Content(f, Slot(j, i)) = regs[j.pop[i]]
    /\ Content(f, Slot(j, n + 1)) = <<c, "after jump">>
    /\ fp /\ j.fpu # NotInArea => Content(f, j.fpu) = regs["fpu"]

ContextInv ==
    /\ platform \in DOMAIN Platforms
    /\ onCpu \in begun /\ MainContext \in begun /\ begun \subseteq Contexts
    /\ cpu = [r \in Registers |-> cpu[r]]
    /\ kept = [c \in Contexts |-> kept[c]] /\ frame = [c \in Contexts |-> frame[c]]
    /\ ContextKeepsRegisters
    /\ \A c \in Contexts \ begun : frame[c] = Made(Platforms[platform].make)
    /\ \A c \in begun \ {onCpu} : FrameHolds(Jump, frame[c], c, kept[c], ~ ended)

\* What the pushes leave is what the pops want.
LEMMA PushedHolds ==
    ASSUME NEW c, NEW preserve \in BOOLEAN, NEW regs, JumpFits(Jump),
           \A r \in Pushable : cpu[r] = regs[r],
           preserve /\ Jump.fpu # NotInArea => cpu["fpu"] = regs["fpu"]
    PROVE  FrameHolds(Jump, Pushed(c, preserve), c, regs, preserve)
<1> DEFINE j == Jump
           n == Len(j.push)
           words == {j.area + i * j.word : i \in 0 .. n}
           slot(o) == n - (o - j.area) \div j.word
           all == words \cup (IF preserve THEN {j.fpu} ELSE {})
           f == [o \in all |-> IF o \notin words THEN cpu["fpu"]
                               ELSE IF slot(o) = 0 THEN <<c, "after jump">> ELSE cpu[j.push[slot(o)]]]
<1>1. Pushed(c, preserve) = f
  BY Zenon DEF Pushed
<1>2. /\ n \in Nat /\ DOMAIN j.push = 1 .. n /\ j.area \in Nat /\ j.word \in Nat \ {0}
      /\ \A i \in 1 .. n : j.pop[i] = j.push[n + 1 - i]
      /\ \A i \in 0 .. n : j.fpu # j.area + i * j.word
  BY DEF JumpFits
<1>3. \A r \in {j.push[i] : i \in DOMAIN j.push} : cpu[r] = regs[r]
  BY DEF Pushable
<1>4. preserve /\ j.fpu # NotInArea => cpu["fpu"] = regs["fpu"]
  OBVIOUS
<1> HIDE DEF j, n
<1>5. ASSUME NEW i \in 1 .. n + 1
      PROVE  /\ Slot(j, i) \in words /\ slot(Slot(j, i)) = n + 1 - i
  <2>1. i - 1 \in 0 .. n /\ i - 1 \in Nat /\ Slot(j, i) = j.area + (i - 1) * j.word
    BY <1>2 DEF Slot
  <2>0. ASSUME NEW x \in Nat, NEW w \in Nat \ {0}
        PROVE  x * w \in Nat /\ (x * w + 0) \div w = x
    BY Quotient
  <2>2. (i - 1) * j.word \in Nat
    BY <1>2, <2>0, <2>1, Zenon
  <2>3. ((i - 1) * j.word + 0) \div j.word = i - 1
    BY <1>2, <2>0, <2>1, Zenon
  <2>4. Slot(j, i) - j.area = (i - 1) * j.word + 0
    BY <1>2, <2>1, <2>2
  <2>5. slot(Slot(j, i)) = n - (i - 1)
    BY <2>3, <2>4
  <2>6. n - (i - 1) = n + 1 - i
    BY <1>2, <2>1
  <2> QED
    BY <2>1, <2>5, <2>6
<1>6. \A o \in words : o \in DOMAIN f
  OBVIOUS
<1>7. ASSUME NEW i \in 1 .. n PROVE Content(f, Slot(j, i)) = regs[j.pop[i]]
  <2>1. i \in 1 .. n + 1 /\ n + 1 - i # 0 /\ n + 1 - i \in 1 .. n
    BY <1>2
  <2>2. Slot(j, i) \in words /\ slot(Slot(j, i)) = n + 1 - i
    BY <1>5, <2>1
  <2> DEFINE o == Slot(j, i)
  <2> HIDE DEF words, slot, o
  <2>3. o \in words /\ slot(o) = n + 1 - i /\ slot(o) # 0
    BY <2>1, <2>2 DEF o
  <2>4. f[o] = cpu[j.push[n + 1 - i]] /\ o \in DOMAIN f
    BY <2>3
  <2>5. cpu[j.push[n + 1 - i]] = regs[j.pop[i]]
    BY <1>2, <1>3, <2>1
  <2> QED
    BY <2>4, <2>5 DEF Content, o
<1>8. Content(f, Slot(j, n + 1)) = <<c, "after jump">>
  <2>1. n + 1 \in 1 .. n + 1 /\ n + 1 - (n + 1) = 0
    BY <1>2
  <2>2. Slot(j, n + 1) \in words /\ slot(Slot(j, n + 1)) = 0
    BY <1>5, <2>1
  <2> DEFINE o == Slot(j, n + 1)
  <2> HIDE DEF words, slot, o
  <2>3. o \in words /\ slot(o) = 0
    BY <2>2 DEF o
  <2>4. f[o] = <<c, "after jump">> /\ o \in DOMAIN f
    BY <2>3
  <2> QED
    BY <2>4 DEF Content, o
<1>9. preserve /\ j.fpu # NotInArea => Content(f, j.fpu) = regs["fpu"]
  <2> SUFFICES ASSUME preserve, j.fpu # NotInArea PROVE Content(f, j.fpu) = regs["fpu"]
    OBVIOUS
  <2>1. j.fpu \notin words
    BY <1>2
  <2> HIDE DEF words, slot
  <2>2. j.fpu \in DOMAIN f /\ f[j.fpu] = cpu["fpu"]
    BY <2>1
  <2> QED
    BY <1>4, <2>2 DEF Content
<1> HIDE DEF f
<1> QED
  BY <1>1, <1>7, <1>8, <1>9 DEF FrameHolds, n, j

\* What is in a fresh stack.
LEMMA MadeHolds ==
    ASSUME NEW make, NEW o \in DOMAIN make
    PROVE  Content(Made(make), o) = <<make[o]>>
  BY DEF Content, Made

\* The pops and what they pop.
LEMMA PopsAre ==
    ASSUME JumpFits(Jump)
    PROVE  /\ Len(Jump.pop) = Len(Jump.push) /\ Len(Jump.push) \in Nat
           /\ \A r \in Pushable : \E i \in 1 .. Len(Jump.pop) : Jump.pop[i] = r
           /\ \A i \in 1 .. Len(Jump.pop) : Jump.pop[i] \in Pushable
           /\ "fpu" \notin Pushable
<1> DEFINE j == Jump
           n == Len(j.push)
<1>1. /\ n \in Nat /\ DOMAIN j.push = 1 .. n /\ Len(j.pop) = n
      /\ \A i \in 1 .. n : j.pop[i] = j.push[n + 1 - i] /\ j.push[i] # "fpu"
  BY DEF JumpFits
<1>2. Pushable = {j.push[i] : i \in DOMAIN j.push}
  BY DEF Pushable
<1> HIDE DEF j, n
<1>3. ASSUME NEW r \in Pushable PROVE \E i \in 1 .. n : j.pop[i] = r
  <2>1. PICK k \in 1 .. n : j.push[k] = r
    BY <1>1, <1>2
  <2>2. n + 1 - k \in 1 .. n /\ n + 1 - (n + 1 - k) = k
    BY <1>1
  <2> QED
    BY <1>1, <2>1, <2>2
<1>4. ASSUME NEW i \in 1 .. n PROVE j.pop[i] \in Pushable
  <2>1. n + 1 - i \in 1 .. n
    BY <1>1
  <2> QED
    BY <1>1, <1>2, <2>1
<1>5. "fpu" \notin Pushable
  BY <1>1, <1>2
<1> QED
  BY <1>1, <1>3, <1>4, <1>5 DEF n, j

\* What a jump does to the registers, the way it goes and the stacks.
LEMMA JumpDoes ==
    ASSUME ContextInv, NEW d \in Contexts, NEW preserve \in BOOLEAN, jump_fcontext(d, preserve)
    PROVE  /\ ~ ended /\ d # onCpu /\ onCpu' = d /\ begun' = begun \cup {d} /\ platform' = platform
           /\ frame' = [frame EXCEPT ![onCpu] = Pushed(onCpu, preserve)]
           /\ kept' = IF d \notin begun THEN [kept EXCEPT ![d] = cpu'] ELSE kept
           /\ cpu' = [r \in Registers |-> cpu'[r]]
           /\ goesTo' = Content(frame[d], PopOffset(Len(Jump.pop) + 1, d \notin begun))
           /\ \A r \in Pushable : \E i \in 1 .. Len(Jump.pop) :
                /\ Jump.pop[i] = r
                /\ cpu'[r] = Content(frame[d], PopOffset(i, d \notin begun))
           /\ preserve /\ Jump.fpu # NotInArea => cpu'["fpu"] = Content(frame[d], Jump.fpu)
<1> DEFINE popped(r) == CHOOSE i \in 1 .. Len(Jump.pop) : Jump.pop[i] = r
           fpu == IF LoadsFpu(preserve) /\ Jump.fpu # NotInArea
                  THEN Content(frame[d], Jump.fpu) ELSE cpu["fpu"]
           g(r) == IF r = "fpu" THEN fpu
                   ELSE Content(frame[d], PopOffset(popped(r), d \notin begun))
<1>1. /\ ~ ended /\ d # onCpu /\ onCpu' = d /\ begun' = begun \cup {d} /\ platform' = platform
      /\ frame' = [frame EXCEPT ![onCpu] = Pushed(onCpu, preserve)]
      /\ kept' = IF d \notin begun THEN [kept EXCEPT ![d] = cpu'] ELSE kept
      /\ goesTo' = Content(frame[d], PopOffset(Len(Jump.pop) + 1, d \notin begun))
      /\ cpu' = [r \in Registers |-> g(r)]
  BY Zenon DEF jump_fcontext
<1>2. JumpFits(Jump)
  BY PlatformsFit DEF ContextInv, Jump
<1>3. ASSUME NEW r \in Pushable
      PROVE  \E i \in 1 .. Len(Jump.pop) :
                /\ Jump.pop[i] = r
                /\ cpu'[r] = Content(frame[d], PopOffset(i, d \notin begun))
  <2>1. r \in Registers /\ r # "fpu"
    BY <1>2, PopsAre DEF Registers
  <2>2. \E i \in 1 .. Len(Jump.pop) : Jump.pop[i] = r
    BY <1>2, PopsAre
  <2>3. popped(r) \in 1 .. Len(Jump.pop) /\ Jump.pop[popped(r)] = r
    BY <2>2, Zenon
  <2>4. cpu'[r] = g(r)
    <3> HIDE DEF g
    <3> QED
      BY <1>1, <2>1, Zenon
  <2>5. cpu'[r] = Content(frame[d], PopOffset(popped(r), d \notin begun))
    BY <2>1, <2>4, Zenon
  <2> HIDE DEF popped
  <2> QED
    BY <2>3, <2>5, Zenon
<1>4. preserve /\ Jump.fpu # NotInArea => cpu'["fpu"] = Content(frame[d], Jump.fpu)
  <2>1. "fpu" \in Registers
    BY DEF Registers
  <2>2. cpu'["fpu"] = g("fpu")
    <3> HIDE DEF g
    <3> QED
      BY <1>1, <2>1, Zenon
  <2>3. g("fpu") = fpu
    BY Zenon
  <2>4. preserve /\ Jump.fpu # NotInArea => fpu = Content(frame[d], Jump.fpu)
    BY Zenon DEF LoadsFpu
  <2> QED
    BY <2>2, <2>3, <2>4, Zenon
<1>5. cpu' = [r \in Registers |-> cpu'[r]]
  <2> HIDE DEF g
  <2> QED
    BY <1>1, Zenon
<1> QED
  BY <1>1, <1>3, <1>4, <1>5, Zenon

\* A jump to a context that has run.
LEMMA JumpBack ==
    ASSUME ContextInv, NEW d \in begun, NEW preserve \in BOOLEAN, jump_fcontext(d, preserve),
           preserve \/ ended'
    PROVE  ContextKeepsRegisters'
<1> DEFINE j == Jump
           n == Len(j.pop)
<1>0. JumpFits(j) /\ n = Len(j.push) /\ d \in Contexts
  BY PlatformsFit, PopsAre DEF ContextInv, Jump
<1>1. /\ ~ ended /\ d # onCpu /\ onCpu' = d /\ platform' = platform /\ kept' = kept
      /\ goesTo' = Content(frame[d], PopOffset(n + 1, FALSE))
      /\ \A r \in Pushable : \E i \in 1 .. n :
                j.pop[i] = r /\ cpu'[r] = Content(frame[d], PopOffset(i, FALSE))
      /\ preserve /\ j.fpu # NotInArea => cpu'["fpu"] = Content(frame[d], j.fpu)
  BY <1>0, JumpDoes
<1>2. FrameHolds(j, frame[d], d, kept[d], TRUE)
  BY <1>1 DEF ContextInv
<1>3. ASSUME NEW i \in Nat PROVE PopOffset(i, FALSE) = Slot(j, i)
  BY <1>0, <1>3 DEF PopOffset, Slot, JumpFits
<1>4. n \in Nat /\ \A i \in 1 .. n : i \in Nat
  BY <1>0, PopsAre
<1>5. goesTo' = <<d, "after jump">>
  <2>1. n + 1 \in Nat
    BY <1>4
  <2>2. PopOffset(n + 1, FALSE) = Slot(j, n + 1)
    BY <1>3, <2>1
  <2>3. Content(frame[d], Slot(j, Len(j.push) + 1)) = <<d, "after jump">>
    BY <1>2, Zenon DEF FrameHolds
  <2> QED
    BY <1>0, <1>1, <2>2, <2>3
<1>6. ASSUME NEW r \in Pushable PROVE cpu'[r] = kept[d][r]
  <2>1. PICK i \in 1 .. n : j.pop[i] = r /\ cpu'[r] = Content(frame[d], PopOffset(i, FALSE))
    BY <1>1
  <2>2. PopOffset(i, FALSE) = Slot(j, i)
    BY <1>3, <1>4
  <2>3. Content(frame[d], Slot(j, i)) = kept[d][j.pop[i]]
    BY <1>0, <1>2 DEF FrameHolds
  <2> QED
    BY <2>1, <2>2, <2>3
<1>7. ~ ended' /\ j.fpu # NotInArea => cpu'["fpu"] = kept[d]["fpu"]
  BY <1>1, <1>2 DEF FrameHolds
<1>8. Pushable' = Pushable /\ Jump' = j
  BY <1>1 DEF Pushable, Jump
<1> QED
  BY <1>1, <1>5, <1>6, <1>7, <1>8 DEF ContextKeepsRegisters

\* A jump to a fresh context: it goes to the function, which finds where to
\* return to and the bounds of its stack.
LEMMA JumpIn ==
    ASSUME ContextInv, NEW d \in Contexts \ begun, NEW preserve \in BOOLEAN,
           jump_fcontext(d, preserve)
    PROVE  /\ ContextKeepsRegisters'
           /\ goesTo' = <<"fn">>
           /\ ReturnAddress(frame[onCpu'], cpu') = <<"finish">>
           /\ \A r \in {"tib4", "tib8"} \cap Registers : cpu'[r] \in {<<"base">>, <<"limit">>}
<1> DEFINE j == Jump
           n == Len(j.pop)
           make == Platforms[platform].make
           At(i) == Slot(j, i) + j.fresh
<1>0. JumpFits(j) /\ MakeFits(j, make) /\ n = Len(j.push) /\ n \in Nat
  BY PlatformsFit, PopsAre DEF ContextInv, Jump
<1>1. /\ d # onCpu /\ onCpu' = d /\ platform' = platform
      /\ kept' = [kept EXCEPT ![d] = cpu']
      /\ cpu' = [r \in Registers |-> cpu'[r]]
      /\ goesTo' = Content(frame[d], PopOffset(n + 1, TRUE))
      /\ \A r \in Pushable : \E i \in 1 .. n :
                j.pop[i] = r /\ cpu'[r] = Content(frame[d], PopOffset(i, TRUE))
  BY JumpDoes
<1>2. frame[d] = Made(make) /\ kept = [c \in Contexts |-> kept[c]]
  BY DEF ContextInv
<1>3. ASSUME NEW i \in Nat PROVE PopOffset(i, TRUE) = At(i)
  BY <1>0, <1>3 DEF PopOffset, Slot, JumpFits
<1>4. n + 1 \in Nat /\ n + 2 \in Nat /\ \A i \in 1 .. n : i \in Nat
  BY <1>0
<1>5. /\ At(n + 1) \in DOMAIN make /\ make[At(n + 1)] = "fn"
      /\ (\A i \in 1 .. n : j.pop[i] # "lr") => At(n + 2) \in DOMAIN make /\ make[At(n + 2)] = "finish"
      /\ \A i \in 1 .. n : j.pop[i] = "lr" => At(i) \in DOMAIN make /\ make[At(i)] = "finish"
      /\ \A i \in 1 .. n : j.pop[i] \in {"tib4", "tib8"} =>
            At(i) \in DOMAIN make /\ make[At(i)] \in {"base", "limit"}
  BY <1>0 DEF MakeFits
<1>6. "fpu" \notin Pushable /\ \A i \in 1 .. n : j.pop[i] \in Pushable
  BY <1>0, PopsAre
<1>7. \A o \in DOMAIN make : Content(frame[d], o) = <<make[o]>>
  BY <1>2, MadeHolds
<1> HIDE DEF At, make, j, n
<1>8. ASSUME NEW r \in Pushable
      PROVE  \E i \in 1 .. n : j.pop[i] = r /\ cpu'[r] = Content(frame[d], At(i))
  BY <1>1, <1>3, <1>4
<1>9. goesTo' = <<"fn">>
  BY <1>1, <1>3, <1>4, <1>5, <1>7
<1>10. ASSUME NEW r \in {"tib4", "tib8"} \cap Registers PROVE cpu'[r] \in {<<"base">>, <<"limit">>}
  <2>1. r \in Pushable
    BY DEF Registers
  <2>2. PICK i \in 1 .. n : j.pop[i] = r /\ cpu'[r] = Content(frame[d], At(i))
    BY <1>8, <2>1
  <2>3. At(i) \in DOMAIN make /\ make[At(i)] \in {"base", "limit"}
    BY <1>5, <2>2
  <2> QED
    BY <1>7, <2>2, <2>3
<1>11. ReturnAddress(frame[onCpu'], cpu') = <<"finish">>
  <2>1. DOMAIN cpu' = Registers
    BY <1>1, Zenon
  <2>2. CASE "lr" \in Registers
    <3>1. "lr" \in Pushable
      BY <2>2 DEF Registers
    <3>2. PICK i \in 1 .. n : j.pop[i] = "lr" /\ cpu'["lr"] = Content(frame[d], At(i))
      BY <1>8, <3>1
    <3>3. cpu'["lr"] = <<"finish">>
      BY <1>5, <1>7, <3>2
    <3>4. ReturnAddress(frame[onCpu'], cpu') = cpu'["lr"]
      BY <2>1, <2>2, Zenon DEF ReturnAddress
    <3> QED
      BY <3>3, <3>4
  <2>3. CASE "lr" \notin Registers
    <3>1. \A i \in 1 .. n : j.pop[i] # "lr"
      BY <1>6, <2>3 DEF Registers
    <3>2. ReturnAddress(frame[onCpu'], cpu') = Content(frame[onCpu'], PopOffset(n + 2, TRUE))
      BY <2>1, <2>3, Zenon DEF ReturnAddress, n, j
    <3>3. PopOffset(n + 2, TRUE) = At(n + 2)
      BY <1>3, <1>4
    <3> QED
      BY <1>1, <1>5, <1>7, <3>1, <3>2, <3>3
  <2> QED
    BY <2>2, <2>3
<1>12. ContextKeepsRegisters'
  <2>1. kept'[onCpu'] = cpu'
    BY <1>1, <1>2
  <2> QED
    BY <1>9, <2>1 DEF ContextKeepsRegisters
<1> QED
  BY <1>9, <1>10, <1>11, <1>12

\* A jump keeps the invariant.
LEMMA JumpStep ==
    ASSUME ContextInv, NEW d \in Contexts, NEW preserve \in BOOLEAN, jump_fcontext(d, preserve),
           preserve \/ (ended' /\ d \in begun), preserve => ended' = ended
    PROVE  ContextInv'
<1> DEFINE j == Jump
<1>0. JumpFits(j)
  BY PlatformsFit DEF ContextInv, Jump
<1>1. /\ ~ ended /\ d # onCpu /\ onCpu' = d /\ begun' = begun \cup {d} /\ platform' = platform
      /\ frame' = [frame EXCEPT ![onCpu] = Pushed(onCpu, preserve)]
      /\ kept' = IF d \notin begun THEN [kept EXCEPT ![d] = cpu'] ELSE kept
      /\ cpu' = [r \in Registers |-> cpu'[r]]
  BY JumpDoes
<1>2. /\ platform \in DOMAIN Platforms
      /\ onCpu \in begun /\ MainContext \in begun /\ begun \subseteq Contexts
      /\ kept = [c \in Contexts |-> kept[c]] /\ frame = [c \in Contexts |-> frame[c]]
      /\ ContextKeepsRegisters
      /\ \A c \in Contexts \ begun : frame[c] = Made(Platforms[platform].make)
      /\ \A c \in begun \ {onCpu} : FrameHolds(j, frame[c], c, kept[c], ~ ended)
  BY DEF ContextInv
<1>3. Jump' = j /\ Registers' = Registers
  BY <1>1 DEF Jump, Registers, Pushable
<1>4. ContextKeepsRegisters'
  <2>1. CASE d \in begun
    BY <2>1, JumpBack
  <2>2. CASE d \notin begun
    BY <2>2, JumpIn
  <2> QED
    BY <2>1, <2>2
<1>5. FrameHolds(j, Pushed(onCpu, preserve), onCpu, kept[onCpu], preserve)
  <2>1. \A r \in Pushable : cpu[r] = kept[onCpu][r]
    BY <1>2 DEF ContextKeepsRegisters
  <2>2. Jump.fpu # NotInArea => cpu["fpu"] = kept[onCpu]["fpu"]
    BY <1>1, <1>2 DEF ContextKeepsRegisters
  <2> QED
    BY <1>0, <2>1, <2>2, PushedHolds
<1> HIDE DEF j
<1>6. /\ frame' = [c \in Contexts |-> frame'[c]] /\ kept' = [c \in Contexts |-> kept'[c]]
      /\ frame'[onCpu] = Pushed(onCpu, preserve)
      /\ \A c \in Contexts \ {onCpu} : frame'[c] = frame[c]
      /\ \A c \in Contexts \ {d} : kept'[c] = kept[c]
  BY <1>1, <1>2
<1>7. \A c \in Contexts \ begun' : frame'[c] = Made(Platforms[platform'].make)
  BY <1>1, <1>2, <1>6
<1>8. ASSUME NEW c \in begun' \ {onCpu'} PROVE FrameHolds(j, frame'[c], c, kept'[c], ~ ended')
  <2>1. c \in begun /\ c \in Contexts /\ c # d
    BY <1>1, <1>2
  <2>2. kept'[c] = kept[c]
    BY <1>6, <2>1
  <2>3. CASE c = onCpu
    <3>1. FrameHolds(j, frame'[c], c, kept'[c], preserve)
      BY <1>5, <1>6, <2>2, <2>3
    <3>2. ~ ended' => preserve
      OBVIOUS
    <3> QED
      BY <3>1, <3>2 DEF FrameHolds
  <2>4. CASE c # onCpu
    <3>1. frame'[c] = frame[c]
      BY <1>6, <2>1, <2>4
    <3>2. FrameHolds(j, frame'[c], c, kept'[c], ~ ended)
      BY <1>2, <2>1, <2>2, <2>4, <3>1
    <3> QED
      BY <1>1, <3>2 DEF FrameHolds
  <2> QED
    BY <2>3, <2>4
<1>9. /\ platform' \in DOMAIN Platforms
      /\ onCpu' \in begun' /\ MainContext \in begun' /\ begun' \subseteq Contexts
      /\ cpu' = [r \in Registers' |-> cpu'[r]]
  BY <1>1, <1>2, <1>3
<1> QED
  BY <1>3, <1>4, <1>6, <1>7, <1>8, <1>9 DEF ContextInv

\* A context that computes sets its own registers.
LEMMA ComputeStep == ContextInv /\ Compute => ContextInv' /\ ContextKeepsRegisters'
<1> SUFFICES ASSUME ContextInv, Compute PROVE ContextInv'
  BY DEF ContextInv
<1>1. PICK m \in {0, 1} :
        /\ ~ ended /\ cpu' = SetBy(onCpu, m)
        /\ kept' = [kept EXCEPT ![onCpu] = SetBy(onCpu, m)]
        /\ UNCHANGED <<platform, onCpu, frame, begun, goesTo, ended>>
  BY DEF Compute
<1>2. /\ onCpu \in Contexts /\ kept = [c \in Contexts |-> kept[c]]
      /\ goesTo \in {<<onCpu, "after jump">>, <<"fn">>}
  BY DEF ContextInv, ContextKeepsRegisters
<1>3. Jump' = Jump /\ Registers' = Registers /\ Pushable' = Pushable
  BY <1>1 DEF Jump, Registers, Pushable
<1> DEFINE set == SetBy(onCpu, m)
<1>4. set = [r \in Registers |-> set[r]]
  BY DEF SetBy
<1> HIDE DEF set
<1>5. cpu' = set /\ kept' = [kept EXCEPT ![onCpu] = set]
  BY <1>1 DEF set
<1>6. /\ kept'[onCpu] = set /\ kept' = [c \in Contexts |-> kept'[c]]
      /\ \A c \in Contexts \ {onCpu} : kept'[c] = kept[c]
  BY <1>2, <1>5
<1>7. ContextKeepsRegisters'
  <2>1. cpu' = kept'[onCpu']
    BY <1>1, <1>5, <1>6
  <2> QED
    BY <1>1, <1>2, <2>1 DEF ContextKeepsRegisters
<1>8. \A c \in begun' \ {onCpu'} : FrameHolds(Jump', frame'[c], c, kept'[c], ~ ended')
  BY <1>1, <1>3, <1>6 DEF ContextInv
<1>9. /\ platform' \in DOMAIN Platforms
      /\ onCpu' \in begun' /\ MainContext \in begun' /\ begun' \subseteq Contexts
      /\ cpu' = [r \in Registers' |-> cpu'[r]]
      /\ frame' = [c \in Contexts |-> frame'[c]]
      /\ \A c \in Contexts \ begun' : frame'[c] = Made(Platforms[platform'].make)
  BY <1>1, <1>3, <1>4, <1>5 DEF ContextInv
<1> QED
  BY <1>6, <1>7, <1>8, <1>9 DEF ContextInv

\* Every jump of libcontext arrives, on every platform and among any number of
\* contexts: a context that has run goes on where it left off with the
\* registers it had, whatever ran in between; a fresh one in its function,
\* which returns to finish and finds the bounds of its own stack.
THEOREM ContextJumpsArrive == ContextSpec => JumpsArrive
<1> DEFINE Arrives ==
             /\ ContextKeepsRegisters'
             /\ (onCpu' # onCpu /\ onCpu' \notin begun) =>
                  /\ goesTo' = <<"fn">>
                  /\ ReturnAddress(frame[onCpu'], cpu') = <<"finish">>
                  /\ \A r \in {"tib4", "tib8"} \cap Registers :
                       cpu'[r] \in {<<"base">>, <<"limit">>}
<1>1. ContextInit => ContextInv
  <2> SUFFICES ASSUME ContextInit PROVE ContextInv
    OBVIOUS
  <2>1. cpu = [r \in Registers |-> cpu[r]] /\ kept = [c \in Contexts |-> kept[c]]
        /\ frame = [c \in Contexts |-> frame[c]]
    BY DEF ContextInit, SetBy
  <2>2. ContextKeepsRegisters
    BY ContextsAssumption DEF ContextInit, ContextKeepsRegisters
  <2> QED
    BY <2>1, <2>2, ContextsAssumption DEF ContextInit, ContextInv
<1>2. ASSUME ContextInv, [ContextNext]_contextVars
      PROVE  ContextInv' /\ (Arrives \/ UNCHANGED contextVars)
  <2>1. CASE Compute
    <3>1. onCpu' = onCpu
      BY <2>1 DEF Compute
    <3> QED
      BY <1>2, <2>1, <3>1, ComputeStep
  <2>2. ASSUME NEW d \in Contexts, SwitchContext(d) PROVE ContextInv' /\ Arrives
    <3>1. jump_fcontext(d, TRUE) /\ ended' = ended
      BY <2>2 DEF SwitchContext
    <3>2. ContextInv' /\ onCpu' = d
      BY <1>2, <3>1, JumpStep, JumpDoes
    <3>3. d \notin begun => Arrives
      BY <1>2, <3>1, JumpIn
    <3>4. d \in begun => Arrives
      BY <3>2 DEF ContextInv
    <3> QED
      BY <3>2, <3>3, <3>4
  <2>3. CASE LeaveThread
    <3>1. jump_fcontext(MainContext, FALSE) /\ ended' /\ MainContext \in begun
      BY <1>2, <2>3 DEF LeaveThread, ContextInv
    <3>2. ContextInv' /\ onCpu' = MainContext
      BY <1>2, <3>1, JumpStep, JumpDoes, ContextsAssumption
    <3> QED
      BY <3>1, <3>2 DEF ContextInv
  <2>4. CASE UNCHANGED contextVars
    <3>0. UNCHANGED <<platform, cpu, onCpu, frame, begun, goesTo, ended, kept>>
      BY <2>4 DEF contextVars
    <3>1. ContextInv'
      <4>1. Jump' = Jump /\ Registers' = Registers /\ Pushable' = Pushable
        BY <3>0 DEF Jump, Registers, Pushable
      <4>2. ContextKeepsRegisters'
        BY <1>2, <3>0, <4>1 DEF ContextInv, ContextKeepsRegisters
      <4> QED
        BY <1>2, <3>0, <4>1, <4>2 DEF ContextInv
    <3> QED
      BY <2>4, <3>1
  <2> QED
    BY <1>2, <2>1, <2>2, <2>3, <2>4 DEF ContextNext
<1>3. ContextInv /\ [ContextNext]_contextVars => ContextInv' /\ [Arrives]_contextVars
  BY <1>2
<1> HIDE DEF Arrives
<1>4. ContextSpec => [][Arrives]_contextVars
  BY <1>1, <1>3, PTL DEF ContextSpec
<1> QED
  BY <1>4 DEF JumpsArrive, Arrives
=============================================================================
